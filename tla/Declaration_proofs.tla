-------------------------- MODULE Declaration_proofs --------------------------
(***************************************************************************)
(* Proofs about Declaration for every set of declarations, keys, clients,  *)
(* documents and parties, every limit, all volumes and priorities, amounts *)
(* of either sign sent to the quota API, and any number of submissions,    *)
(* edits and expiries.                                                     *)
(***************************************************************************)
EXTENDS Declaration, TLAPS

-----------------------------------------------------------------------------
(* The inductive invariant.                                                *)

\* An answer to a submission with this key: the declaration it names exists
\* and carries the key.
Names(result, key) ==
  result.id # None => Exists(result.id) /\ declarations[result.id].key = key

\* The unique index.
KeysUnique ==
  \A d, e \in DeclarationId :
    Exists(d) /\ Exists(e) /\ declarations[d].key = declarations[e].key
      /\ declarations[d].key # NoKey => d = e

\* Every answer that was given or stored for a key.
AnswersTrue ==
  \A k \in Key :
    /\ \A r \in replies[k] : Names(r, k)
    /\ records[k] # NoRecord => Names(records[k].result, k)

\* An edit holds a version that is not ahead of the row's, and a
\* cancellation is still legal while the two agree.
EditInv(c) ==
  LET r == call[c] IN
  r.pc \in {"cancel", "prioritise"} =>
    /\ Exists(r.id)
    /\ r.version <= declarations[r.id].version
    /\ r.pc = "cancel" /\ Matches(r.id, r.version) =>
         CanTransition(DeclarationStateMachine, declarations[r.id].status, "cancelled")

\* A submission names no declaration before its INSERT, and its own after.
SubmitInv(c) ==
  LET r == call[c] IN
  /\ r.pc \in {"lookup", "record"} => r.key # NoKey
  /\ r.pc \in {"lookup", "reserve", "reread"} => r.result.id = None
  /\ r.pc = "handover" => r.result.id # None
  /\ r.pc \in {"handover", "record"} => Names(r.result, r.key)

\* The tick holds versions that are not ahead of the rows', the head it
\* chose is queued while its version stands, and before every other
\* declaration it saw while that one's stands too.
SeenInv(e, v) ==
  /\ Exists(e)
  /\ v <= declarations[e].version
  /\ Matches(e, v) /\ Matches(tick.top, tick.version) =>
       declarations[tick.top].priority <= declarations[e].priority

TickInv ==
  tick.pc = "advance" =>
    /\ Exists(tick.top)
    /\ tick.version <= declarations[tick.top].version
    /\ Matches(tick.top, tick.version) => declarations[tick.top].status = "queued"
    /\ \A s \in tick.seen : SeenInv(s[1], s[2])

\* A party that is about to write may find its document as it read it, or a
\* later version; one that won has left its decision.
DecisionInv(p) ==
  LET r == deciding[p] IN
  /\ r.pc = "write" =>
       /\ H!Stored(r.document)
       /\ r.seen <= handovers[r.document].version
       /\ r.seen = handovers[r.document].version => handovers[r.document].status = "pending"
  /\ r.pc = "done" /\ r.won =>
       H!Stored(r.document) /\ handovers[r.document].status = r.decision

DeclInv ==
  /\ TypeOK
  /\ KeysUnique
  /\ AnswersTrue
  /\ \A c \in Client : EditInv(c) /\ SubmitInv(c)
  /\ TickInv
  /\ \A p \in Party : DecisionInv(p)

LEMMA InitDecl == Init => DeclInv
<1> SUFFICES ASSUME Init PROVE DeclInv
  OBVIOUS
<1>1. TypeOK
  BY DEF Init, TypeOK, NoQuota, QuotaRow, H!HandoverTypeOK, H!HandoverInit
<1>2. KeysUnique /\ AnswersTrue
  BY DEF Init, KeysUnique, AnswersTrue, Exists
<1>3. \A c \in Client : EditInv(c) /\ SubmitInv(c)
  BY DEF Init, EditInv, SubmitInv, Idle
<1>4. TickInv /\ \A p \in Party : DecisionInv(p)
  BY DEF Init, TickInv, DecisionInv, H!HandoverInit, H!Resting, Idle
<1> QED BY <1>1, <1>2, <1>3, <1>4 DEF DeclInv

-----------------------------------------------------------------------------
(* What a row and a call look like after several fields are set. *)

WithStatus(r, st, n) == [r EXCEPT !.status = st, !.version = n]

LEMMA StatusSet ==
  ASSUME NEW r \in DeclarationRow, NEW st \in DeclarationStatus, NEW n \in Nat
  PROVE  LET s == WithStatus(r, st, n) IN
         /\ s \in DeclarationRow /\ s.status = st /\ s.version = n
         /\ s.priority = r.priority /\ s.key = r.key /\ s.volume = r.volume
<1> DEFINE m == [r EXCEPT !.status = st]
           s == [m EXCEPT !.version = n]
<1>1. m \in DeclarationRow /\ m.status = st /\ m.priority = r.priority /\ m.key = r.key
      /\ m.volume = r.volume
  BY DEF DeclarationRow
<1> HIDE DEF m
<1>2. s \in DeclarationRow /\ s.version = n /\ s.status = m.status /\ s.priority = m.priority
      /\ s.key = m.key /\ s.volume = m.volume
  BY <1>1 DEF DeclarationRow
<1> HIDE DEF s
<1>3. s = WithStatus(r, st, n)
  BY DEF s, m, WithStatus
<1> QED BY <1>1, <1>2, <1>3

WithPriority(r, p, n) == [r EXCEPT !.priority = p, !.version = n]

LEMMA PrioritySet ==
  ASSUME NEW r \in DeclarationRow, NEW p \in Int, NEW n \in Nat
  PROVE  LET s == WithPriority(r, p, n) IN
         /\ s \in DeclarationRow /\ s.status = r.status /\ s.version = n
         /\ s.priority = p /\ s.key = r.key /\ s.volume = r.volume
<1> DEFINE m == [r EXCEPT !.priority = p]
           s == [m EXCEPT !.version = n]
<1>1. m \in DeclarationRow /\ m.priority = p /\ m.status = r.status /\ m.key = r.key
      /\ m.volume = r.volume
  BY DEF DeclarationRow
<1> HIDE DEF m
<1>2. s \in DeclarationRow /\ s.version = n /\ s.status = m.status /\ s.priority = m.priority
      /\ s.key = m.key /\ s.volume = m.volume
  BY <1>1 DEF DeclarationRow
<1> HIDE DEF s
<1>3. s = WithPriority(r, p, n)
  BY DEF s, m, WithPriority
<1> QED BY <1>1, <1>2, <1>3

SubmitPc == {"lookup", "reserve", "reread", "insert", "giveback", "handover", "record"}

WithPc(r, pc) == [r EXCEPT !.pc = pc]

LEMMA PcSet ==
  ASSUME NEW r \in SubmitState, NEW pc \in SubmitPc
  PROVE  LET s == WithPc(r, pc) IN
         /\ s \in SubmitState /\ s.pc = pc
         /\ s.key = r.key /\ s.volume = r.volume /\ s.priority = r.priority
         /\ s.version = r.version /\ s.result = r.result
BY DEF SubmitState, SubmitPc, WithPc

WithResult(r, n, result) == [r EXCEPT !.pc = "insert", !.version = n, !.result = result]

LEMMA ResultSet ==
  ASSUME NEW r \in SubmitState, NEW n \in Nat, NEW result \in Result
  PROVE  LET s == WithResult(r, n, result) IN
         /\ s \in SubmitState /\ s.pc = "insert" /\ s.version = n /\ s.result = result
         /\ s.key = r.key /\ s.volume = r.volume /\ s.priority = r.priority
<1> DEFINE m == WithPc(r, "insert")
           o == [m EXCEPT !.version = n]
           s == [o EXCEPT !.result = result]
<1>1. s = WithResult(r, n, result)
  BY DEF WithResult, WithPc
<1>2. m \in SubmitState /\ m.pc = "insert" /\ m.key = r.key /\ m.volume = r.volume
      /\ m.priority = r.priority
  BY PcSet DEF SubmitPc
<1> HIDE DEF m
<1>3. o \in SubmitState /\ o.pc = m.pc /\ o.version = n /\ o.key = m.key /\ o.volume = m.volume
      /\ o.priority = m.priority
  BY <1>2 DEF SubmitState
<1> HIDE DEF o
<1>4. s \in SubmitState /\ s.pc = o.pc /\ s.version = o.version /\ s.result = result
      /\ s.key = o.key /\ s.volume = o.volume /\ s.priority = o.priority
  BY <1>3 DEF SubmitState
<1> HIDE DEF s
<1> QED BY <1>1, <1>2, <1>3, <1>4

WithId(r, d) == [r EXCEPT !.pc = "handover", !.result.id = d]

LEMMA IdSet ==
  ASSUME NEW r \in SubmitState, NEW d \in DeclarationId
  PROVE  LET s == WithId(r, d) IN
         /\ s \in SubmitState /\ s.pc = "handover" /\ s.result.id = d
         /\ s.key = r.key /\ s.volume = r.volume
<1> DEFINE m == WithPc(r, "handover")
           x == [m.result EXCEPT !.id = d]
           s == [m EXCEPT !.result = x]
<1>1. s = WithId(r, d)
  BY DEF WithId, WithPc
<1>2. m \in SubmitState /\ m.pc = "handover" /\ m.key = r.key /\ m.volume = r.volume
  BY PcSet DEF SubmitPc
<1> HIDE DEF m
<1>3. m.result \in Result
  BY <1>2 DEF SubmitState
<1>4. x \in Result /\ x.id = d
  BY <1>3 DEF Result
<1> HIDE DEF x
<1>5. s \in SubmitState /\ s.pc = m.pc /\ s.result = x /\ s.key = m.key /\ s.volume = m.volume
  BY <1>2, <1>4 DEF SubmitState
<1> HIDE DEF s
<1> QED BY <1>1, <1>2, <1>4, <1>5

-----------------------------------------------------------------------------
(* What is known of a row survives what others write. *)

\* A step writes at most the version after the one it found, and no key.
RowsMove ==
  /\ declarations' \in [DeclarationId -> DeclarationRow \cup {NoDeclaration}]
  /\ \A d \in DeclarationId : Exists(d) =>
       /\ declarations'[d] # NoDeclaration
       /\ declarations'[d].key = declarations[d].key
       /\ \/ declarations'[d] = declarations[d]
          \/ declarations'[d].version = declarations[d].version + 1

LEMMA RowFacts ==
  ASSUME DeclInv, NEW d \in DeclarationId, Exists(d)
  PROVE  /\ declarations[d] \in DeclarationRow
         /\ declarations[d].version \in Nat /\ declarations[d].status \in DeclarationStatus
         /\ declarations[d].priority \in Int /\ declarations[d].key \in Key \cup {NoKey}
         /\ declarations[d].volume \in Volume
<1>1. declarations[d] \in DeclarationRow
  BY DEF DeclInv, TypeOK, Exists
<1> QED BY <1>1 DEF DeclarationRow

LEMMA Reads == ASSUME DeclInv, UNCHANGED declarations PROVE RowsMove /\ KeysUnique'
BY DEF RowsMove, DeclInv, TypeOK, Exists, KeysUnique

\* Only an INSERT can break the unique index.
LEMMA OneRowMoves ==
  ASSUME DeclInv, NEW d \in DeclarationId, Exists(d), NEW row \in DeclarationRow,
         row.version = declarations[d].version + 1, row.key = declarations[d].key,
         declarations' = [declarations EXCEPT ![d] = row]
  PROVE  RowsMove /\ KeysUnique'
<1>1. declarations \in [DeclarationId -> DeclarationRow \cup {NoDeclaration}]
  BY DEF DeclInv, TypeOK
<1>2. row # NoDeclaration
  BY DEF DeclarationRow, DeclarationStatus, NoDeclaration
<1>3. RowsMove
  BY <1>1, <1>2 DEF RowsMove, Exists
<1>4. \A e \in DeclarationId :
        /\ declarations'[e] # NoDeclaration => Exists(e)
        /\ declarations'[e].key = declarations[e].key
  BY <1>1 DEF Exists
<1>5. KeysUnique'
  BY <1>4 DEF DeclInv, KeysUnique, Exists
<1> QED BY <1>3, <1>5

LEMMA StatusUpdated ==
  ASSUME DeclInv, NEW d \in DeclarationId, Exists(d), NEW st \in DeclarationStatus,
         NEW version, UpdateDeclarationStatus(d, st, version)
  PROVE  /\ RowsMove /\ KeysUnique'
         /\ \/ UNCHANGED declarations
            \/ /\ Matches(d, version)
               /\ \E row \in DeclarationRow :
                    /\ declarations' = [declarations EXCEPT ![d] = row]
                    /\ row.status = st /\ row.volume = declarations[d].volume
<1>1. CASE Matches(d, version)
  <2> DEFINE row == WithStatus(declarations[d], st, version + 1)
  <2>1. version = declarations[d].version
    BY <1>1 DEF Matches
  <2>2. declarations[d] \in DeclarationRow /\ version + 1 \in Nat
    BY <2>1, RowFacts
  <2>3. /\ row \in DeclarationRow /\ row.status = st /\ row.version = version + 1
        /\ row.key = declarations[d].key /\ row.volume = declarations[d].volume
    BY <2>2, StatusSet
  <2>4. declarations' = [declarations EXCEPT ![d] = row]
    BY <1>1 DEF UpdateDeclarationStatus, WithStatus
  <2> HIDE DEF row
  <2> QED BY <1>1, <2>1, <2>3, <2>4, OneRowMoves
<1>2. CASE ~Matches(d, version)
  BY <1>2, Reads DEF UpdateDeclarationStatus
<1> QED BY <1>1, <1>2

LEMMA PriorityUpdated ==
  ASSUME DeclInv, NEW d \in DeclarationId, Exists(d), NEW p \in Int,
         NEW version, UpdatePriority(d, p, version)
  PROVE  /\ RowsMove /\ KeysUnique'
         /\ \/ UNCHANGED declarations
            \/ \E row \in DeclarationRow :
                 /\ declarations' = [declarations EXCEPT ![d] = row]
                 /\ row.status = declarations[d].status /\ row.volume = declarations[d].volume
<1>1. CASE Matches(d, version)
  <2> DEFINE row == WithPriority(declarations[d], p, version + 1)
  <2>1. version = declarations[d].version
    BY <1>1 DEF Matches
  <2>2. declarations[d] \in DeclarationRow /\ version + 1 \in Nat
    BY <2>1, RowFacts
  <2>3. /\ row \in DeclarationRow /\ row.status = declarations[d].status
        /\ row.version = version + 1
        /\ row.key = declarations[d].key /\ row.volume = declarations[d].volume
    BY <2>2, PrioritySet
  <2>4. declarations' = [declarations EXCEPT ![d] = row]
    BY <1>1 DEF UpdatePriority, WithPriority
  <2> HIDE DEF row
  <2> QED BY <2>1, <2>3, <2>4, OneRowMoves
<1>2. CASE ~Matches(d, version)
  BY <1>2, Reads DEF UpdatePriority
<1> QED BY <1>1, <1>2

LEMMA CallFacts ==
  ASSUME DeclInv, NEW c \in Client
  PROVE  /\ call[c].pc \in SubmitPc => call[c] \in SubmitState
         /\ call[c].pc \in {"cancel", "prioritise"} => call[c] \in EditState
<1>1. call[c] \in SubmitState \cup EditState \cup {Idle}
  BY DEF DeclInv, TypeOK
<1> QED BY <1>1 DEF SubmitState, EditState, SubmitPc, Idle

LEMMA NamesKept ==
  ASSUME RowsMove, NEW r \in Result, NEW k, Names(r, k)
  PROVE  r.id # None => declarations'[r.id] # NoDeclaration /\ declarations'[r.id].key = k
BY DEF RowsMove, Names, Result

LEMMA EditKept ==
  ASSUME DeclInv, RowsMove, NEW c \in Client, call'[c] = call[c]
  PROVE  EditInv(c)'
<1>1. EditInv(c)
  BY DEF DeclInv
<1>2. CASE call[c].pc \in {"cancel", "prioritise"}
  <2>1. call[c].id \in DeclarationId /\ call[c].version \in Nat /\ Exists(call[c].id)
    BY <1>1, <1>2, CallFacts DEF EditState, EditInv
  <2>2. declarations[call[c].id].version \in Nat
    BY <2>1, RowFacts
  <2> QED BY <1>1, <1>2, <2>1, <2>2 DEF EditInv, RowsMove, Matches, Exists
<1>3. CASE call[c].pc \notin {"cancel", "prioritise"}
  BY <1>3 DEF EditInv
<1> QED BY <1>2, <1>3

LEMMA SubmitKept ==
  ASSUME DeclInv, RowsMove, NEW c \in Client, call'[c] = call[c]
  PROVE  SubmitInv(c)'
<1>1. SubmitInv(c)
  BY DEF DeclInv
<1>2. CASE call[c].pc \in {"handover", "record"}
  <2>1. call[c].result \in Result /\ Names(call[c].result, call[c].key)
    BY <1>1, <1>2, CallFacts DEF SubmitState, SubmitInv, SubmitPc
  <2> QED BY <1>1, <2>1, NamesKept DEF SubmitInv, Names, Exists
<1>3. CASE call[c].pc \notin {"handover", "record"}
  BY <1>1, <1>3 DEF SubmitInv
<1> QED BY <1>2, <1>3

LEMMA CallsKept ==
  ASSUME DeclInv, RowsMove, UNCHANGED call
  PROVE  \A c \in Client : EditInv(c)' /\ SubmitInv(c)'
BY EditKept, SubmitKept

LEMMA AnswersKept ==
  ASSUME DeclInv, RowsMove, UNCHANGED <<replies, records>>
  PROVE  AnswersTrue'
<1> SUFFICES ASSUME NEW k \in Key
             PROVE  /\ \A r \in replies[k] : Names(r, k)'
                    /\ records[k] # NoRecord => Names(records[k].result, k)'
  BY DEF AnswersTrue, Names, Exists
<1>1. /\ \A r \in replies[k] : r \in Result /\ Names(r, k)
      /\ records[k] # NoRecord => records[k].result \in Result /\ Names(records[k].result, k)
  BY DEF DeclInv, TypeOK, AnswersTrue, Record
<1> QED BY <1>1, NamesKept DEF Names, Exists

LEMMA TickFacts ==
  ASSUME DeclInv, tick.pc = "advance"
  PROVE  /\ tick \in TickState /\ tick.top \in DeclarationId /\ tick.version \in Nat
         /\ \A s \in tick.seen : s[1] \in DeclarationId /\ s[2] \in Nat
         /\ Exists(tick.top)
         /\ \A s \in tick.seen : SeenInv(s[1], s[2])
<1>1. tick \in TickState
  BY DEF DeclInv, TypeOK, Idle
<1>2. tick.seen \in SUBSET (DeclarationId \X Nat)
  BY <1>1 DEF TickState
<1> QED BY <1>1, <1>2 DEF TickState, DeclInv, TickInv

LEMMA TickKept == ASSUME DeclInv, RowsMove, UNCHANGED tick PROVE TickInv'
<1> SUFFICES ASSUME tick.pc = "advance" PROVE TickInv'
  BY DEF TickInv
<1> DEFINE d == tick.top
<1>1. /\ d \in DeclarationId /\ tick.version \in Nat /\ Exists(d)
      /\ declarations[d].version \in Nat
  BY TickFacts, RowFacts
<1>2. /\ tick.version <= declarations[d].version
      /\ tick.version = declarations[d].version => declarations[d].status = "queued"
  BY DEF DeclInv, TickInv, Matches
<1>3. /\ declarations'[d] # NoDeclaration
      /\ \/ declarations'[d] = declarations[d]
         \/ declarations'[d].version = declarations[d].version + 1
  BY <1>1 DEF RowsMove
<1>4. /\ tick.version <= declarations'[d].version
      /\ tick.version = declarations'[d].version => declarations'[d] = declarations[d]
  BY <1>1, <1>2, <1>3
<1>5. ASSUME NEW s \in tick.seen PROVE SeenInv(s[1], s[2])'
  <2> DEFINE e == s[1]
             v == s[2]
  <2>1. e \in DeclarationId /\ v \in Nat /\ SeenInv(e, v)
    BY TickFacts
  <2>2. Exists(e) /\ declarations[e].version \in Nat /\ v <= declarations[e].version
    BY <2>1, RowFacts DEF SeenInv
  <2>3. /\ declarations'[e] # NoDeclaration
        /\ \/ declarations'[e] = declarations[e]
           \/ declarations'[e].version = declarations[e].version + 1
    BY <2>1, <2>2 DEF RowsMove
  <2>4. /\ v <= declarations'[e].version
        /\ v = declarations'[e].version => declarations'[e] = declarations[e]
    BY <2>1, <2>2, <2>3
  <2> HIDE DEF e, v, d
  <2>5. SeenInv(e, v)'
    BY <1>4, <2>1, <2>3, <2>4 DEF SeenInv, Matches, Exists, d
  <2> QED BY <2>5 DEF e, v
<1> QED BY <1>2, <1>3, <1>4, <1>5 DEF TickInv, Matches, Exists

-----------------------------------------------------------------------------
(* Handover documents. *)

\* A step changes a document only while it is pending, and writes the
\* version after the one it found.
DocumentsMove ==
  /\ handovers' \in [Document -> H!DocumentRow \cup {H!NoDocument}]
  /\ \A h \in Document : H!Stored(h) =>
       /\ handovers'[h] # H!NoDocument
       /\ \/ handovers'[h] = handovers[h]
          \/ /\ handovers[h].status = "pending"
             /\ handovers'[h].version = handovers[h].version + 1

LEMMA DocumentFacts ==
  ASSUME DeclInv, NEW h \in Document, H!Stored(h)
  PROVE  /\ handovers[h] \in H!DocumentRow /\ handovers[h].version \in Nat
         /\ handovers[h].entity \in DeclarationId
<1>1. handovers[h] \in H!DocumentRow
  BY DEF DeclInv, TypeOK, H!HandoverTypeOK, H!Stored
<1> QED BY <1>1 DEF H!DocumentRow

LEMMA SameDocuments == ASSUME DeclInv, UNCHANGED handovers PROVE DocumentsMove
BY DEF DeclInv, TypeOK, H!HandoverTypeOK, DocumentsMove, H!Stored

LEMMA PartyFacts ==
  ASSUME DeclInv, NEW p \in Party, deciding[p].pc \in {"write", "done"}
  PROVE  /\ deciding[p] \in H!DecisionState /\ deciding[p].document \in Document
         /\ deciding[p].decision \in {"confirmed", "rejected"} /\ deciding[p].seen \in Nat
<1>1. deciding[p] \in H!DecisionState
  BY DEF DeclInv, TypeOK, H!HandoverTypeOK, H!Resting
<1> QED BY <1>1 DEF H!DecisionState

LEMMA DecisionKept ==
  ASSUME DeclInv, DocumentsMove, NEW p \in Party, deciding'[p] = deciding[p]
  PROVE  DecisionInv(p)'
<1>1. DecisionInv(p)
  BY DEF DeclInv
<1>2. CASE deciding[p].pc = "write" \/ (deciding[p].pc = "done" /\ deciding[p].won)
  <2> DEFINE h == deciding[p].document
  <2>1. /\ h \in Document /\ deciding[p].seen \in Nat /\ H!Stored(h)
        /\ deciding[p].decision \in {"confirmed", "rejected"}
    BY <1>1, <1>2, PartyFacts DEF DecisionInv
  <2>2. handovers[h].version \in Nat
    BY <2>1, DocumentFacts
  <2> QED BY <1>1, <1>2, <2>1, <2>2 DEF DecisionInv, DocumentsMove, H!Stored
<1>3. CASE ~(deciding[p].pc = "write" \/ (deciding[p].pc = "done" /\ deciding[p].won))
  BY <1>3 DEF DecisionInv
<1> QED BY <1>2, <1>3

LEMMA DecisionsKept ==
  ASSUME DeclInv, DocumentsMove, UNCHANGED deciding
  PROVE  \A p \in Party : DecisionInv(p)'
BY DecisionKept

LEMMA CreateHandoverMoves ==
  ASSUME DeclInv, NEW h \in Document, NEW d \in DeclarationId, H!CreateHandover(h, d)
  PROVE  DocumentsMove /\ UNCHANGED deciding
<1> DEFINE row == [entity |-> d, status |-> "pending", version |-> 1]
<1>1. /\ ~H!Stored(h) /\ handovers' = [handovers EXCEPT ![h] = row] /\ UNCHANGED deciding
  BY DEF H!CreateHandover
<1>2. row \in H!DocumentRow
  BY DEF H!DocumentRow
<1> HIDE DEF row
<1>3. handovers \in [Document -> H!DocumentRow \cup {H!NoDocument}]
  BY DEF DeclInv, TypeOK, H!HandoverTypeOK
<1> QED BY <1>1, <1>2, <1>3 DEF DocumentsMove, H!Stored

LEMMA OtherParties ==
  ASSUME DeclInv, DocumentsMove, NEW p \in Party, NEW s \in H!DecisionState \cup {H!Resting},
         deciding' = [deciding EXCEPT ![p] = s], DecisionInv(p)'
  PROVE  H!HandoverTypeOK' /\ \A q \in Party : DecisionInv(q)'
<1>1. deciding \in [Party -> H!DecisionState \cup {H!Resting}]
  BY DEF DeclInv, TypeOK, H!HandoverTypeOK
<1>2. H!HandoverTypeOK'
  BY <1>1 DEF H!HandoverTypeOK, DocumentsMove
<1>3. ASSUME NEW q \in Party PROVE DecisionInv(q)'
  <2>1. CASE q = p
    BY <2>1
  <2>2. CASE q # p
    BY <1>1, <2>2, DecisionKept
  <2> QED BY <2>1, <2>2
<1> QED BY <1>2, <1>3

Done(r, won) == [r EXCEPT !.pc = "done", !.won = won]

LEMMA DoneSet ==
  ASSUME NEW r \in H!DecisionState, NEW won \in BOOLEAN
  PROVE  LET s == Done(r, won) IN
         /\ s \in H!DecisionState /\ s.pc = "done" /\ s.won = won
         /\ s.document = r.document /\ s.decision = r.decision
<1> DEFINE m == [r EXCEPT !.pc = "done"]
           s == [m EXCEPT !.won = won]
<1>1. m \in H!DecisionState /\ m.pc = "done" /\ m.document = r.document /\ m.decision = r.decision
  BY DEF H!DecisionState
<1> HIDE DEF m
<1>2. s \in H!DecisionState /\ s.pc = m.pc /\ s.won = won /\ s.document = m.document
      /\ s.decision = m.decision
  BY <1>1 DEF H!DecisionState
<1> HIDE DEF s
<1>3. s = Done(r, won)
  BY DEF s, m, Done
<1> QED BY <1>1, <1>2, <1>3

LEMMA PartyUpdated ==
  ASSUME DeclInv, NEW p \in Party, NEW s, deciding' = [deciding EXCEPT ![p] = s]
  PROVE  deciding'[p] = s
BY DEF DeclInv, TypeOK, H!HandoverTypeOK

\* A decision leaves every party with what it knew.
LEMMA DecideInv ==
  ASSUME DeclInv, NEW p \in Party, H!Decide(p)
  PROVE  H!HandoverTypeOK' /\ \A q \in Party : DecisionInv(q)'
<1>1. ASSUME NEW h \in Document, NEW decision \in {"confirmed", "rejected"},
             H!DecideRead(p, h, decision)
      PROVE  H!HandoverTypeOK' /\ \A q \in Party : DecisionInv(q)'
  <2> DEFINE s == [pc |-> "write", document |-> h, decision |-> decision,
                   seen |-> handovers[h].version, won |-> FALSE]
  <2>1. /\ H!Stored(h) /\ handovers[h].status = "pending"
        /\ deciding' = [deciding EXCEPT ![p] = s] /\ UNCHANGED handovers
    BY <1>1 DEF H!DecideRead
  <2>2. handovers[h].version \in Nat
    BY <2>1, DocumentFacts
  <2>3. s \in H!DecisionState
    BY <2>2 DEF H!DecisionState
  <2>4. /\ s.pc = "write" /\ s.document = h /\ s.seen = handovers[h].version
    OBVIOUS
  <2> HIDE DEF s
  <2>5. deciding'[p] = s
    BY <2>1, PartyUpdated
  <2>6. DecisionInv(p)'
    BY <2>1, <2>2, <2>4, <2>5 DEF DecisionInv, H!Stored
  <2> QED BY <2>1, <2>3, <2>6, SameDocuments, OtherParties
<1>2. CASE H!DecideWrite(p)
  <2> DEFINE r == deciding[p]
             h == r.document
             match == H!DecisionMatches(handovers[h], r.seen)
             s == Done(r, match)
             row == [entity |-> handovers[h].entity, status |-> r.decision,
                     version |-> handovers[h].version + 1]
  <2>1. /\ r.pc = "write"
        /\ handovers' = IF match THEN [handovers EXCEPT ![h] = row] ELSE handovers
        /\ deciding' = [deciding EXCEPT ![p] = s]
    BY <1>2 DEF H!DecideWrite, Done
  <2>2. /\ r \in H!DecisionState /\ h \in Document /\ r.decision \in {"confirmed", "rejected"}
        /\ r.seen \in Nat
    BY <2>1, PartyFacts
  <2>3. /\ H!Stored(h)
        /\ match => handovers[h].status = "pending"
    BY <2>1 DEF DeclInv, DecisionInv, H!DecisionMatches
  <2>4. handovers[h].version \in Nat /\ handovers[h].entity \in DeclarationId
    BY <2>2, <2>3, DocumentFacts
  <2>5. match \in BOOLEAN
    BY DEF H!DecisionMatches
  <2>6. row \in H!DocumentRow /\ row.version = handovers[h].version + 1 /\ row.status = r.decision
    BY <2>2, <2>4 DEF H!DocumentRow
  <2>7. handovers \in [Document -> H!DocumentRow \cup {H!NoDocument}]
    BY DEF DeclInv, TypeOK, H!HandoverTypeOK
  <2>8. row # H!NoDocument
    BY <2>6 DEF H!DocumentRow, H!NoDocument
  <2>9. /\ s \in H!DecisionState /\ s.pc = "done" /\ s.won = match /\ s.document = h
        /\ s.decision = r.decision
    BY <2>2, <2>5, DoneSet
  <2>10. deciding'[p] = s
    BY <2>1, PartyUpdated
  <2> HIDE DEF s, row, match, r, h
  <2>11. DocumentsMove
    BY <2>1, <2>2, <2>3, <2>6, <2>7, <2>8 DEF DocumentsMove, H!Stored
  <2>12. match => handovers'[h] = row
    BY <2>1, <2>2, <2>7
  <2>13. DecisionInv(p)'
    BY <2>6, <2>8, <2>9, <2>10, <2>12 DEF DecisionInv, H!Stored
  <2> QED BY <2>1, <2>9, <2>11, <2>13, OtherParties
<1>3. CASE H!DecideReturn(p)
  <2>1. deciding' = [deciding EXCEPT ![p] = H!Resting] /\ UNCHANGED handovers
    BY <1>3 DEF H!DecideReturn
  <2>2. deciding'[p] = H!Resting
    BY <2>1, PartyUpdated
  <2>3. DecisionInv(p)'
    BY <2>2 DEF DecisionInv, H!Resting
  <2> QED BY <2>1, <2>3, SameDocuments, OtherParties
<1> QED BY <1>1, <1>2, <1>3 DEF H!Decide

-----------------------------------------------------------------------------
(* Submit. *)

ClientState == SubmitState \cup EditState \cup {Idle}

\* The part of the invariant that is about the tables.
TablesInv ==
  /\ quota' \in QuotaRow
  /\ records' \in [Key -> Record \cup {NoRecord}]
  /\ replies' \in [Key -> SUBSET Result]
  /\ AnswersTrue'

\* A step of a client has to establish what that client knows afterwards.
LEMMA ClientStepOf ==
  ASSUME DeclInv, RowsMove, KeysUnique', DocumentsMove, TablesInv, NEW c \in Client,
         NEW s \in ClientState, call' = [call EXCEPT ![c] = s], EditInv(c)', SubmitInv(c)',
         UNCHANGED <<deciding, tick>>
  PROVE  DeclInv'
<1>1. call \in [Client -> ClientState]
  BY DEF DeclInv, TypeOK, ClientState
<1>2. call' \in [Client -> ClientState]
  BY <1>1
<1>3. H!HandoverTypeOK'
  BY DEF DeclInv, TypeOK, H!HandoverTypeOK, DocumentsMove
<1>4. TypeOK'
  BY <1>2, <1>3 DEF DeclInv, TypeOK, RowsMove, TablesInv, ClientState
<1>5. \A d \in Client : EditInv(d)' /\ SubmitInv(d)'
  <2> TAKE d \in Client
  <2>1. CASE d = c
    BY <2>1
  <2>2. CASE d # c
    BY <1>1, <2>2, EditKept, SubmitKept
  <2> QED BY <2>1, <2>2
<1>6. TickInv' /\ \A p \in Party : DecisionInv(p)'
  BY TickKept, DecisionsKept
<1> QED BY <1>4, <1>5, <1>6 DEF DeclInv, TablesInv

LEMMA CallUpdated ==
  ASSUME DeclInv, NEW c \in Client, NEW s, call' = [call EXCEPT ![c] = s]
  PROVE  call'[c] = s
BY DEF DeclInv, TypeOK

LEMMA TablesKept ==
  ASSUME DeclInv, RowsMove, quota' \in QuotaRow, UNCHANGED <<records, replies>>
  PROVE  TablesInv
BY AnswersKept DEF DeclInv, TypeOK, TablesInv

\* A call that is over knows nothing more.
LEMMA AbandonInv ==
  ASSUME DeclInv, RowsMove, KeysUnique', DocumentsMove, quota' \in QuotaRow,
         NEW c \in Client, Abandon(c), UNCHANGED <<deciding, tick, records>>
  PROVE  DeclInv'
<1>1. call' = [call EXCEPT ![c] = Idle] /\ UNCHANGED replies
  BY DEF Abandon
<1>2. call'[c] = Idle
  BY <1>1, CallUpdated
<1>3. EditInv(c)' /\ SubmitInv(c)'
  BY <1>2 DEF EditInv, SubmitInv, Idle
<1>4. Idle \in ClientState
  BY DEF ClientState
<1> QED BY <1>1, <1>3, <1>4, TablesKept, ClientStepOf

\* A submission that goes on knows what it has to know at the next step.
LEMMA GoToInv ==
  ASSUME DeclInv, quota' \in QuotaRow, DocumentsMove, NEW c \in Client, call[c] \in SubmitState,
         NEW pc \in SubmitPc, GoTo(c, pc),
         pc \in {"lookup", "record"} => call[c].key # NoKey,
         pc \in {"lookup", "reserve", "reread"} => call[c].result.id = None,
         pc # "handover",
         pc = "record" => Names(call[c].result, call[c].key),
         UNCHANGED <<declarations, records, replies, deciding, tick>>
  PROVE  DeclInv'
<1> DEFINE s == WithPc(call[c], pc)
<1>1. call' = [call EXCEPT ![c] = s]
  BY DEF GoTo, WithPc
<1>2. /\ s \in SubmitState /\ s.pc = pc /\ s.key = call[c].key /\ s.result = call[c].result
  BY PcSet
<1> HIDE DEF s
<1>3. call'[c] = s
  BY <1>1, CallUpdated
<1>4. SubmitInv(c)'
  BY <1>2, <1>3 DEF SubmitInv, Names, Exists
<1>5. EditInv(c)'
  BY <1>2, <1>3 DEF EditInv, SubmitPc
<1>6. s \in ClientState
  BY <1>2 DEF ClientState
<1> QED BY <1>1, <1>4, <1>5, <1>6, Reads, TablesKept, ClientStepOf

\* An answer is recorded for its key.
LEMMA ReplyInv ==
  ASSUME DeclInv, quota' \in QuotaRow, DocumentsMove, NEW c \in Client, call[c] \in SubmitState,
         NEW result \in Result, Reply(c, result),
         call[c].key # NoKey => Names(result, call[c].key),
         records' \in [Key -> Record \cup {NoRecord}],
         \A k \in Key : records'[k] # NoRecord => Names(records'[k].result, k),
         UNCHANGED <<declarations, deciding, tick>>
  PROVE  DeclInv'
<1> DEFINE k == call[c].key
<1>1. /\ call' = [call EXCEPT ![c] = Idle]
      /\ replies' = IF k = NoKey THEN replies ELSE [replies EXCEPT ![k] = replies[k] \cup {result}]
  BY DEF Reply
<1>2. k \in Key \cup {NoKey} /\ replies \in [Key -> SUBSET Result]
  BY DEF DeclInv, TypeOK, SubmitState
<1>3. replies' \in [Key -> SUBSET Result]
  BY <1>1, <1>2
<1>4. \A j \in Key : \A r \in replies'[j] : Names(r, j)
  <2> TAKE j \in Key
  <2>1. \A r \in replies[j] : Names(r, j)
    BY DEF DeclInv, AnswersTrue
  <2>2. CASE k = NoKey
    BY <1>1, <2>1, <2>2
  <2>3. CASE k # NoKey /\ j = k
    BY <1>1, <1>2, <2>1, <2>3
  <2>4. CASE k # NoKey /\ j # k
    BY <1>1, <1>2, <2>1, <2>4
  <2> QED BY <2>2, <2>3, <2>4
<1>5. TablesInv
  BY <1>3, <1>4 DEF TablesInv, AnswersTrue, Names, Exists
<1>6. call'[c] = Idle
  BY <1>1, CallUpdated
<1>7. EditInv(c)' /\ SubmitInv(c)'
  BY <1>6 DEF EditInv, SubmitInv, Idle
<1>8. Idle \in ClientState
  BY DEF ClientState
<1> QED BY <1>1, <1>5, <1>7, <1>8, Reads, ClientStepOf

LEMMA SubmitFacts ==
  ASSUME DeclInv, NEW c \in Client, call[c].pc \in SubmitPc
  PROVE  /\ call[c] \in SubmitState /\ SubmitInv(c)
         /\ call[c].key \in Key \cup {NoKey} /\ call[c].volume \in Nat
         /\ call[c].volume \in Volume /\ call[c].priority \in Int
         /\ call[c].version \in Nat /\ call[c].result \in Result
         /\ call[c].result.id \in DeclarationId \cup {None}
<1>1. call[c] \in SubmitState /\ SubmitInv(c)
  BY CallFacts DEF DeclInv
<1>2. call[c].result \in Result /\ call[c].volume \in Volume
  BY <1>1 DEF SubmitState
<1>3. call[c].result.id \in DeclarationId \cup {None}
  BY <1>2 DEF Result
<1> QED BY <1>1, <1>2, <1>3, DeclarationAssumption DEF SubmitState

LEMMA RecordFacts ==
  ASSUME DeclInv, NEW k \in Key
  PROVE  /\ records \in [Key -> Record \cup {NoRecord}]
         /\ records[k] # NoRecord => records[k] \in Record /\ records[k].result \in Result
         /\ records[k] # NoRecord => Names(records[k].result, k)
BY DEF DeclInv, TypeOK, AnswersTrue, Record

LEMMA SubmitStartInv ==
  ASSUME DeclInv, NEW c \in Client, NEW key \in Key \cup {NoKey}, NEW volume \in Volume,
         NEW priority \in Priority, SubmitStart(c, key, volume, priority)
  PROVE  DeclInv'
<1> DEFINE s == [pc |-> IF key = NoKey THEN "reserve" ELSE "lookup", key |-> key,
                 volume |-> volume, priority |-> priority, version |-> 0,
                 result |-> [id |-> None, status |-> "rejected"]]
<1>1. /\ call' = [call EXCEPT ![c] = s]
      /\ UNCHANGED <<declarations, quota, records, handovers, deciding, tick, replies>>
  BY DEF SubmitStart, tables, others
<1>2. s \in SubmitState
  BY DeclarationAssumption DEF SubmitState, Result
<1>3. /\ s.pc = (IF key = NoKey THEN "reserve" ELSE "lookup") /\ s.key = key /\ s.result.id = None
  OBVIOUS
<1> HIDE DEF s
<1>4. call'[c] = s
  BY <1>1, CallUpdated
<1>5. EditInv(c)' /\ SubmitInv(c)'
  BY <1>3, <1>4 DEF EditInv, SubmitInv
<1>6. s \in ClientState
  BY <1>2 DEF ClientState
<1>7. quota' \in QuotaRow
  BY <1>1 DEF DeclInv, TypeOK
<1> QED BY <1>1, <1>5, <1>6, <1>7, Reads, SameDocuments, TablesKept, ClientStepOf

LEMMA LookupInv == ASSUME DeclInv, NEW c \in Client, Lookup(c) PROVE DeclInv'
<1> DEFINE record == records[call[c].key]
<1>1. /\ call[c].pc = "lookup"
      /\ UNCHANGED <<declarations, quota, records, handovers, deciding, tick>>
      /\ IF record = NoRecord \/ record.expired
         THEN GoTo(c, "reserve") /\ UNCHANGED replies
         ELSE Reply(c, record.result)
  BY DEF Lookup, tables, others
<1>2. /\ call[c] \in SubmitState /\ call[c].key \in Key /\ call[c].result.id = None
  BY <1>1, SubmitFacts DEF SubmitPc, SubmitInv
<1>3. quota' \in QuotaRow /\ DocumentsMove
  BY <1>1, SameDocuments DEF DeclInv, TypeOK
<1>4. CASE record = NoRecord \/ record.expired
  <2>1. "reserve" \in SubmitPc
    BY DEF SubmitPc
  <2> QED BY <1>1, <1>2, <1>3, <1>4, <2>1, GoToInv
<1>5. CASE ~(record = NoRecord \/ record.expired)
  <2>1. record.result \in Result /\ Names(record.result, call[c].key)
    BY <1>2, <1>5, RecordFacts
  <2>2. /\ records' \in [Key -> Record \cup {NoRecord}]
        /\ \A k \in Key : records'[k] # NoRecord => Names(records'[k].result, k)
    BY <1>1, <1>2, RecordFacts
  <2> HIDE DEF record
  <2>3. Reply(c, record.result)
    BY <1>1, <1>5
  <2> QED BY <1>1, <1>2, <1>3, <2>1, <2>2, <2>3, ReplyInv
<1> QED BY <1>4, <1>5

LEMMA QuotaTypes ==
  ASSUME DeclInv
  PROVE  /\ quota \in QuotaRow /\ quota.used \in Int /\ quota.reserved \in Nat /\ quota.version \in Nat
         /\ QuotaOfTheDay \in QuotaRow
<1>1. quota \in QuotaRow
  BY DEF DeclInv, TypeOK
<1>2. NewQuota \in QuotaRow
  BY DEF NewQuota, QuotaRow
<1> QED BY <1>1, <1>2 DEF QuotaRow, QuotaOfTheDay

LEMMA ReservedTypes ==
  ASSUME NEW row \in QuotaRow, NEW n \in Int
  PROVE  /\ n >= 0 => ReserveQuota(row, n) \in QuotaRow
         /\ row.reserved >= n => ReleaseQuota(row, n) \in QuotaRow /\ CommitQuota(row, n) \in QuotaRow
<1>1. row.used \in Int /\ row.reserved \in Nat /\ row.version \in Nat
  BY DEF QuotaRow
<1>2. row.version + 1 \in Nat /\ row.used + n \in Int
  BY <1>1
<1>3. n >= 0 => row.reserved + n \in Nat
  BY <1>1
<1>4. row.reserved >= n => row.reserved - n \in Nat
  BY <1>1
<1> QED BY <1>1, <1>2, <1>3, <1>4 DEF QuotaRow, ReserveQuota, ReleaseQuota, CommitQuota

\* The records as they are satisfy what a reply asks of them.
LEMMA RecordsStay ==
  ASSUME DeclInv, UNCHANGED records
  PROVE  /\ records' \in [Key -> Record \cup {NoRecord}]
         /\ \A k \in Key : records'[k] # NoRecord => Names(records'[k].result, k)
BY DEF DeclInv, TypeOK, AnswersTrue

LEMMA ReserveInv == ASSUME DeclInv, NEW c \in Client, Reserve(c) PROVE DeclInv'
<1>1. /\ call[c].pc = "reserve"
      /\ UNCHANGED <<declarations, records, handovers, deciding, tick>>
  BY DEF Reserve, others
<1>2. /\ call[c] \in SubmitState /\ call[c].result \in Result /\ call[c].result.id = None
      /\ call[c].volume \in Nat
  BY <1>1, SubmitFacts DEF SubmitPc, SubmitInv
<1>3. DocumentsMove
  BY <1>1, SameDocuments
<1> DEFINE n == call[c].volume
<1>4. CASE quota' = ReserveQuota(QuotaOfTheDay, n) /\ GoTo(c, "reread") /\ UNCHANGED replies
  <2>1. quota' \in QuotaRow
    BY <1>2, <1>4, QuotaTypes, ReservedTypes
  <2>2. "reread" \in SubmitPc
    BY DEF SubmitPc
  <2> QED BY <1>1, <1>2, <1>3, <1>4, <2>1, <2>2, GoToInv
<1>5. CASE /\ quota' = QuotaOfTheDay
           /\ IF call[c].key = NoKey THEN Reply(c, call[c].result)
                                     ELSE GoTo(c, "record") /\ UNCHANGED replies
  <2>1. quota' \in QuotaRow
    BY <1>5, QuotaTypes
  <2>2. CASE call[c].key = NoKey
    <3>1. Reply(c, call[c].result)
      BY <1>5, <2>2
    <3> QED BY <1>1, <1>2, <1>3, <2>1, <2>2, <3>1, RecordsStay, ReplyInv
  <2>3. CASE call[c].key # NoKey
    <3>1. GoTo(c, "record") /\ UNCHANGED replies
      BY <1>5, <2>3
    <3>2. "record" \in SubmitPc /\ Names(call[c].result, call[c].key)
      BY <1>2 DEF SubmitPc, Names
    <3> QED BY <1>1, <1>2, <1>3, <2>1, <2>3, <3>1, <3>2, GoToInv
  <2> QED BY <2>2, <2>3
<1> QED BY <1>4, <1>5 DEF Reserve

LEMMA RereadInv == ASSUME DeclInv, NEW c \in Client, Reread(c) PROVE DeclInv'
<1> DEFINE result == [id |-> None, status |-> IF Crowded THEN "queued" ELSE "accepted"]
           s == WithResult(call[c], quota.version, result)
<1>1. /\ call[c].pc = "reread" /\ call' = [call EXCEPT ![c] = s]
      /\ UNCHANGED <<declarations, quota, records, handovers, deciding, tick, replies>>
  BY DEF Reread, WithResult, tables, others
<1>2. call[c] \in SubmitState /\ quota \in QuotaRow /\ quota.version \in Nat
  BY <1>1, SubmitFacts, QuotaTypes DEF SubmitPc
<1>3. result \in Result /\ result.id = None
  BY DEF Result
<1> HIDE DEF result
<1>4. s \in SubmitState /\ s.pc = "insert"
  BY <1>2, <1>3, ResultSet
<1> HIDE DEF s
<1>5. call'[c] = s
  BY <1>1, CallUpdated
<1>6. EditInv(c)' /\ SubmitInv(c)' /\ s \in ClientState
  BY <1>4, <1>5 DEF EditInv, SubmitInv, ClientState
<1> QED BY <1>1, <1>2, <1>6, Reads, SameDocuments, TablesKept, ClientStepOf

\* A row of a new id moves no other, and its key is nobody's.
LEMMA OneRowMore ==
  ASSUME DeclInv, NEW d \in DeclarationId, ~Exists(d), NEW row \in DeclarationRow,
         ~KeyTaken(row.key), declarations' = [declarations EXCEPT ![d] = row]
  PROVE  RowsMove /\ KeysUnique' /\ declarations'[d] = row /\ row # NoDeclaration
<1>1. declarations \in [DeclarationId -> DeclarationRow \cup {NoDeclaration}]
  BY DEF DeclInv, TypeOK
<1>2. row # NoDeclaration
  BY DEF DeclarationRow, DeclarationStatus, NoDeclaration
<1>3. RowsMove /\ declarations'[d] = row
  BY <1>1, <1>2 DEF RowsMove, Exists
<1>4. \A e \in DeclarationId : e # d => declarations'[e] = declarations[e]
  BY <1>1
<1>5. \A e \in DeclarationId : Exists(e) /\ declarations[e].key = row.key => row.key = NoKey
  BY DEF KeyTaken, Existing
<1>6. KeysUnique'
  BY <1>3, <1>4, <1>5 DEF DeclInv, KeysUnique, Exists
<1> QED BY <1>2, <1>3, <1>6

LEMMA InsertInv == ASSUME DeclInv, NEW c \in Client, Insert(c) PROVE DeclInv'
<1>1. /\ call[c].pc = "insert"
      /\ UNCHANGED <<quota, records, handovers, deciding, tick, replies>>
  BY DEF Insert, others
<1>2. /\ call[c] \in SubmitState /\ call[c].result \in Result /\ call[c].key \in Key \cup {NoKey}
      /\ call[c].volume \in Volume /\ call[c].priority \in Int
  BY <1>1, SubmitFacts DEF SubmitPc
<1>3. quota' \in QuotaRow /\ DocumentsMove
  BY <1>1, QuotaTypes, SameDocuments
<1>4. CASE GoTo(c, "giveback") /\ UNCHANGED declarations
  <2>1. "giveback" \in SubmitPc
    BY DEF SubmitPc
  <2> QED BY <1>1, <1>2, <1>3, <1>4, <2>1, GoToInv
<1>5. ASSUME NEW d \in DeclarationId, ~Exists(d), ~KeyTaken(call[c].key),
             declarations' = [declarations EXCEPT ![d] = NewDeclaration(call[c])],
             call' = [call EXCEPT ![c] = WithId(call[c], d)]
      PROVE  DeclInv'
  <2> DEFINE row == NewDeclaration(call[c])
             s == WithId(call[c], d)
  <2>1. call[c].result.status \in DeclarationStatus
    BY <1>2 DEF Result, DeclarationStatus
  <2>2. row \in DeclarationRow /\ row.key = call[c].key
    BY <1>2, <2>1 DEF DeclarationRow, NewDeclaration
  <2>3. s \in SubmitState /\ s.pc = "handover" /\ s.result.id = d /\ s.key = call[c].key
    BY <1>2, IdSet
  <2>4. d # None
    BY DeclarationAssumption
  <2>5. call'[c] = s
    BY <1>5, CallUpdated
  <2> HIDE DEF row, s
  <2>6. RowsMove /\ KeysUnique' /\ declarations'[d] = row /\ row # NoDeclaration
    BY <1>5, <2>2, OneRowMore DEF row
  <2>7. EditInv(c)' /\ SubmitInv(c)' /\ s \in ClientState
    BY <2>2, <2>3, <2>4, <2>5, <2>6 DEF EditInv, SubmitInv, ClientState, Names, Exists
  <2> QED BY <1>1, <1>3, <1>5, <2>6, <2>7, TablesKept, ClientStepOf DEF s
<1> QED BY <1>4, <1>5 DEF Insert, WithId

LEMMA GiveBackInv == ASSUME DeclInv, NEW c \in Client, GiveBack(c) PROVE DeclInv'
<1>1. /\ call[c].pc = "giveback" /\ Abandon(c)
      /\ UNCHANGED <<declarations, records, handovers, deciding, tick>>
      /\ quota' = IF ReleaseMatches(quota, call[c].volume, call[c].version + 1)
                  THEN ReleaseQuota(quota, call[c].volume) ELSE quota
  BY DEF GiveBack, others
<1>2. call[c].volume \in Nat
  BY <1>1, SubmitFacts DEF SubmitPc
<1>3. quota' \in QuotaRow
  BY <1>1, <1>2, QuotaTypes, ReservedTypes DEF ReleaseMatches
<1> QED BY <1>1, <1>3, Reads, SameDocuments, AbandonInv

LEMMA SubmitHandoverInv == ASSUME DeclInv, NEW c \in Client, SubmitHandover(c) PROVE DeclInv'
<1>1. /\ call[c].pc = "handover" /\ Recorded(c)
      /\ UNCHANGED <<declarations, quota, records, tick>>
  BY DEF SubmitHandover
<1>2. /\ call[c] \in SubmitState /\ call[c].result \in Result
      /\ call[c].result.id \in DeclarationId /\ Names(call[c].result, call[c].key)
  BY <1>1, SubmitFacts DEF SubmitPc, SubmitInv
<1>3. DocumentsMove /\ UNCHANGED deciding
  BY <1>2, CreateHandoverMoves, SameDocuments DEF SubmitHandover
<1>4. quota' \in QuotaRow
  BY <1>1, QuotaTypes
<1>5. CASE call[c].key = NoKey
  <2>1. Reply(c, call[c].result)
    BY <1>1, <1>5 DEF Recorded
  <2> QED BY <1>1, <1>2, <1>3, <1>4, <2>1, RecordsStay, ReplyInv
<1>6. CASE call[c].key # NoKey
  <2>1. GoTo(c, "record") /\ UNCHANGED replies /\ "record" \in SubmitPc
    BY <1>1, <1>6 DEF Recorded, SubmitPc
  <2> QED BY <1>1, <1>2, <1>3, <1>4, <1>6, <2>1, GoToInv
<1> QED BY <1>5, <1>6

LEMMA InsertIdempotencyInv == ASSUME DeclInv, NEW c \in Client, InsertIdempotency(c) PROVE DeclInv'
<1> DEFINE k == call[c].key
           record == [result |-> call[c].result, expired |-> FALSE]
<1>1. /\ call[c].pc = "record" /\ Reply(c, call[c].result)
      /\ records' = IF records[k] = NoRecord THEN [records EXCEPT ![k] = record] ELSE records
      /\ UNCHANGED <<declarations, quota, handovers, deciding, tick>>
  BY DEF InsertIdempotency, others
<1>2. /\ call[c] \in SubmitState /\ call[c].result \in Result /\ k \in Key
      /\ Names(call[c].result, k)
  BY <1>1, SubmitFacts DEF SubmitPc, SubmitInv
<1>3. record \in Record /\ record.result = call[c].result
  BY <1>2 DEF Record
<1> HIDE DEF k, record
<1>4. records \in [Key -> Record \cup {NoRecord}]
  BY DEF DeclInv, TypeOK
<1>5. /\ records' \in [Key -> Record \cup {NoRecord}]
      /\ \A j \in Key : records'[j] # NoRecord => Names(records'[j].result, j)
  <2>1. \A j \in Key : records[j] # NoRecord => Names(records[j].result, j)
    BY DEF DeclInv, AnswersTrue
  <2>2. CASE records[k] = NoRecord
    <3>1. records' = [records EXCEPT ![k] = record]
      BY <1>1, <2>2
    <3>2. records'[k] = record /\ \A j \in Key : j # k => records'[j] = records[j]
      BY <1>2, <1>4, <3>1
    <3> QED BY <1>2, <1>3, <1>4, <2>1, <3>1, <3>2
  <2>3. CASE records[k] # NoRecord
    BY <1>1, <1>4, <2>1, <2>3
  <2> QED BY <2>2, <2>3
<1>6. quota' \in QuotaRow /\ DocumentsMove
  BY <1>1, QuotaTypes, SameDocuments
<1> QED BY <1>1, <1>2, <1>5, <1>6, ReplyInv DEF k

LEMMA SubmitFailsInv == ASSUME DeclInv, NEW c \in Client, SubmitFails(c) PROVE DeclInv'
<1>1. CASE /\ call[c].pc \in {"lookup", "reread", "giveback"} /\ Abandon(c)
           /\ UNCHANGED <<tables, others>>
  BY <1>1, Reads, SameDocuments, QuotaTypes, AbandonInv DEF tables, others
<1>2. CASE /\ call[c].pc = "reserve" /\ quota' \in {quota, QuotaOfTheDay} /\ Abandon(c)
           /\ UNCHANGED <<declarations, records, handovers, others>>
  BY <1>2, Reads, SameDocuments, QuotaTypes, AbandonInv DEF others
<1>3. CASE call[c].pc = "insert" /\ GoTo(c, "giveback") /\ UNCHANGED <<tables, others, replies>>
  <2>1. "giveback" \in SubmitPc /\ call[c] \in SubmitState
    BY <1>3, SubmitFacts DEF SubmitPc
  <2> QED BY <1>3, <2>1, SameDocuments, QuotaTypes, GoToInv DEF tables, others
<1>4. CASE call[c].pc = "record" /\ Reply(c, call[c].result) /\ UNCHANGED <<tables, others>>
  <2>1. call[c] \in SubmitState /\ call[c].result \in Result /\ Names(call[c].result, call[c].key)
    BY <1>4, SubmitFacts DEF SubmitPc, SubmitInv
  <2> QED BY <1>4, <2>1, SameDocuments, QuotaTypes, RecordsStay, ReplyInv DEF tables, others
<1> QED BY <1>1, <1>2, <1>3, <1>4 DEF SubmitFails

LEMMA SubmitStepInv == ASSUME DeclInv, NEW c \in Client, Submit(c) PROVE DeclInv'
BY SubmitStartInv, LookupInv, ReserveInv, RereadInv, InsertInv, GiveBackInv, SubmitHandoverInv,
   InsertIdempotencyInv, SubmitFailsInv DEF Submit

-----------------------------------------------------------------------------
(* Cancel, UpdatePriority and what ends a call. *)

LEMMA EditReadInv ==
  ASSUME DeclInv, NEW c \in Client, NEW d \in DeclarationId, NEW pc \in {"cancel", "prioritise"},
         NEW priority \in Int, EditRead(c, d, pc, priority),
         pc = "cancel" => CanTransition(DeclarationStateMachine, declarations[d].status, "cancelled")
  PROVE  DeclInv'
<1> DEFINE s == [pc |-> pc, id |-> d, priority |-> priority, version |-> declarations[d].version]
<1>1. /\ Exists(d) /\ call' = [call EXCEPT ![c] = s]
      /\ UNCHANGED <<declarations, quota, records, handovers, deciding, tick, replies>>
  BY DEF EditRead, tables, others
<1>2. declarations[d].version \in Nat
  BY <1>1, RowFacts
<1>3. s \in EditState
  BY <1>2 DEF EditState
<1>4. s.pc = pc /\ s.id = d /\ s.version = declarations[d].version
  OBVIOUS
<1> HIDE DEF s
<1>5. call'[c] = s
  BY <1>1, CallUpdated
<1>6. EditInv(c)'
  BY <1>1, <1>2, <1>4, <1>5 DEF EditInv, Exists
<1>7. SubmitInv(c)'
  BY <1>4, <1>5 DEF SubmitInv
<1>8. s \in ClientState /\ quota' \in QuotaRow
  BY <1>1, <1>3, QuotaTypes DEF ClientState
<1> QED BY <1>1, <1>6, <1>7, <1>8, Reads, SameDocuments, TablesKept, ClientStepOf

LEMMA EditFacts ==
  ASSUME DeclInv, NEW c \in Client, call[c].pc \in {"cancel", "prioritise"}
  PROVE  /\ call[c].id \in DeclarationId /\ call[c].priority \in Int /\ Exists(call[c].id)
         /\ call[c].pc = "cancel" /\ Matches(call[c].id, call[c].version) =>
              CanTransition(DeclarationStateMachine, declarations[call[c].id].status, "cancelled")
BY CallFacts DEF EditState, DeclInv, EditInv

LEMMA EditStepInv == ASSUME DeclInv, NEW c \in Client, Edit(c) PROVE DeclInv'
<1>1. ASSUME NEW d \in DeclarationId, CancelRead(c, d) PROVE DeclInv'
  <2>1. declarations[d].priority \in Int
    BY <1>1, RowFacts DEF CancelRead
  <2> QED BY <1>1, <2>1, EditReadInv DEF CancelRead
<1>2. ASSUME NEW d \in DeclarationId, NEW p \in Priority, PriorityRead(c, d, p) PROVE DeclInv'
  <2>1. p \in Int
    BY DeclarationAssumption
  <2> QED BY <1>2, <2>1, EditReadInv DEF PriorityRead
<1>3. CASE CancelWrite(c)
  <2>1. call[c].id \in DeclarationId /\ Exists(call[c].id) /\ "cancelled" \in DeclarationStatus
    BY <1>3, EditFacts DEF CancelWrite, DeclarationStatus
  <2>2. RowsMove /\ KeysUnique'
    BY <1>3, <2>1, StatusUpdated DEF CancelWrite
  <2> QED BY <1>3, <2>2, SameDocuments, QuotaTypes, AbandonInv DEF CancelWrite, others
<1>4. CASE PriorityWrite(c)
  <2>1. call[c].id \in DeclarationId /\ Exists(call[c].id) /\ call[c].priority \in Int
    BY <1>4, EditFacts DEF PriorityWrite
  <2>2. RowsMove /\ KeysUnique'
    BY <1>4, <2>1, PriorityUpdated DEF PriorityWrite
  <2> QED BY <1>4, <2>2, SameDocuments, QuotaTypes, AbandonInv DEF PriorityWrite, others
<1> QED BY <1>1, <1>2, <1>3, <1>4 DEF Edit

LEMMA DropInv == ASSUME DeclInv, NEW c \in Client, Drop(c) PROVE DeclInv'
BY Reads, SameDocuments, QuotaTypes, AbandonInv DEF Drop, tables, others

-----------------------------------------------------------------------------
(* The tick, the quota API, expiry and the documents. *)

\* A step of somebody else: what the clients know stays.
LEMMA OtherStepOf ==
  ASSUME DeclInv, RowsMove, KeysUnique', TablesInv, UNCHANGED call,
         tick' \in TickState \cup {Idle}, TickInv',
         H!HandoverTypeOK', \A p \in Party : DecisionInv(p)'
  PROVE  DeclInv'
<1>1. TypeOK'
  BY DEF DeclInv, TypeOK, RowsMove, TablesInv
<1> QED BY <1>1, CallsKept DEF DeclInv, TablesInv

LEMMA DocumentsKept ==
  ASSUME DeclInv, UNCHANGED <<handovers, deciding>>
  PROVE  H!HandoverTypeOK' /\ \A p \in Party : DecisionInv(p)'
<1>1. H!HandoverTypeOK'
  BY DEF DeclInv, TypeOK, H!HandoverTypeOK
<1> QED BY <1>1, SameDocuments, DecisionsKept

LEMMA TickTypes == DeclInv => tick \in TickState \cup {Idle}
BY DEF DeclInv, TypeOK

LEMMA AdvanceListInv == ASSUME DeclInv, AdvanceList PROVE DeclInv'
<1>1. PICK d \in DeclarationId :
        /\ QueueHead(d)
        /\ tick' = [pc |-> "advance", top |-> d, version |-> declarations[d].version,
                    seen |-> {<<e, declarations[e].version>> : e \in Queued}]
  BY DEF AdvanceList
<1>2. UNCHANGED <<declarations, quota, records, handovers, deciding, call, replies>>
  BY DEF AdvanceList, tables
<1>3. \A e \in Queued : e \in DeclarationId /\ Exists(e) /\ declarations[e].version \in Nat
  BY RowFacts DEF Queued, Existing
<1>4. /\ d \in Queued /\ declarations[d].version \in Nat
      /\ \A e \in Queued : declarations[d].priority <= declarations[e].priority
  BY <1>1, <1>3 DEF QueueHead
<1>5. tick' \in TickState
  BY <1>1, <1>3, <1>4 DEF TickState
<1>6. tick'.pc = "advance" /\ tick'.top = d /\ tick'.version = declarations[d].version
  BY <1>1
<1>7. ASSUME NEW s \in tick'.seen PROVE SeenInv(s[1], s[2])'
  <2>1. PICK e \in Queued : s = <<e, declarations[e].version>>
    BY <1>1
  <2>2. s[1] = e /\ s[2] = declarations[e].version
    BY <2>1
  <2> QED BY <1>2, <1>3, <1>4, <1>6, <2>2 DEF SeenInv, Exists
<1>8. TickInv'
  BY <1>2, <1>3, <1>4, <1>6, <1>7 DEF TickInv, Exists, Queued
<1> QED BY <1>2, <1>5, <1>8, Reads, QuotaTypes, TablesKept, DocumentsKept, OtherStepOf

LEMMA TickDone == ASSUME tick' = Idle PROVE tick' \in TickState \cup {Idle} /\ TickInv'
BY DEF TickInv, Idle

LEMMA AdvanceWriteInv == ASSUME DeclInv, AdvanceWrite PROVE DeclInv'
<1>1. /\ tick.pc = "advance" /\ tick' = Idle
      /\ UpdateDeclarationStatus(tick.top, "scheduled", tick.version)
      /\ UNCHANGED <<quota, records, handovers, deciding, call, replies>>
  BY DEF AdvanceWrite
<1>2. tick.top \in DeclarationId /\ Exists(tick.top) /\ "scheduled" \in DeclarationStatus
  BY <1>1, TickFacts DEF DeclarationStatus
<1>3. RowsMove /\ KeysUnique'
  BY <1>1, <1>2, StatusUpdated
<1> QED BY <1>1, <1>3, QuotaTypes, TablesKept, DocumentsKept, TickDone, OtherStepOf

LEMMA AdvanceFailsInv == ASSUME DeclInv, AdvanceFails PROVE DeclInv'
<1>1. tick' = Idle /\ UNCHANGED <<declarations, quota, records, handovers, deciding, call, replies>>
  BY DEF AdvanceFails, tables
<1> QED BY <1>1, Reads, QuotaTypes, TablesKept, DocumentsKept, TickDone, OtherStepOf

\* A request to the quota API moves the row of the day and nothing else.
LEMMA QuotaMovesInv ==
  ASSUME DeclInv, quota' \in QuotaRow,
         UNCHANGED <<declarations, records, handovers, deciding, tick, call, replies>>
  PROVE  DeclInv'
<1>1. tick' \in TickState \cup {Idle} /\ RowsMove /\ KeysUnique'
  BY TickTypes, Reads
<1> QED BY <1>1, TablesKept, DocumentsKept, TickKept, OtherStepOf

LEMMA ApiInv ==
  ASSUME DeclInv, NEW n \in Amount, ApiReserve(n) \/ ApiCommit(n) \/ ApiRelease(n)
  PROVE  DeclInv'
<1>1. UNCHANGED <<declarations, records, handovers, deciding, tick, call, replies>>
  BY DEF ApiReserve, ApiCommit, ApiRelease, others
<1>2. n \in Int
  BY DeclarationAssumption
<1>3. CASE ApiReserve(n)
  <2>1. n >= 0 /\ quota' \in {ReserveQuota(QuotaOfTheDay, n), QuotaOfTheDay}
    BY <1>2, <1>3 DEF ApiReserve
  <2>2. quota' \in QuotaRow
    BY <1>2, <2>1, QuotaTypes, ReservedTypes
  <2> QED BY <1>1, <2>2, QuotaMovesInv
<1>4. CASE ApiCommit(n) \/ ApiRelease(n)
  <2>1. quota.reserved >= n /\ quota' \in {CommitQuota(quota, n), ReleaseQuota(quota, n)}
    BY <1>4 DEF ApiCommit, ApiRelease, CommitMatches, ReleaseMatches
  <2>2. quota' \in QuotaRow
    BY <1>2, <2>1, QuotaTypes, ReservedTypes
  <2> QED BY <1>1, <2>2, QuotaMovesInv
<1> QED BY <1>3, <1>4

LEMMA ExpireInv == ASSUME DeclInv, NEW k \in Key, Expire(k) PROVE DeclInv'
<1> DEFINE record == [result |-> records[k].result, expired |-> TRUE]
<1>1. /\ records[k] # NoRecord /\ records' = [records EXCEPT ![k] = record]
      /\ UNCHANGED <<declarations, quota, handovers, deciding, tick, call, replies>>
  BY DEF Expire
<1>2. records[k].result \in Result /\ Names(records[k].result, k)
  BY <1>1, RecordFacts
<1>3. record \in Record /\ record.result = records[k].result
  BY <1>2 DEF Record
<1> HIDE DEF record
<1>4. records \in [Key -> Record \cup {NoRecord}]
  BY DEF DeclInv, TypeOK
<1>5. records' \in [Key -> Record \cup {NoRecord}]
  BY <1>1, <1>3, <1>4
<1>6. AnswersTrue'
  <2>1. \A j \in Key : /\ \A r \in replies[j] : Names(r, j)
                       /\ records[j] # NoRecord => Names(records[j].result, j)
    BY DEF DeclInv, AnswersTrue
  <2>2. records'[k] = record /\ \A j \in Key : j # k => records'[j] = records[j]
    BY <1>1, <1>4
  <2> QED BY <1>1, <1>2, <1>3, <2>1, <2>2 DEF AnswersTrue, Names, Exists
<1>7. TablesInv
  BY <1>1, <1>5, <1>6, QuotaTypes DEF TablesInv, DeclInv, TypeOK
<1>8. tick' \in TickState \cup {Idle} /\ RowsMove /\ KeysUnique'
  BY <1>1, TickTypes, Reads
<1> QED BY <1>1, <1>7, <1>8, DocumentsKept, TickKept, OtherStepOf

LEMMA PostHandoverInv == ASSUME DeclInv, PostHandover PROVE DeclInv'
<1>1. PICK h \in Document, d \in Existing : H!CreateHandover(h, d)
  BY DEF PostHandover
<1>2. UNCHANGED <<declarations, quota, records, tick, call, replies>>
  BY DEF PostHandover
<1>3. DocumentsMove /\ UNCHANGED deciding
  BY <1>1, CreateHandoverMoves DEF Existing
<1>4. H!HandoverTypeOK'
  BY <1>3 DEF DeclInv, TypeOK, H!HandoverTypeOK, DocumentsMove
<1>5. tick' \in TickState \cup {Idle} /\ RowsMove /\ KeysUnique'
  BY <1>2, TickTypes, Reads
<1> QED BY <1>2, <1>3, <1>4, <1>5, QuotaTypes, TablesKept, DecisionsKept, TickKept, OtherStepOf

LEMMA DecideHandoverInv == ASSUME DeclInv, NEW p \in Party, DecideHandover(p) PROVE DeclInv'
<1>1. H!Decide(p) /\ UNCHANGED <<declarations, quota, records, tick, call, replies>>
  BY DEF DecideHandover
<1>2. tick' \in TickState \cup {Idle} /\ RowsMove /\ KeysUnique'
  BY <1>1, TickTypes, Reads
<1> QED BY <1>1, <1>2, QuotaTypes, TablesKept, DecideInv, TickKept, OtherStepOf

LEMMA DeclStep == DeclInv /\ [Next]_vars => DeclInv'
<1> SUFFICES ASSUME DeclInv, [Next]_vars PROVE DeclInv'
  OBVIOUS
<1>1. ASSUME NEW c \in Client, Submit(c) \/ Edit(c) \/ Drop(c) PROVE DeclInv'
  BY <1>1, SubmitStepInv, EditStepInv, DropInv
<1>2. CASE AdvanceList \/ AdvanceWrite \/ AdvanceFails
  BY <1>2, AdvanceListInv, AdvanceWriteInv, AdvanceFailsInv
<1>3. ASSUME NEW n \in Amount, ApiReserve(n) \/ ApiCommit(n) \/ ApiRelease(n) PROVE DeclInv'
  BY <1>3, ApiInv
<1>4. ASSUME NEW k \in Key, Expire(k) PROVE DeclInv'
  BY <1>4, ExpireInv
<1>5. CASE PostHandover
  BY <1>5, PostHandoverInv
<1>6. ASSUME NEW p \in Party, DecideHandover(p) PROVE DeclInv'
  BY <1>6, DecideHandoverInv
<1>7. CASE UNCHANGED vars
  <2>1. UNCHANGED <<declarations, quota, records, handovers, deciding, call, tick, replies>>
    BY <1>7 DEF vars
  <2>2. tick' \in TickState \cup {Idle} /\ RowsMove /\ KeysUnique'
    BY <2>1, TickTypes, Reads
  <2> QED BY <2>1, <2>2, QuotaTypes, TablesKept, DocumentsKept, TickKept, OtherStepOf
<1> QED BY <1>1, <1>2, <1>3, <1>4, <1>5, <1>6, <1>7 DEF Next

-----------------------------------------------------------------------------
(* The theorems. *)

\* No step of a client, the tick, the quota API, an expiry or a decision
\* leaves the inductive invariant.
THEOREM DeclInvariant == Spec => []DeclInv
<1> QED BY InitDecl, DeclStep, PTL DEF Spec

\* Every row of the four tables, and what every handler, the tick and every
\* party remember, keeps its type: no submission, edit or promotion stores a
\* status that is not a declaration's.
THEOREM DeclTypeCorrect == Spec => []TypeOK
<1>1. DeclInv => TypeOK
  BY DEF DeclInv
<1> QED BY <1>1, DeclInvariant, PTL

LEMMA AnswersAgree == DeclInv => AnswersNameOneDeclaration
<1> SUFFICES ASSUME DeclInv, NEW k \in Key,
                    NEW r, NEW s,
                    r \in replies[k] \/ (records[k] # NoRecord /\ r = records[k].result),
                    s \in replies[k] \/ (records[k] # NoRecord /\ s = records[k].result),
                    r.id # None, s.id # None
             PROVE  r.id = s.id /\ Exists(r.id) /\ declarations[r.id].key = k
  BY DEF AnswersNameOneDeclaration
<1>1. /\ \A x \in replies[k] : x \in Result /\ Names(x, k)
      /\ records[k] # NoRecord => records[k].result \in Result /\ Names(records[k].result, k)
  BY DEF DeclInv, TypeOK, AnswersTrue, Record
<1>2. r \in Result /\ Names(r, k) /\ s \in Result /\ Names(s, k)
  BY <1>1
<1>3. /\ r.id \in DeclarationId /\ Exists(r.id) /\ declarations[r.id].key = k
      /\ s.id \in DeclarationId /\ Exists(s.id) /\ declarations[s.id].key = k
  BY <1>2 DEF Result, Names
<1>4. k # NoKey
  BY DeclarationAssumption
<1> QED BY <1>3, <1>4 DEF DeclInv, KeysUnique

\* Submit answers one idempotency key with one declaration, whatever races,
\* expires, fails or is retried: the unique index, and an answer that is
\* given only when the row it names is stored.
THEOREM OneAnswer == Spec => []AnswersNameOneDeclaration
<1> QED BY AnswersAgree, DeclInvariant, PTL

\* The decision a party was told to have made on a handover document is the
\* one the document has, for good (UpdateHandoverStatus tests the version,
\* Confirm and Reject the status they read it with).
THEOREM DecisionsStand == Spec => []DecisionStands
<1>1. DeclInv => DecisionStands
  BY DEF DeclInv, DecisionInv, DecisionStands, H!DecisionStands
<1> QED BY <1>1, DeclInvariant, PTL

-----------------------------------------------------------------------------
(* Statuses, and the order of the queue. *)

LegalMoves ==
  \A d \in DeclarationId : Exists(d) =>
    /\ declarations'[d].status # declarations[d].status =>
         CanTransition(DeclarationStateMachine, declarations[d].status, declarations'[d].status)
    /\ declarations'[d].version = declarations[d].version
       \/ declarations'[d].version = declarations[d].version + 1

\* Only the tick schedules, and only the head of the queue that it saw.
HeadFirst ==
  \A d, e \in DeclarationId :
    /\ Exists(d) /\ declarations[d].status = "queued" /\ declarations'[d].status = "scheduled"
    /\ Exists(e) /\ <<e, declarations[e].version>> \in tick.seen
    => declarations[d].priority <= declarations[e].priority

\* No declaration becomes scheduled.
NoneScheduled ==
  \A d \in DeclarationId :
    Exists(d) /\ declarations'[d].status = "scheduled" => declarations[d].status = "scheduled"

LEMMA NoneMoves ==
  ASSUME UNCHANGED declarations PROVE LegalMoves /\ NoneScheduled
BY DEF LegalMoves, NoneScheduled

LEMMA QueueLegal == CanTransition(DeclarationStateMachine, "queued", "scheduled")
BY DEF CanTransition, DeclarationStateMachine, AllowMany

\* What one row may become.
LEMMA OneStatusMoves ==
  ASSUME DeclInv, RowsMove, NEW d \in DeclarationId, NEW row,
         declarations' = [declarations EXCEPT ![d] = row],
         \/ ~Exists(d)
         \/ row.status = declarations[d].status
         \/ CanTransition(DeclarationStateMachine, declarations[d].status, row.status)
  PROVE  LegalMoves /\ (row.status # "scheduled" \/ row.status = declarations[d].status => NoneScheduled)
<1>1. declarations \in [DeclarationId -> DeclarationRow \cup {NoDeclaration}]
  BY DEF DeclInv, TypeOK
<1>2. declarations'[d] = row /\ \A e \in DeclarationId : e # d => declarations'[e] = declarations[e]
  BY <1>1
<1>3. LegalMoves
  <2> SUFFICES ASSUME NEW e \in DeclarationId, Exists(e)
               PROVE  /\ declarations'[e].status # declarations[e].status =>
                           CanTransition(DeclarationStateMachine, declarations[e].status,
                                         declarations'[e].status)
                      /\ \/ declarations'[e].version = declarations[e].version
                         \/ declarations'[e].version = declarations[e].version + 1
    BY DEF LegalMoves
  <2>1. \/ declarations'[e].version = declarations[e].version
        \/ declarations'[e].version = declarations[e].version + 1
    BY DEF RowsMove
  <2>2. CASE e = d
    BY <1>2, <2>1, <2>2
  <2>3. CASE e # d
    BY <1>2, <2>1, <2>3
  <2> QED BY <2>2, <2>3
<1>4. row.status # "scheduled" \/ row.status = declarations[d].status => NoneScheduled
  BY <1>2 DEF NoneScheduled
<1> QED BY <1>3, <1>4

LEMMA EditMoves ==
  ASSUME DeclInv, NEW c \in Client, CancelWrite(c) \/ PriorityWrite(c)
  PROVE  LegalMoves /\ NoneScheduled
<1> DEFINE d == call[c].id
<1>1. /\ d \in DeclarationId /\ Exists(d) /\ call[c].priority \in Int
      /\ call[c].pc = "cancel" /\ Matches(d, call[c].version) =>
           CanTransition(DeclarationStateMachine, declarations[d].status, "cancelled")
  BY EditFacts DEF CancelWrite, PriorityWrite
<1> HIDE DEF d
<1>2. CASE CancelWrite(c)
  <2>1. /\ call[c].pc = "cancel" /\ UpdateDeclarationStatus(d, "cancelled", call[c].version)
        /\ "cancelled" \in DeclarationStatus
    BY <1>2 DEF CancelWrite, DeclarationStatus, d
  <2>2. /\ RowsMove
        /\ \/ UNCHANGED declarations
           \/ /\ Matches(d, call[c].version)
              /\ \E row \in DeclarationRow :
                   declarations' = [declarations EXCEPT ![d] = row] /\ row.status = "cancelled"
    BY <1>1, <2>1, StatusUpdated
  <2>3. CASE UNCHANGED declarations
    BY <2>3, NoneMoves
  <2>4. CASE Matches(d, call[c].version) /\ ~UNCHANGED declarations
    <3>1. PICK row \in DeclarationRow :
            declarations' = [declarations EXCEPT ![d] = row] /\ row.status = "cancelled"
      BY <2>2, <2>4
    <3> QED BY <1>1, <2>1, <2>2, <2>4, <3>1, OneStatusMoves
  <2> QED BY <2>2, <2>3, <2>4
<1>3. CASE PriorityWrite(c)
  <2>1. UpdatePriority(d, call[c].priority, call[c].version)
    BY <1>3 DEF PriorityWrite, d
  <2>2. /\ RowsMove
        /\ \/ UNCHANGED declarations
           \/ \E row \in DeclarationRow :
                declarations' = [declarations EXCEPT ![d] = row] /\ row.status = declarations[d].status
    BY <1>1, <2>1, PriorityUpdated
  <2>3. CASE UNCHANGED declarations
    BY <2>3, NoneMoves
  <2>4. CASE ~UNCHANGED declarations
    <3>1. PICK row \in DeclarationRow :
            declarations' = [declarations EXCEPT ![d] = row] /\ row.status = declarations[d].status
      BY <2>2, <2>4
    <3> QED BY <1>1, <2>2, <3>1, OneStatusMoves
  <2> QED BY <2>3, <2>4
<1> QED BY <1>2, <1>3

LEMMA InsertMoves ==
  ASSUME DeclInv, NEW c \in Client, Insert(c) PROVE LegalMoves /\ NoneScheduled
<1>1. CASE UNCHANGED declarations
  BY <1>1, NoneMoves
<1>2. CASE ~UNCHANGED declarations
  <2>1. PICK d \in DeclarationId :
          ~Exists(d) /\ declarations' = [declarations EXCEPT ![d] = NewDeclaration(call[c])]
    BY <1>2 DEF Insert
  <2>2. declarations \in [DeclarationId -> DeclarationRow \cup {NoDeclaration}]
    BY DEF DeclInv, TypeOK
  <2>3. \A e \in DeclarationId : Exists(e) => declarations'[e] = declarations[e]
    BY <2>1, <2>2
  <2> QED BY <2>3 DEF LegalMoves, NoneScheduled
<1> QED BY <1>1, <1>2

LEMMA AdvanceMoves == ASSUME DeclInv, AdvanceWrite PROVE LegalMoves /\ HeadFirst
<1> DEFINE top == tick.top
<1>1. /\ tick.pc = "advance" /\ UpdateDeclarationStatus(top, "scheduled", tick.version)
      /\ "scheduled" \in DeclarationStatus
  BY DEF AdvanceWrite, DeclarationStatus
<1>2. /\ top \in DeclarationId /\ Exists(top)
      /\ Matches(top, tick.version) => declarations[top].status = "queued"
      /\ \A s \in tick.seen : SeenInv(s[1], s[2])
  BY <1>1, TickFacts DEF DeclInv, TickInv
<1>3. /\ RowsMove
      /\ \/ UNCHANGED declarations
         \/ /\ Matches(top, tick.version)
            /\ \E row \in DeclarationRow :
                 declarations' = [declarations EXCEPT ![top] = row] /\ row.status = "scheduled"
  BY <1>1, <1>2, StatusUpdated
<1>4. CASE UNCHANGED declarations
  BY <1>4, NoneMoves DEF NoneScheduled, HeadFirst
<1>5. CASE ~UNCHANGED declarations
  <2>1. PICK row \in DeclarationRow :
          declarations' = [declarations EXCEPT ![top] = row] /\ row.status = "scheduled"
    BY <1>3, <1>5
  <2>2. Matches(top, tick.version)
    BY <1>3, <1>5
  <2>3. LegalMoves
    BY <1>2, <1>3, <2>1, <2>2, QueueLegal, OneStatusMoves
  <2>4. declarations \in [DeclarationId -> DeclarationRow \cup {NoDeclaration}]
    BY DEF DeclInv, TypeOK
  <2>5. HeadFirst
    <3> SUFFICES ASSUME NEW d \in DeclarationId, NEW e \in DeclarationId,
                        Exists(d), declarations[d].status = "queued",
                        declarations'[d].status = "scheduled",
                        <<e, declarations[e].version>> \in tick.seen
                 PROVE  declarations[d].priority <= declarations[e].priority
      BY DEF HeadFirst
    <3>1. d = top
      BY <2>1, <2>4
    <3> DEFINE s == <<e, declarations[e].version>>
    <3>2. SeenInv(s[1], s[2]) /\ s[1] = e /\ s[2] = declarations[e].version
      BY <1>2
    <3> HIDE DEF s, top
    <3> QED BY <2>2, <3>1, <3>2 DEF SeenInv, Matches, top
  <2> QED BY <2>3, <2>5
<1> QED BY <1>4, <1>5

LEMMA MovesStep == DeclInv /\ [Next]_vars => LegalMoves /\ HeadFirst
<1> SUFFICES ASSUME DeclInv, [Next]_vars PROVE LegalMoves /\ HeadFirst
  OBVIOUS
<1>1. NoneScheduled => HeadFirst
  BY DEF NoneScheduled, HeadFirst
<1>2. CASE UNCHANGED declarations
  BY <1>1, <1>2, NoneMoves
<1>3. ASSUME NEW c \in Client, Submit(c) \/ Edit(c) \/ Drop(c) PROVE LegalMoves /\ HeadFirst
  <2>1. UNCHANGED declarations \/ Insert(c) \/ CancelWrite(c) \/ PriorityWrite(c)
    BY <1>3 DEF Submit, SubmitStart, Lookup, Reserve, Reread, GiveBack, SubmitHandover,
                InsertIdempotency, SubmitFails, Edit, CancelRead, PriorityRead, EditRead, Drop, tables
  <2> QED BY <1>1, <1>2, <2>1, InsertMoves, EditMoves
<1>4. CASE AdvanceWrite
  BY <1>4, AdvanceMoves
<1>5. CASE \/ AdvanceList \/ AdvanceFails \/ PostHandover
           \/ \E n \in Amount : ApiReserve(n) \/ ApiCommit(n) \/ ApiRelease(n)
           \/ \E k \in Key : Expire(k)
           \/ \E p \in Party : DecideHandover(p)
           \/ UNCHANGED vars
  <2>1. UNCHANGED declarations
    BY <1>5 DEF AdvanceList, AdvanceFails, ApiReserve, ApiCommit, ApiRelease, Expire, PostHandover,
                DecideHandover, tables, vars
  <2> QED BY <1>2, <2>1
<1> QED BY <1>3, <1>4, <1>5 DEF Next

\* A declaration's status moves only along its machine and its version by
\* one, although Cancel tests a row that others may have changed since and
\* AdvanceQueued tests nothing (the version in their UPDATEs).
THEOREM DeclarationsMoveLegally == Spec => OnlyLegalMoves
<1>1. DeclInv /\ [Next]_vars => [LegalMoves]_vars
  BY MovesStep
<1>2. OnlyLegalMoves <=> [][LegalMoves]_vars
  BY DEF OnlyLegalMoves, LegalMoves
<1> QED BY <1>1, <1>2, DeclInvariant, PTL DEF Spec

\* AdvanceQueued promotes the declaration that was first when it listed the
\* queue, and passes over none that is still as it was listed.
THEOREM QueueInOrder == Spec => PromotedInOrder
<1>1. DeclInv /\ [Next]_vars => [HeadFirst]_vars
  BY MovesStep
<1>2. PromotedInOrder <=> [][HeadFirst]_vars
  BY DEF PromotedInOrder, HeadFirst
<1> QED BY <1>1, <1>2, DeclInvariant, PTL DEF Spec
=============================================================================
