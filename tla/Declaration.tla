----------------------------- MODULE Declaration -----------------------------
(***************************************************************************)
(* Arrival declarations: internal/declaration over arrival_declarations,   *)
(* quotas, handover_documents and idempotency_records, with step 4 of the  *)
(* engine's tick, the handover service on the documents that Submit        *)
(* creates, and the quota service's clients on the row of the day.         *)
(*                                                                         *)
(* Submit is up to eight statements of four tables, each a transaction of  *)
(* its own.  Its reservation loop and the operations of the quota service  *)
(* are one action here: module Quota has their statements and Quota_proofs *)
(* shows that each takes effect at one instant.                            *)
(*                                                                         *)
(* Not modelled: cargo units (declarations of another quota row share      *)
(* nothing with these), queue positions (a count that no step reads        *)
(* again), audit rows, texts.                                              *)
(***************************************************************************)
EXTENDS QuotaTable, StateMachines, FiniteSets, FiniteSetsExt

CONSTANTS
  DeclarationId,  \* ids drawn by newUUID
  Key,            \* idempotency keys
  NoKey,          \* the empty idempotency key
  None,           \* no id
  Client,         \* HTTP handlers
  Volume,         \* cargo volumes
  Amount,         \* amounts that clients of the quota API send
  Priority,       \* priorities a client sends, after the handler's default for 0
  Document,       \* handover documents
  Party,          \* goroutines that decide handovers
  MaxVersion,     \* bound: nothing is started on a quota row of this version
  MaxEdits,       \* bound: no edit starts on a declaration of this version
  MaxExpiries     \* bound: how many idempotency records expire

ASSUME DeclarationAssumption ==
  /\ Volume \subseteq Nat /\ Amount \subseteq Int
  /\ Priority \subseteq Int
  /\ DailyLimit \in Nat
  /\ NoKey \notin Key
  /\ None \notin DeclarationId
  /\ MaxVersion \in Nat /\ MaxEdits \in Nat
  /\ MaxExpiries \in Nat

VARIABLES
  declarations,  \* the table
  quota,         \* the row of the day
  records,       \* idempotency_records
  handovers,     \* handover_documents
  deciding,      \* parties inside Confirm or Reject
  call,          \* local state of each client's handler
  tick,          \* the engine's tick, in AdvanceQueued
  replies,       \* history: the answers given for each key
  expiries,      \* how many records have expired
  direct         \* history: what clients of the quota API reserved less what they released

H == INSTANCE Handover WITH Entity <- DeclarationId

vars ==
  <<declarations, quota, records, handovers, deciding, call, tick, replies, expiries, direct>>

DeclarationRow ==
  [status : DeclarationStatus, priority : Int, volume : Volume, key : Key \cup {NoKey},
   version : Nat]

NoDeclaration == [status |-> "none"]

\* SubmitResult.
Result == [id : DeclarationId \cup {None}, status : {"accepted", "queued", "rejected"}]

\* A record that has expired is found, and ignored, but still occupies its key.
Record == [result : Result, expired : BOOLEAN]

NoRecord == [result |-> None]

\* Local state of Submit; version is that of the quota row read last.
SubmitState ==
  [pc : {"lookup", "reserve", "reread", "insert", "giveback", "handover", "record"},
   key : Key \cup {NoKey}, volume : Volume, priority : Int, version : Nat, result : Result]

\* Local state of Cancel and UpdatePriority.
EditState ==
  [pc : {"cancel", "prioritise"}, id : DeclarationId, priority : Int, version : Nat]

Idle == [pc |-> "idle"]

\* seen is history: what the tick read of the queue, by id.
TickState ==
  [pc : {"advance"}, top : DeclarationId, version : Nat,
   seen : SUBSET (DeclarationId \X Nat)]

TypeOK ==
  /\ declarations \in [DeclarationId -> DeclarationRow \cup {NoDeclaration}]
  /\ quota \in QuotaRow
  /\ records \in [Key -> Record \cup {NoRecord}]
  /\ call \in [Client -> SubmitState \cup EditState \cup {Idle}]
  /\ tick \in TickState \cup {Idle}
  /\ replies \in [Key -> SUBSET Result]
  /\ H!HandoverTypeOK

Exists(d) == declarations[d] # NoDeclaration

Existing == {d \in DeclarationId : Exists(d)}

Init ==
  /\ declarations = [d \in DeclarationId |-> NoDeclaration]
  /\ quota = NoQuota
  /\ records = [k \in Key |-> NoRecord]
  /\ H!HandoverInit
  /\ call = [c \in Client |-> Idle]
  /\ tick = Idle
  /\ replies = [k \in Key |-> {}]
  /\ expiries = 0
  /\ direct = 0

\* The tables, and what no step of a client's handler changes but SubmitHandover.
tables == <<declarations, quota, records, handovers>>
others == <<deciding, tick, expiries, direct>>

GoTo(c, pc) == call' = [call EXCEPT ![c].pc = pc]

\* The client has its answer.
Reply(c, result) ==
  /\ call' = [call EXCEPT ![c] = Idle]
  /\ replies' = IF call[c].key = NoKey THEN replies
                ELSE [replies EXCEPT ![call[c].key] = replies[call[c].key] \cup {result}]

\* The client has an error, or none at all.
Abandon(c) == call' = [call EXCEPT ![c] = Idle] /\ UNCHANGED replies

-----------------------------------------------------------------------------
(* Submit. *)

\* The handler decodes, validateSubmit accepts.  A priority out of range is
\* kept: validateSubmit corrects its own copy of the request.
SubmitStart(c, key, volume, priority) ==
  /\ call[c] = Idle
  /\ quota.version < MaxVersion
  /\ call' = [call EXCEPT ![c] =
                [pc |-> IF key = NoKey THEN "reserve" ELSE "lookup", key |-> key,
                 volume |-> volume, priority |-> priority, version |-> 0,
                 result |-> [id |-> None, status |-> "rejected"]]]
  /\ UNCHANGED <<tables, others, replies>>

\* tryIdempotency: the stored answer, unless there is none or it has expired.
Lookup(c) ==
  /\ call[c].pc = "lookup"
  /\ LET record == records[call[c].key]
     IN IF record = NoRecord \/ record.expired
        THEN GoTo(c, "reserve") /\ UNCHANGED replies
        ELSE Reply(c, record.result)
  /\ UNCHANGED <<tables, others>>

\* The row that GetOrCreateQuota returns, and creates if it must.
QuotaOfTheDay == IF quota.version = 0 THEN NewQuota ELSE quota

\* reserveQuotaWithRetry, at the instant that decides: granted, or refused.
\* (An empty cargo on an overdrawn row is neither: Available() is not below 0,
\* the UPDATE never matches, and the loop ends in SubmitFails.)
Reserve(c) ==
  /\ call[c].pc = "reserve"
  /\ \/ /\ ReserveMatches(QuotaOfTheDay, call[c].volume, QuotaOfTheDay.version)
        /\ quota' = ReserveQuota(QuotaOfTheDay, call[c].volume)
        /\ GoTo(c, "reread") /\ UNCHANGED replies
     \/ /\ Available(QuotaOfTheDay) < call[c].volume
        /\ quota' = QuotaOfTheDay
        /\ IF call[c].key = NoKey THEN Reply(c, call[c].result)
                                   ELSE GoTo(c, "record") /\ UNCHANGED replies
  /\ UNCHANGED <<declarations, records, handovers, others>>

\* Quota.Utilization() > 0.8
Crowded == DailyLimit > 0 /\ 10 * (quota.used + quota.reserved) > 8 * DailyLimit

\* GetOrCreateQuota once more, for the utilization.  (The queue position is
\* counted here too.)
Reread(c) ==
  /\ call[c].pc = "reread"
  /\ call' = [call EXCEPT ![c] = [call[c] EXCEPT !.pc = "insert", !.version = quota.version,
                 !.result = [id |-> None, status |-> IF Crowded THEN "queued" ELSE "accepted"]]]
  /\ UNCHANGED <<tables, others, replies>>

\* Mutant of KeyTaken: the index on idempotency_key is not unique.
KeyNeverTaken(key) == FALSE

\* The unique index on idempotency_key, where it is not empty.
KeyTaken(key) == key # NoKey /\ \E d \in Existing : declarations[d].key = key

\* The row that Submit INSERTs.
NewDeclaration(r) ==
  [status |-> r.result.status, priority |-> r.priority, volume |-> r.volume, key |-> r.key,
   version |-> 1]

\* newUUID and CreateDeclaration.
Insert(c) ==
  /\ call[c].pc = "insert"
  /\ \/ /\ KeyTaken(call[c].key)
        /\ GoTo(c, "giveback")
        /\ UNCHANGED declarations
     \/ /\ ~KeyTaken(call[c].key)
        /\ \E d \in DeclarationId :
             /\ ~Exists(d)
             /\ declarations' = [declarations EXCEPT ![d] = NewDeclaration(call[c])]
             /\ call' = [call EXCEPT ![c] = [call[c] EXCEPT !.pc = "handover", !.result.id = d]]
  /\ UNCHANGED <<quota, records, handovers, others, replies>>

\* ReleaseQuota after a failed INSERT, at version q.Version+1: it finds the
\* row only if somebody else has changed it exactly once since the re-read.
GiveBack(c) ==
  /\ call[c].pc = "giveback"
  /\ quota' = IF ReleaseMatches(quota, call[c].volume, call[c].version + 1)
              THEN ReleaseQuota(quota, call[c].volume) ELSE quota
  /\ Abandon(c)
  /\ UNCHANGED <<declarations, records, handovers, others>>

\* Where Submit goes when the declaration stands and its document is tried.
Recorded(c) ==
  IF call[c].key = NoKey THEN Reply(c, call[c].result)
  ELSE GoTo(c, "record") /\ UNCHANGED replies

\* Mutant of SubmitHandover: without a document the reservation is given back.
SubmitHandoverOrGiveBack(c) ==
  /\ call[c].pc = "handover"
  /\ \/ \E h \in Document : H!CreateHandover(h, call[c].result.id) /\ Recorded(c) /\ UNCHANGED quota
     \/ /\ quota' = IF quota.reserved >= call[c].volume
                    THEN ReleaseQuota(quota, call[c].volume) ELSE quota
        /\ Recorded(c)
        /\ UNCHANGED <<handovers, deciding>>
  /\ UNCHANGED <<declarations, records, tick, expiries, direct>>

\* CreateHandover, best effort: an error is only logged.
SubmitHandover(c) ==
  /\ call[c].pc = "handover"
  /\ \/ \E h \in Document : H!CreateHandover(h, call[c].result.id)
     \/ UNCHANGED <<handovers, deciding>>
  /\ Recorded(c)
  /\ UNCHANGED <<declarations, quota, records, tick, expiries, direct>>

\* cacheIdempotency, best effort: a key that has a record keeps it, expired
\* or not (nothing calls CleanExpiredIdempotency).
InsertIdempotency(c) ==
  /\ call[c].pc = "record"
  /\ records' = IF records[call[c].key] = NoRecord
                THEN [records EXCEPT ![call[c].key] = [result |-> call[c].result, expired |-> FALSE]]
                ELSE records
  /\ Reply(c, call[c].result)
  /\ UNCHANGED <<declarations, quota, handovers, others>>

\* A failing statement of Submit; the reservation loop may have created the
\* row of the day.
SubmitFails(c) ==
  \/ /\ call[c].pc \in {"lookup", "reread", "giveback"}
     /\ Abandon(c)
     /\ UNCHANGED <<tables, others>>
  \/ /\ call[c].pc = "reserve"
     /\ quota' \in {quota, QuotaOfTheDay}
     /\ Abandon(c)
     /\ UNCHANGED <<declarations, records, handovers, others>>
  \/ /\ call[c].pc = "insert"
     /\ GoTo(c, "giveback")
     /\ UNCHANGED <<tables, others, replies>>
  \/ /\ call[c].pc = "record"
     /\ Reply(c, call[c].result)
     /\ UNCHANGED <<tables, others>>

Submit(c) ==
  \/ \E key \in Key \cup {NoKey}, volume \in Volume, priority \in Priority :
       SubmitStart(c, key, volume, priority)
  \/ Lookup(c) \/ Reserve(c) \/ Reread(c) \/ Insert(c) \/ GiveBack(c)
  \/ SubmitHandover(c) \/ InsertIdempotency(c) \/ SubmitFails(c)

-----------------------------------------------------------------------------
(* Cancel and UpdatePriority. *)

\* Mutant of Matches: UPDATE ... WHERE id = ?
AnyVersionMatches(d, version) == TRUE

\* UPDATE ... WHERE id = ? AND version = ?
Matches(d, version) == declarations[d].version = version

UpdateDeclarationStatus(d, status, version) ==
  declarations' = IF Matches(d, version)
    THEN [declarations EXCEPT ![d] = [declarations[d] EXCEPT !.status = status, !.version = version + 1]]
    ELSE declarations

UpdatePriority(d, priority, version) ==
  declarations' = IF Matches(d, version)
    THEN [declarations EXCEPT ![d] = [declarations[d] EXCEPT !.priority = priority, !.version = version + 1]]
    ELSE declarations

\* GetDeclaration; Cancel tests the transition, UpdatePriority the range 1..10.
EditRead(c, d, pc, priority) ==
  /\ call[c] = Idle
  /\ Exists(d)
  /\ declarations[d].version < MaxEdits
  /\ call' = [call EXCEPT ![c] =
                [pc |-> pc, id |-> d, priority |-> priority, version |-> declarations[d].version]]
  /\ UNCHANGED <<tables, others, replies>>

CancelRead(c, d) ==
  /\ Exists(d) /\ CanTransition(DeclarationStateMachine, declarations[d].status, "cancelled")
  /\ EditRead(c, d, "cancel", declarations[d].priority)

\* The UPDATE of Cancel, which leaves the quota reserved, and the answer.
CancelWrite(c) ==
  /\ call[c].pc = "cancel"
  /\ UpdateDeclarationStatus(call[c].id, "cancelled", call[c].version)
  /\ Abandon(c)
  /\ UNCHANGED <<quota, records, handovers, others>>

PriorityRead(c, d, priority) == priority \in 1..10 /\ EditRead(c, d, "prioritise", priority)

PriorityWrite(c) ==
  /\ call[c].pc = "prioritise"
  /\ UpdatePriority(call[c].id, call[c].priority, call[c].version)
  /\ Abandon(c)
  /\ UNCHANGED <<quota, records, handovers, others>>

Edit(c) ==
  \/ \E d \in DeclarationId : CancelRead(c, d) \/ \E p \in Priority : PriorityRead(c, d, p)
  \/ CancelWrite(c)
  \/ PriorityWrite(c)

\* The handler's process dies, or an UPDATE of Cancel or UpdatePriority fails.
Drop(c) ==
  /\ call[c] # Idle
  /\ Abandon(c)
  /\ UNCHANGED <<tables, others>>

-----------------------------------------------------------------------------
(* Step 4 of the tick: AdvanceQueued. *)

\* Mutant of Queued: the declarations of another status are listed.
QueuedAccepted == {d \in Existing : declarations[d].status = "accepted"}

\* ListDeclarationsByStatus(queued).
Queued == {d \in Existing : declarations[d].status = "queued"}

\* Mutant of QueueHead: ORDER BY priority DESC
QueueTail(d) == d \in Queued /\ \A e \in Queued : declarations[e].priority <= declarations[d].priority

\* Its first row: ORDER BY priority ASC, created_at ASC.  The second key has
\* a resolution of a second, so any of equal priority may come first.
QueueHead(d) == d \in Queued /\ \A e \in Queued : declarations[d].priority <= declarations[e].priority

AdvanceList ==
  /\ tick = Idle
  /\ \E d \in DeclarationId :
       /\ QueueHead(d)
       /\ tick' = [pc |-> "advance", top |-> d, version |-> declarations[d].version,
                   seen |-> {<<e, declarations[e].version>> : e \in Queued}]
  /\ UNCHANGED <<tables, deciding, expiries, direct, call, replies>>

AdvanceWrite ==
  /\ tick.pc = "advance"
  /\ UpdateDeclarationStatus(tick.top, "scheduled", tick.version)
  /\ tick' = Idle
  /\ UNCHANGED <<quota, records, handovers, deciding, expiries, direct, call, replies>>

\* The UPDATE fails, or the scheduler dies and is started again.
AdvanceFails ==
  /\ tick # Idle
  /\ tick' = Idle
  /\ UNCHANGED <<tables, deciding, expiries, direct, call, replies>>

-----------------------------------------------------------------------------
(* The rest of the port. *)

\* A client of the quota API reserves, at the instant that grants it; or only
\* creates the row of the day.
ApiReserve(n) ==
  /\ n > 0 /\ quota.version < MaxVersion
  /\ \/ /\ ReserveMatches(QuotaOfTheDay, n, QuotaOfTheDay.version)
        /\ quota' = ReserveQuota(QuotaOfTheDay, n)
        /\ direct' = direct + n
     \/ quota' = QuotaOfTheDay /\ UNCHANGED direct
  /\ UNCHANGED <<declarations, records, handovers, deciding, tick, expiries, call, replies>>

\* It commits or releases, any amount up to what is reserved, for whomever: no
\* row says whose a reservation is, and no amount is tested.
ApiCommit(n) ==
  /\ quota.version \in 1..(MaxVersion - 1)
  /\ CommitMatches(quota, n, quota.version)
  /\ quota' = CommitQuota(quota, n)
  /\ UNCHANGED <<declarations, records, handovers, others, call, replies>>

ApiRelease(n) ==
  /\ quota.version \in 1..(MaxVersion - 1)
  /\ ReleaseMatches(quota, n, quota.version)
  /\ quota' = ReleaseQuota(quota, n)
  /\ direct' = direct - n
  /\ UNCHANGED <<declarations, records, handovers, deciding, tick, expiries, call, replies>>

\* 24 hours after it was stored a record expires.
Expire(key) ==
  /\ records[key] # NoRecord /\ ~records[key].expired
  /\ expiries < MaxExpiries
  /\ expiries' = expiries + 1
  /\ records' = [records EXCEPT ![key] = [result |-> records[key].result, expired |-> TRUE]]
  /\ UNCHANGED <<declarations, quota, handovers, deciding, tick, direct, call, replies>>

\* POST /handover-documents, about a declaration that exists (foreign key).
PostHandover ==
  /\ \E h \in Document, d \in Existing : H!CreateHandover(h, d)
  /\ UNCHANGED <<declarations, quota, records, tick, expiries, direct, call, replies>>

\* Confirm and Reject of the documents.
DecideHandover(p) ==
  /\ H!Decide(p)
  /\ UNCHANGED <<declarations, quota, records, tick, expiries, direct, call, replies>>

Next ==
  \/ \E c \in Client : Submit(c) \/ Edit(c) \/ Drop(c)
  \/ AdvanceList \/ AdvanceWrite \/ AdvanceFails
  \/ \E n \in Amount : ApiReserve(n) \/ ApiCommit(n) \/ ApiRelease(n)
  \/ \E k \in Key : Expire(k)
  \/ PostHandover
  \/ \E p \in Party : DecideHandover(p)

Spec == Init /\ [][Next]_vars

\* The engine ticks until it is stopped, and its UPDATE does not fail every
\* time.  Nothing is promised of clients.
FairSpec == Spec /\ WF_vars(AdvanceList) /\ SF_vars(AdvanceWrite)

-----------------------------------------------------------------------------
(* Properties. *)

\* Clients that have reserved and have no declaration yet.
Holding == {c \in Client : call[c].pc \in {"reread", "insert", "giveback"}}

\* Whatever fails, is answered from the cache or runs beside it: every
\* declaration, and every submission on its way to one, has its volume
\* reserved or committed, beside what clients of the quota API reserved for
\* themselves.  Only those clients can take it away, by releasing more than
\* they reserved, and then no more is missing than that.  (The reverse is not
\* so: failed submissions and cancelled declarations keep theirs.)
DeclarationsPaid ==
  MapThenSumSet(LAMBDA d : declarations[d].volume, Existing)
    + MapThenSumSet(LAMBDA c : call[c].volume, Holding) + direct <= quota.used + quota.reserved

\* All answers ever given or stored for a key that name a declaration name
\* the same one, which exists and carries that key, although two submissions
\* may both miss the cache and records expire (the unique index).
AnswersNameOneDeclaration ==
  \A k \in Key :
    LET answers == replies[k] \cup {records[j].result : j \in {i \in {k} : records[i] # NoRecord}}
    IN \A r, s \in {answer \in answers : answer.id # None} :
         r.id = s.id /\ Exists(r.id) /\ declarations[r.id].key = k

\* A declaration's status moves only along its state machine, whoever else
\* cancels, reprioritises or advances it meanwhile; each change is a version.
OnlyLegalMoves ==
  [][\A d \in DeclarationId : Exists(d) =>
       /\ declarations'[d].status # declarations[d].status =>
            CanTransition(DeclarationStateMachine, declarations[d].status, declarations'[d].status)
       /\ declarations'[d].version = declarations[d].version
          \/ declarations'[d].version = declarations[d].version + 1]_vars

\* AdvanceQueued promotes the head of the queue: a declaration that waited
\* when the tick read the queue, with a better priority, is passed over only
\* if it has changed since.
PromotedInOrder ==
  [][\A d, e \in DeclarationId :
       /\ Exists(d) /\ declarations[d].status = "queued" /\ declarations'[d].status = "scheduled"
       /\ Exists(e) /\ <<e, declarations[e].version>> \in tick.seen
       => declarations[d].priority <= declarations[e].priority]_vars

\* d is the one that AdvanceQueued has to promote next.
First(d) ==
  /\ declarations[d].status = "queued"
  /\ \A e \in DeclarationId \ {d} :
       declarations[e].status = "queued" => declarations[d].priority < declarations[e].priority

\* With a ticking engine a declaration does not stay first in the queue as it
\* is for ever, although the tick may hold an older list or lose its UPDATE:
\* it is promoted, or a client cancels, changes or overtakes it.  Nothing more
\* is so: a tick promotes one declaration and waiting does not improve a
\* priority, so submissions of a better priority, or edits that come between
\* the two statements of every tick, can keep a declaration queued for ever.
FirstIsPromoted ==
  \A d \in DeclarationId, v \in 1..MaxEdits :
    (First(d) /\ declarations[d].version = v) ~> ~(First(d) /\ declarations[d].version = v)

\* A decision on a handover document stands, see Handover.
DecisionStands == H!DecisionStands
=============================================================================
