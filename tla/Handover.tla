------------------------------- MODULE Handover -------------------------------
(***************************************************************************)
(* Handover documents: internal/handover over the table                    *)
(* handover_documents.  A document is pending until one of the parties     *)
(* confirms or rejects it.  Documents are created by POST                  *)
(* /handover-documents and by every submission of a declaration.           *)
(***************************************************************************)
EXTENDS Integers

CONSTANTS
  Document,   \* document ids
  Entity,     \* ids that a document may be about
  Party       \* goroutines that confirm or reject

VARIABLES
  handovers,  \* the table
  deciding    \* local state of each party

handoverVars == <<handovers, deciding>>

DocumentRow == [entity : Entity, status : {"pending", "confirmed", "rejected"}, version : Nat]

NoDocument == [status |-> "none"]

Resting == [pc |-> "idle"]

\* won is history: the UPDATE of this call changed the row.
DecisionState ==
  [pc : {"write", "done"}, document : Document, decision : {"confirmed", "rejected"},
   seen : Nat, won : BOOLEAN]

HandoverTypeOK ==
  /\ handovers \in [Document -> DocumentRow \cup {NoDocument}]
  /\ deciding \in [Party -> DecisionState \cup {Resting}]

HandoverInit ==
  /\ handovers = [h \in Document |-> NoDocument]
  /\ deciding = [p \in Party |-> Resting]

Stored(h) == handovers[h] # NoDocument

\* INSERT.  The foreign key wants a declaration, whatever kind of entity the
\* document claims to be about: the service refuses the others with an error.
CreateHandover(h, e) ==
  /\ ~Stored(h)
  /\ handovers' = [handovers EXCEPT ![h] = [entity |-> e, status |-> "pending", version |-> 1]]
  /\ UNCHANGED deciding

\* Mutant of DecisionMatches: UPDATE ... WHERE id = ?
AnyDecisionMatches(row, version) == TRUE

\* UPDATE ... WHERE id = ? AND version = ?
DecisionMatches(row, version) == row.version = version

\* Confirm and Reject: GetHandover, and the test that it is pending.
DecideRead(p, h, decision) ==
  /\ deciding[p] = Resting
  /\ Stored(h)
  /\ handovers[h].status = "pending"
  /\ deciding' = [deciding EXCEPT ![p] =
                    [pc |-> "write", document |-> h, decision |-> decision,
                     seen |-> handovers[h].version, won |-> FALSE]]
  /\ UNCHANGED handovers

\* UpdateHandoverStatus, and the answer: done, or Conflict.
DecideWrite(p) ==
  /\ deciding[p].pc = "write"
  /\ LET r == deciding[p]
         h == r.document
         match == DecisionMatches(handovers[h], r.seen)
     IN /\ handovers' = IF match
                        THEN [handovers EXCEPT ![h] = [entity |-> handovers[h].entity,
                                status |-> r.decision, version |-> handovers[h].version + 1]]
                        ELSE handovers
        /\ deciding' = [deciding EXCEPT ![p] = [r EXCEPT !.pc = "done", !.won = match]]

\* The party has its answer, or the UPDATE failed, or the process died.
DecideReturn(p) ==
  /\ deciding[p] # Resting
  /\ deciding' = [deciding EXCEPT ![p] = Resting]
  /\ UNCHANGED handovers

Decide(p) ==
  \/ \E h \in Document, decision \in {"confirmed", "rejected"} : DecideRead(p, h, decision)
  \/ DecideWrite(p)
  \/ DecideReturn(p)

-----------------------------------------------------------------------------
(* Properties. *)

\* A decision that was answered with success stands: nobody else's decision
\* on the same document takes its place, however the calls overlap (the
\* version in UpdateHandoverStatus).
DecisionStands ==
  \A p \in Party : deciding[p].pc = "done" /\ deciding[p].won =>
    handovers[deciding[p].document].status = deciding[p].decision
=============================================================================
