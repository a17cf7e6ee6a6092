---------------------------- MODULE StateMachines ----------------------------
(***************************************************************************)
(* The transition tables of internal/domain/state_machine.go.  A machine   *)
(* is the set of its registered <<source, target>> pairs; a status that is *)
(* the source of no pair is final.                                         *)
(***************************************************************************)

\* StateMachine.AllowMany: register a transition from src to each of dsts.
AllowMany(src, dsts) == {src} \X dsts

\* StateMachine.CanTransition, the test MustTransition is built on: every
\* handler returns an error, having changed nothing, when it is FALSE.
CanTransition(sm, src, dst) == <<src, dst>> \in sm

DeclarationStatus ==
  {"draft", "submitted", "reviewing", "accepted", "queued", "scheduled", "processing",
   "completed", "rejected", "cancelled"}

\* DeclarationStateMachine.
DeclarationStateMachine ==
  UNION { AllowMany("submitted",  {"reviewing", "accepted", "rejected", "queued", "cancelled"}),
          AllowMany("reviewing",  {"accepted", "rejected", "queued"}),
          AllowMany("accepted",   {"queued", "scheduled", "cancelled"}),
          AllowMany("queued",     {"scheduled", "cancelled"}),
          AllowMany("scheduled",  {"processing", "cancelled"}),
          AllowMany("processing", {"completed", "cancelled"}) }

WindowStatus ==
  {"allocated", "effective", "occupied", "released", "expired", "escalated", "cancelled"}

\* WindowStateMachine.
WindowStateMachine ==
  UNION { AllowMany("allocated", {"effective", "cancelled", "escalated"}),
          AllowMany("effective", {"occupied", "expired", "escalated", "released"}),
          AllowMany("occupied",  {"released", "escalated"}),
          AllowMany("escalated", {"effective", "released", "cancelled"}) }

WorkOrderStatus ==
  {"created", "assigned", "in_progress", "completed", "cancelled", "failed"}

\* WorkOrderStateMachine.
WorkOrderStateMachine ==
  UNION { AllowMany("created",     {"assigned", "cancelled"}),
          AllowMany("assigned",    {"in_progress", "cancelled"}),
          AllowMany("in_progress", {"completed", "failed", "cancelled"}) }

PilotTaskStatus ==
  {"created", "assigned", "claimed", "in_progress", "completed", "preempted", "cancelled"}

\* PilotTaskStateMachine.
PilotTaskStateMachine ==
  UNION { AllowMany("created",     {"assigned", "cancelled"}),
          AllowMany("assigned",    {"claimed", "preempted", "cancelled"}),
          AllowMany("claimed",     {"completed", "in_progress", "preempted"}),
          AllowMany("in_progress", {"completed", "preempted"}),
          AllowMany("preempted",   {"assigned", "cancelled"}) }
=============================================================================
