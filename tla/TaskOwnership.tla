---------------------------- MODULE TaskOwnership ----------------------------
(***************************************************************************)
(* What the task service promises to the port, without calls, versions,    *)
(* leases or failures: a task has at most one owner; only a claimed task   *)
(* is completed, by its owner, and then never changes hands again; a       *)
(* completed task is credited at most once, to the owner who completed it. *)
(***************************************************************************)
EXTENDS Sequences

CONSTANTS Task, Executor, None

VARIABLES
  status,   \* status of each task
  owner,    \* the executor holding or having completed the task
  credit    \* executors credited with the execution of the task

promised == <<status, owner, credit>>

Init ==
  /\ status = [t \in Task |-> "none"]
  /\ owner = [t \in Task |-> None]
  /\ credit = [t \in Task |-> <<>>]

Step(t, from, to) ==
  /\ status[t] \in from
  /\ status' = [status EXCEPT ![t] = to]

Create(t) == Step(t, {"none"}, "created") /\ UNCHANGED <<owner, credit>>

Offer(t) == Step(t, {"created", "preempted"}, "assigned") /\ UNCHANGED <<owner, credit>>

Take(t, e) ==
  /\ Step(t, {"assigned"}, "claimed")
  /\ owner' = [owner EXCEPT ![t] = e]
  /\ UNCHANGED credit

Withdraw(t) ==
  /\ Step(t, {"claimed"}, "preempted")
  /\ owner' = [owner EXCEPT ![t] = None]
  /\ UNCHANGED credit

Finish(t) == Step(t, {"claimed"}, "completed") /\ UNCHANGED <<owner, credit>>

Credit(t) ==
  /\ status[t] = "completed"
  /\ credit[t] = <<>>
  /\ credit' = [credit EXCEPT ![t] = <<owner[t]>>]
  /\ UNCHANGED <<status, owner>>

Next ==
  \E t \in Task :
    \/ Create(t) \/ Offer(t) \/ Withdraw(t) \/ Finish(t) \/ Credit(t)
    \/ \E e \in Executor : Take(t, e)

Spec == Init /\ [][Next]_promised
=============================================================================
