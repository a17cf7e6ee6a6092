----------------------------- MODULE MCPilotTask -----------------------------
(***************************************************************************)
(* PilotTask on small instances.  Executors are interchangeable, and so    *)
(* are tasks and lease identifiers.                                        *)
(***************************************************************************)
EXTENDS PilotTask, TLC

Symmetry == Permutations(Task) \cup Permutations(Executor) \cup Permutations(Lease)
=============================================================================
