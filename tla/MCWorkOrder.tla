----------------------------- MODULE MCWorkOrder -----------------------------
(* Instances of WorkOrder for TLC. *)
EXTENDS WorkOrder, TLC

Symmetry == Permutations(Client)

\* No handler rejects a negative volume.
Volumes == {-1, 0, 1, 2}
=============================================================================
