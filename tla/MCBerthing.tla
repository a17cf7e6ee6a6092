------------------------------ MODULE MCBerthing ------------------------------
(* Instances of Berthing for TLC. *)
EXTENDS Berthing, TLC

Symmetry == Permutations(WindowId) \cup Permutations(Client)

\* A window that ends early and one that ends late.
Periods == {<<0, 1>>, <<1, 2>>}
OnePeriod == {<<0, 1>>}
=============================================================================
