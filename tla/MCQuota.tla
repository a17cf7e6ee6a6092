------------------------------- MODULE MCQuota -------------------------------
(***************************************************************************)
(* Quota on a small instance.  Callers are interchangeable; amounts are of *)
(* either sign.                                                            *)
(***************************************************************************)
EXTENDS Quota, TLC

\* A configuration file has no literal for a negative number.
SignedAmount == {-1, 1, 2}

Symmetry == Permutations(Caller)
=============================================================================
