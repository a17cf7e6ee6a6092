---------------------------- MODULE MCDeclaration ----------------------------
(***************************************************************************)
(* Declaration on small instances.  Ids, clients, keys, documents and      *)
(* parties are interchangeable.                                            *)
(***************************************************************************)
EXTENDS Declaration, TLC

\* A configuration file has no literal for a negative number.
SignedAmount == {-1, 1}

NoAmount == {}

Symmetry ==
  Permutations(DeclarationId) \cup Permutations(Client) \cup Permutations(Key)
    \cup Permutations(Document) \cup Permutations(Party)
=============================================================================
