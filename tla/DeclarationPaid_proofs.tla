------------------------ MODULE DeclarationPaid_proofs ------------------------
(***************************************************************************)
(* Proof that declarations are paid for: the quota row holds what every    *)
(* declaration and every submission on its way to one needs, beside what   *)
(* clients of the quota API reserved less what they released, for every    *)
(* set of declarations and clients, every limit, all volumes and amounts.  *)
(*                                                                         *)
(* The property adds up volumes with MapThenSumSet, a fold that takes the  *)
(* elements in an order of its own, so the first part proves that the sum  *)
(* does not depend on the order.                                           *)
(***************************************************************************)
EXTENDS Declaration_proofs, FiniteSetTheorems

-----------------------------------------------------------------------------
(* Sums over finite sets. *)

\* The sum of the volumes of the rows of v that S names.
VolumeSum(v, S) == MapThenSumSet(LAMBDA x : v[x].volume, S)

Pick(s) == CHOOSE x \in s : TRUE

\* g is the function that the fold builds.
Adds(g, v, S) ==
  g = [s \in SUBSET S |-> IF s = {} THEN 0 ELSE v[Pick(s)].volume + g[s \ {Pick(s)}]]

LEMMA PickIn == \A s : s # {} => Pick(s) \in s
BY DEF Pick

LEMMA SumIsFold == \A v, S : VolumeSum(v, S) = (CHOOSE g : Adds(g, v, S))[S]
BY DEF VolumeSum, MapThenSumSet, MapThenFoldSet, Adds, Pick

\* What a function that satisfies the equation of the fold returns.
LEMMA AddsAt ==
  ASSUME NEW v, NEW S, NEW g, Adds(g, v, S), NEW s \in SUBSET S
  PROVE  /\ s = {} => g[s] = 0
         /\ s # {} => /\ Pick(s) \in s /\ s \ {Pick(s)} \in SUBSET S
                      /\ g[s] = v[Pick(s)].volume + g[s \ {Pick(s)}]
<1>1. g[s] = IF s = {} THEN 0 ELSE v[Pick(s)].volume + g[s \ {Pick(s)}]
  BY DEF Adds
<1> QED BY <1>1, PickIn

LEMMA AddsNothing == ASSUME NEW v, NEW S, NEW g, Adds(g, v, S) PROVE g[{}] = 0
<1> DEFINE s == {}
<1>1. s \in SUBSET S
  OBVIOUS
<1>2. g[s] = IF s = {} THEN 0 ELSE v[Pick(s)].volume + g[s \ {Pick(s)}]
  BY <1>1 DEF Adds
<1> QED BY <1>2

\* Induction over the subsets of a finite set: among those in B there is one
\* of which no strict subset is.
LEMMA Minimal ==
  ASSUME NEW S, IsFiniteSet(S), NEW B, B \subseteq SUBSET S, B # {}
  PROVE  \E s \in B : \A t \in B : ~(t \subseteq s /\ t # s)
<1>1. IsWellFoundedOn(StrictSubsetOrdering(S), SUBSET S)
  BY FS_FiniteSubsetsOfFinite, FS_StrictSubsetOrderingWellFounded
<1>2. PICK s \in B : \A t \in B : <<t, s>> \notin StrictSubsetOrdering(S)
  BY <1>1, WFMin
<1>3. ASSUME NEW t \in B, t \subseteq s, t # s PROVE FALSE
  BY <1>2, <1>3 DEF StrictSubsetOrdering
<1> QED BY <1>3

\* Two folds over sums of the same volumes agree where both are defined.
LEMMA FoldsAgree ==
  ASSUME NEW v, NEW w, NEW S, NEW T, IsFiniteSet(T), T \subseteq S,
         NEW g, NEW h, Adds(g, v, S), Adds(h, w, T), \A x \in T : v[x].volume = w[x].volume
  PROVE  \A s \in SUBSET T : g[s] = h[s]
<1> DEFINE B == {s \in SUBSET T : g[s] # h[s]}
<1> SUFFICES ASSUME B # {} PROVE FALSE
  OBVIOUS
<1> B \subseteq SUBSET T
  OBVIOUS
<1>1. PICK s \in B : \A t \in B : ~(t \subseteq s /\ t # s)
  <2> HIDE DEF B
  <2> QED BY Minimal
<1>2. s \in SUBSET T /\ s \in SUBSET S /\ g[s] # h[s]
  BY <1>1
<1>3. s # {}
  <2>1. g[{}] = 0
    BY AddsNothing
  <2>2. h[{}] = 0
    BY AddsNothing
  <2> QED BY <1>2, <2>1, <2>2
<1> DEFINE p == Pick(s)
           t == s \ {p}
<1>4. /\ p \in s /\ t \in SUBSET T
      /\ g[s] = v[p].volume + g[t] /\ h[s] = w[p].volume + h[t]
  BY <1>2, <1>3, AddsAt
<1>5. g[t] = h[t]
  BY <1>1, <1>4
<1> QED BY <1>2, <1>4, <1>5

LEMMA FoldExists ==
  ASSUME NEW v, NEW S, IsFiniteSet(S)
  PROVE  Adds(CHOOSE g : Adds(g, v, S), v, S)
<1> DEFINE B == {T \in SUBSET S : ~\E g : Adds(g, v, T)}
<1>1. B = {}
  <2> SUFFICES ASSUME B # {} PROVE FALSE
    OBVIOUS
  <2> B \subseteq SUBSET S
    OBVIOUS
  <2>1. PICK T \in B : \A U \in B : ~(U \subseteq T /\ U # T)
    <3> HIDE DEF B
    <3> QED BY Minimal
  <2>2. T \in SUBSET S
    BY <2>1
  <2> DEFINE G(U) == CHOOSE g : Adds(g, v, U)
             f == [s \in SUBSET T |-> IF s = {} THEN 0
                     ELSE v[Pick(s)].volume + G(s \ {Pick(s)})[s \ {Pick(s)}]]
  <2>3. ASSUME NEW U \in SUBSET T, U # T PROVE IsFiniteSet(U) /\ Adds(G(U), v, U)
    <3>1. U \in SUBSET S /\ U \notin B
      BY <2>1, <2>2, <2>3
    <3>2. \E g : Adds(g, v, U)
      BY <3>1
    <3>3. IsFiniteSet(U)
      BY <3>1, FS_Subset
    <3> QED BY <3>2, <3>3
  <2> HIDE DEF G
  <2>4. ASSUME NEW U \in SUBSET T, U # T PROVE f[U] = G(U)[U]
    <3>1. Adds(G(U), v, U) /\ IsFiniteSet(U)
      BY <2>3, <2>4
    <3>2. CASE U = {}
      BY <3>1, <3>2, AddsAt
    <3>3. CASE U # {}
      <4> DEFINE p == Pick(U)
                 W == U \ {p}
      <4>1. p \in U /\ W \in SUBSET U /\ G(U)[U] = v[p].volume + G(U)[W]
        BY <3>1, <3>3, AddsAt
      <4>2. W \in SUBSET T /\ W # T
        BY <2>4, <4>1
      <4>3. Adds(G(W), v, W) /\ IsFiniteSet(W)
        BY <2>3, <4>2
      <4>4. G(U)[W] = G(W)[W]
        BY <3>1, <4>1, <4>3, FoldsAgree
      <4>5. f[U] = v[p].volume + G(W)[W]
        BY <3>3
      <4> QED BY <4>1, <4>4, <4>5
    <3> QED BY <3>2, <3>3
  <2>5. ASSUME NEW s \in SUBSET T
        PROVE  f[s] = IF s = {} THEN 0 ELSE v[Pick(s)].volume + f[s \ {Pick(s)}]
    <3>1. CASE s = {}
      BY <3>1
    <3>2. CASE s # {}
      <4> DEFINE W == s \ {Pick(s)}
      <4>1. W \in SUBSET T /\ W # T
        BY <3>2, PickIn
      <4>2. f[W] = G(W)[W]
        BY <2>4, <4>1
      <4> QED BY <3>2, <4>2
    <3> QED BY <3>1, <3>2
  <2> HIDE DEF f
  <2>6. f = [s \in SUBSET T |-> f[s]]
    BY DEF f
  <2>7. Adds(f, v, T)
    BY <2>5, <2>6 DEF Adds
  <2> QED BY <2>1, <2>7
<1>2. \E g : Adds(g, v, S)
  BY <1>1
<1> QED BY <1>2

LEMMA FoldNat ==
  ASSUME NEW v, NEW S, IsFiniteSet(S), \A x \in S : v[x].volume \in Nat,
         NEW g, Adds(g, v, S)
  PROVE  \A s \in SUBSET S : g[s] \in Nat
<1> DEFINE B == {s \in SUBSET S : g[s] \notin Nat}
<1> SUFFICES ASSUME B # {} PROVE FALSE
  OBVIOUS
<1> B \subseteq SUBSET S
  OBVIOUS
<1>1. PICK s \in B : \A t \in B : ~(t \subseteq s /\ t # s)
  <2> HIDE DEF B
  <2> QED BY Minimal
<1>2. s \in SUBSET S /\ g[s] \notin Nat
  BY <1>1
<1>3. s # {}
  <2>1. g[{}] = 0
    BY AddsNothing
  <2>2. 0 \in Nat
    OBVIOUS
  <2> QED BY <1>2, <2>1, <2>2, Zenon
<1> DEFINE p == Pick(s)
           t == s \ {p}
<1>4. p \in s /\ t \in SUBSET S /\ g[s] = v[p].volume + g[t]
  BY <1>2, <1>3, AddsAt
<1>5. g[t] \in Nat /\ v[p].volume \in Nat
  BY <1>1, <1>2, <1>4
<1> QED BY <1>2, <1>4, <1>5

\* Any element may be taken first.
LEMMA FoldAnyOrder ==
  ASSUME NEW v, NEW S, IsFiniteSet(S), \A x \in S : v[x].volume \in Nat,
         NEW g, Adds(g, v, S)
  PROVE  \A s \in SUBSET S : \A x \in s : g[s] = v[x].volume + g[s \ {x}]
<1> DEFINE B == {s \in SUBSET S : \E x \in s : g[s] # v[x].volume + g[s \ {x}]}
<1> SUFFICES ASSUME B # {} PROVE FALSE
  OBVIOUS
<1> B \subseteq SUBSET S
  OBVIOUS
<1>1. PICK s \in B : \A t \in B : ~(t \subseteq s /\ t # s)
  <2> HIDE DEF B
  <2> QED BY Minimal
<1>2. s \in SUBSET S
  BY <1>1
<1>3. PICK x \in s : g[s] # v[x].volume + g[s \ {x}]
  BY <1>1
<1> DEFINE y == Pick(s)
           r == (s \ {x}) \ {y}
<1>4. y \in s /\ s \ {y} \in SUBSET S /\ g[s] = v[y].volume + g[s \ {y}]
  BY <1>2, <1>3, AddsAt
<1> HIDE DEF y
<1>5. x # y
  BY <1>3, <1>4
<1>6. s \ {y} \notin B /\ s \ {x} \notin B
  BY <1>1, <1>3, <1>4
<1>7. g[s \ {y}] = v[x].volume + g[(s \ {y}) \ {x}]
  BY <1>2, <1>3, <1>5, <1>6
<1>8. g[s \ {x}] = v[y].volume + g[r]
  BY <1>2, <1>4, <1>5, <1>6
<1>9. (s \ {y}) \ {x} = r
  OBVIOUS
<1>10. g[r] \in Nat /\ v[x].volume \in Nat /\ v[y].volume \in Nat
  <2>1. r \in SUBSET S /\ x \in S /\ y \in S
    BY <1>2, <1>4
  <2> QED BY <2>1, FoldNat
<1>11. g[s] = v[y].volume + (v[x].volume + g[r])
  BY <1>4, <1>7, <1>9
<1>12. v[x].volume + g[s \ {x}] = v[x].volume + (v[y].volume + g[r])
  BY <1>8
<1>13. v[y].volume + (v[x].volume + g[r]) = v[x].volume + (v[y].volume + g[r])
  <2> HIDE DEF r
  <2> QED BY <1>10
<1> QED BY <1>3, <1>11, <1>12, <1>13

Fold(v, S) == CHOOSE g : Adds(g, v, S)

LEMMA FoldFacts ==
  ASSUME NEW v, NEW S, IsFiniteSet(S)
  PROVE  Adds(Fold(v, S), v, S) /\ VolumeSum(v, S) = Fold(v, S)[S]
BY FoldExists, SumIsFold DEF Fold

LEMMA SumNat ==
  ASSUME NEW v, NEW S, IsFiniteSet(S), \A x \in S : v[x].volume \in Nat
  PROVE  VolumeSum(v, S) \in Nat
BY FoldFacts, FoldNat

LEMMA SumEmpty == ASSUME NEW v PROVE VolumeSum(v, {}) = 0
<1>1. IsFiniteSet({})
  BY FS_EmptySet
<1> QED BY <1>1, FoldFacts, AddsNothing

LEMMA SumSame ==
  ASSUME NEW v, NEW w, NEW S, IsFiniteSet(S), \A x \in S : v[x].volume = w[x].volume
  PROVE  VolumeSum(v, S) = VolumeSum(w, S)
<1> DEFINE g == Fold(v, S)
           h == Fold(w, S)
           T == S
<1>1. /\ Adds(g, v, S) /\ Adds(h, w, T)
      /\ IsFiniteSet(T) /\ T \subseteq S /\ T \in SUBSET T
      /\ \A x \in T : v[x].volume = w[x].volume
  BY FoldFacts
<1>2. VolumeSum(v, S) = g[T] /\ VolumeSum(w, S) = h[T]
  BY FoldFacts
<1> HIDE DEF g, h, T
<1>3. g[T] = h[T]
  BY <1>1, FoldsAgree
<1> QED BY <1>2, <1>3

LEMMA SumWithout ==
  ASSUME NEW v, NEW S, IsFiniteSet(S), \A x \in S : v[x].volume \in Nat, NEW x \in S
  PROVE  /\ VolumeSum(v, S) = v[x].volume + VolumeSum(v, S \ {x})
         /\ VolumeSum(v, S \ {x}) \in Nat /\ v[x].volume \in Nat
<1> DEFINE T == S \ {x}
           g == Fold(v, S)
           h == Fold(v, T)
<1>1. IsFiniteSet(T) /\ T \subseteq S /\ T \in SUBSET T /\ S \in SUBSET S
  BY FS_RemoveElement
<1>2. Adds(g, v, S) /\ Adds(h, v, T) /\ VolumeSum(v, S) = g[S] /\ VolumeSum(v, T) = h[T]
  BY <1>1, FoldFacts
<1> HIDE DEF g, h
<1>3. g[S] = v[x].volume + g[T]
  BY <1>1, <1>2, FoldAnyOrder
<1>4. \A y \in T : v[y].volume \in Nat
  OBVIOUS
<1> HIDE DEF T
<1>5. g[T] = h[T]
  BY <1>1, <1>2, FoldsAgree
<1>6. VolumeSum(v, T) \in Nat
  BY <1>1, <1>4, SumNat
<1> QED BY <1>2, <1>3, <1>5, <1>6 DEF T

LEMMA SumWith ==
  ASSUME NEW v, NEW S, IsFiniteSet(S), NEW x, x \notin S,
         \A y \in S \cup {x} : v[y].volume \in Nat
  PROVE  /\ IsFiniteSet(S \cup {x})
         /\ VolumeSum(v, S \cup {x}) = v[x].volume + VolumeSum(v, S)
<1>1. IsFiniteSet(S \cup {x})
  BY FS_AddElement
<1>2. (S \cup {x}) \ {x} = S /\ x \in S \cup {x}
  OBVIOUS
<1> QED BY <1>1, <1>2, SumWithout

-----------------------------------------------------------------------------
(* The inductive invariant. *)

\* What a row that does not exist yet holds is what the new row will hold.
PaidInv ==
  /\ DeclInv
  /\ quota.version = 0 => quota.used + quota.reserved = 0
  /\ direct \in Int
  /\ IsFiniteSet(Existing) /\ IsFiniteSet(Holding)
  /\ VolumeSum(declarations, Existing) + VolumeSum(call, Holding) + direct
       <= quota.used + quota.reserved

\* The volume that a submission holds of the quota.
Held(r) == IF r.pc \in {"reread", "insert", "giveback"} THEN r.volume ELSE 0

Booked(row) == row.used + row.reserved

LEMMA InitPaid == Init => PaidInv
<1> SUFFICES ASSUME Init PROVE PaidInv
  OBVIOUS
<1>1. DeclInv
  BY InitDecl
<1>2. Existing = {} /\ Holding = {}
  BY DEF Init, Existing, Exists, Holding, Idle
<1>3. quota.used = 0 /\ quota.reserved = 0 /\ direct = 0
  BY DEF Init, NoQuota
<1>4. VolumeSum(declarations, {}) = 0 /\ VolumeSum(call, {}) = 0 /\ IsFiniteSet({})
  BY SumEmpty, FS_EmptySet
<1> QED BY <1>1, <1>2, <1>3, <1>4 DEF PaidInv

LEMMA VolumesNat ==
  ASSUME DeclInv
  PROVE  /\ \A d \in Existing : declarations[d].volume \in Nat
         /\ \A c \in Holding : call[c].volume \in Nat
         /\ \A c \in Client : Held(call[c]) \in Nat
<1>1. \A d \in Existing : declarations[d].volume \in Nat
  BY RowFacts, DeclarationAssumption DEF Existing
<1>2. \A c \in Client : call[c].pc \in {"reread", "insert", "giveback"} => call[c].volume \in Nat
  BY SubmitFacts DEF SubmitPc
<1> QED BY <1>1, <1>2 DEF Holding, Held

\* The sum over the submissions changes with the client that moves.
LEMMA HeldMoves ==
  ASSUME DeclInv, IsFiniteSet(Holding), NEW c \in Client, NEW s,
         call' = [call EXCEPT ![c] = s], Held(s) \in Nat
  PROVE  /\ IsFiniteSet(Holding')
         /\ VolumeSum(call', Holding') + Held(call[c]) = VolumeSum(call, Holding) + Held(s)
         /\ VolumeSum(call, Holding) \in Nat /\ VolumeSum(call', Holding') \in Nat
<1> DEFINE rest == Holding \ {c}
<1>1. call'[c] = s /\ \A d \in Client : d # c => call'[d] = call[d]
  BY CallUpdated DEF DeclInv, TypeOK
<1>2. /\ IsFiniteSet(rest) /\ c \notin rest
      /\ \A d \in rest : call[d].volume \in Nat /\ call'[d].volume = call[d].volume
  BY <1>1, FS_RemoveElement, VolumesNat DEF Holding
<1>3. /\ Holding = IF call[c].pc \in {"reread", "insert", "giveback"} THEN rest \cup {c} ELSE rest
      /\ Holding' = IF s.pc \in {"reread", "insert", "giveback"} THEN rest \cup {c} ELSE rest
  BY <1>1 DEF Holding
<1>4. Held(call[c]) \in Nat
  BY VolumesNat
<1> HIDE DEF rest
<1>5. VolumeSum(call', rest) = VolumeSum(call, rest) /\ VolumeSum(call, rest) \in Nat
  BY <1>2, SumSame, SumNat
<1>6. VolumeSum(call, Holding) = VolumeSum(call, rest) + Held(call[c])
  <2>1. CASE call[c].pc \in {"reread", "insert", "giveback"}
    <3>1. Held(call[c]) = call[c].volume /\ \A d \in rest \cup {c} : call[d].volume \in Nat
      BY <1>2, <1>4, <2>1 DEF Held
    <3>2. VolumeSum(call, rest \cup {c}) = call[c].volume + VolumeSum(call, rest)
      BY <1>2, <3>1, SumWith
    <3> QED BY <1>3, <1>4, <1>5, <2>1, <3>1, <3>2
  <2>2. CASE call[c].pc \notin {"reread", "insert", "giveback"}
    BY <1>3, <1>5, <2>2 DEF Held
  <2> QED BY <2>1, <2>2
<1>7. VolumeSum(call', Holding') = VolumeSum(call', rest) + Held(s) /\ IsFiniteSet(Holding')
  <2>1. CASE s.pc \in {"reread", "insert", "giveback"}
    <3>1. Held(s) = call'[c].volume /\ \A d \in rest \cup {c} : call'[d].volume \in Nat
      BY <1>1, <1>2, <2>1 DEF Held
    <3>2. /\ IsFiniteSet(rest \cup {c})
          /\ VolumeSum(call', rest \cup {c}) = call'[c].volume + VolumeSum(call', rest)
      BY <1>2, <3>1, SumWith
    <3> QED BY <1>3, <1>5, <2>1, <3>1, <3>2
  <2>2. CASE s.pc \notin {"reread", "insert", "giveback"}
    BY <1>2, <1>3, <1>5, <2>2 DEF Held
  <2> QED BY <2>1, <2>2
<1> QED BY <1>4, <1>5, <1>6, <1>7

\* Rows that keep their volumes keep the sum, and one row more adds its own.
LEMMA SameRows ==
  ASSUME DeclInv, IsFiniteSet(Existing), Existing' = Existing,
         \A d \in Existing : declarations'[d].volume = declarations[d].volume
  PROVE  /\ IsFiniteSet(Existing')
         /\ VolumeSum(declarations', Existing') = VolumeSum(declarations, Existing)
BY SumSame

LEMMA RowAdded ==
  ASSUME DeclInv, IsFiniteSet(Existing), NEW d \in DeclarationId, ~Exists(d),
         NEW row \in DeclarationRow, declarations' = [declarations EXCEPT ![d] = row]
  PROVE  /\ IsFiniteSet(Existing')
         /\ VolumeSum(declarations', Existing') = VolumeSum(declarations, Existing) + row.volume
         /\ row.volume \in Nat
<1>1. declarations \in [DeclarationId -> DeclarationRow \cup {NoDeclaration}]
  BY DEF DeclInv, TypeOK
<1>2. declarations'[d] = row /\ \A e \in DeclarationId : e # d => declarations'[e] = declarations[e]
  BY <1>1
<1>3. row # NoDeclaration /\ row.volume \in Nat
  <2>1. row.volume \in Volume
    BY DEF DeclarationRow
  <2>2. row # NoDeclaration
    BY DEF DeclarationRow, DeclarationStatus, NoDeclaration
  <2> QED BY <2>1, <2>2, DeclarationAssumption
<1>4. Existing' = Existing \cup {d} /\ d \notin Existing
  BY <1>2, <1>3 DEF Existing, Exists
<1>5. /\ \A e \in Existing : declarations'[e].volume = declarations[e].volume
      /\ \A e \in Existing \cup {d} : declarations'[e].volume \in Nat
  BY <1>2, <1>3, <1>4, VolumesNat DEF Existing
<1>6. VolumeSum(declarations', Existing) = VolumeSum(declarations, Existing)
  BY <1>5, SumSame
<1>7. /\ IsFiniteSet(Existing \cup {d})
      /\ VolumeSum(declarations', Existing \cup {d})
           = declarations'[d].volume + VolumeSum(declarations', Existing)
  BY <1>4, <1>5, SumWith
<1>8. VolumeSum(declarations, Existing) \in Nat
  BY VolumesNat, SumNat
<1> QED BY <1>2, <1>3, <1>4, <1>6, <1>7, <1>8

LEMMA RowReplaced ==
  ASSUME DeclInv, IsFiniteSet(Existing), NEW d \in DeclarationId, Exists(d),
         NEW row \in DeclarationRow, declarations' = [declarations EXCEPT ![d] = row],
         row.volume = declarations[d].volume
  PROVE  /\ IsFiniteSet(Existing')
         /\ VolumeSum(declarations', Existing') = VolumeSum(declarations, Existing)
<1>1. declarations \in [DeclarationId -> DeclarationRow \cup {NoDeclaration}]
  BY DEF DeclInv, TypeOK
<1>2. declarations'[d] = row /\ \A e \in DeclarationId : e # d => declarations'[e] = declarations[e]
  BY <1>1
<1>3. row # NoDeclaration
  BY DEF DeclarationRow, DeclarationStatus, NoDeclaration
<1>4. Existing' = Existing
  BY <1>2, <1>3 DEF Existing, Exists
<1>5. \A e \in Existing : declarations'[e].volume = declarations[e].volume
  BY <1>2 DEF Existing
<1> QED BY <1>4, <1>5, SameRows

\* What a step has to show: the quota grows by what the rows and the client
\* that moves take more of it.
LEMMA PaidByClient ==
  ASSUME PaidInv, DeclInv', NEW c \in Client, NEW s, call' = [call EXCEPT ![c] = s],
         Held(s) \in Nat, NEW grow \in Nat, IsFiniteSet(Existing'),
         VolumeSum(declarations', Existing') = VolumeSum(declarations, Existing) + grow,
         quota'.version = 0 => Booked(quota') = 0,
         grow + Held(s) + Booked(quota) <= Held(call[c]) + Booked(quota'),
         UNCHANGED direct
  PROVE  PaidInv'
<1>1. /\ IsFiniteSet(Holding')
      /\ VolumeSum(call', Holding') + Held(call[c]) = VolumeSum(call, Holding) + Held(s)
      /\ VolumeSum(call, Holding) \in Nat /\ VolumeSum(call', Holding') \in Nat
  BY HeldMoves DEF PaidInv
<1>2. VolumeSum(declarations, Existing) \in Nat /\ Held(call[c]) \in Nat
  BY VolumesNat, SumNat DEF PaidInv
<1>3. /\ quota.used \in Int /\ quota.reserved \in Int
      /\ quota'.used \in Int /\ quota'.reserved \in Int
      /\ direct \in Int /\ direct' = direct
  BY DEF PaidInv, DeclInv, TypeOK, QuotaRow
<1>4. VolumeSum(declarations', Existing') + VolumeSum(call', Holding') + direct' <= Booked(quota')
  BY <1>1, <1>2, <1>3 DEF PaidInv, Booked
<1> QED BY <1>1, <1>3, <1>4 DEF PaidInv, Booked

\* Most steps of a client leave the quota and the volumes alone; the client
\* holds what it held, or nothing any more.
LEMMA PaidStays ==
  ASSUME PaidInv, DeclInv', NEW c \in Client, NEW s, call' = [call EXCEPT ![c] = s],
         Held(s) = 0 \/ Held(s) = Held(call[c]), IsFiniteSet(Existing'),
         VolumeSum(declarations', Existing') = VolumeSum(declarations, Existing),
         UNCHANGED <<quota, direct>>
  PROVE  PaidInv'
<1>1. Held(call[c]) \in Nat /\ Held(s) \in Nat /\ VolumeSum(declarations, Existing) \in Nat
  BY VolumesNat, SumNat DEF PaidInv
<1>2. Booked(quota) \in Int
  BY QuotaTypes DEF PaidInv, Booked
<1>3. 0 + Held(s) + Booked(quota) <= Held(call[c]) + Booked(quota')
  BY <1>1, <1>2
<1>4. quota'.version = 0 => Booked(quota') = 0
  BY DEF PaidInv, Booked
<1>5. VolumeSum(declarations', Existing') = VolumeSum(declarations, Existing) + 0
  BY <1>1
<1> QED BY <1>1, <1>3, <1>4, <1>5, PaidByClient

LEMMA NoRowMoves ==
  ASSUME PaidInv, UNCHANGED declarations
  PROVE  /\ IsFiniteSet(Existing')
         /\ VolumeSum(declarations', Existing') = VolumeSum(declarations, Existing)
<1>1. Existing' = Existing
  BY DEF Existing, Exists
<1> QED BY <1>1 DEF PaidInv

LEMMA IdleHoldsNothing == Held(Idle) = 0
BY DEF Held, Idle

\* A step of a client that changes the quota, and no row.
LEMMA PaidByQuota ==
  ASSUME PaidInv, DeclInv', NEW c \in Client, NEW s, call' = [call EXCEPT ![c] = s],
         Held(s) \in Nat, UNCHANGED declarations,
         quota'.version = 0 => Booked(quota') = 0,
         Held(s) + Booked(quota) <= Held(call[c]) + Booked(quota'),
         UNCHANGED direct
  PROVE  PaidInv'
<1> DEFINE grow == 0
<1>1. /\ quota.used \in Int /\ quota.reserved \in Nat
  BY DEF PaidInv, DeclInv, TypeOK, QuotaRow
<1>2. Booked(quota) \in Int /\ VolumeSum(declarations, Existing) \in Nat
  BY <1>1, VolumesNat, SumNat DEF PaidInv, Booked
<1>3. /\ grow \in Nat
      /\ grow + Held(s) + Booked(quota) <= Held(call[c]) + Booked(quota')
      /\ IsFiniteSet(Existing')
      /\ VolumeSum(declarations', Existing') = VolumeSum(declarations, Existing) + grow
  BY <1>2, NoRowMoves
<1> HIDE DEF grow
<1> QED BY <1>3, PaidByClient

\* A call that is answered or given up.
LEMMA PaidAtEnd ==
  ASSUME PaidInv, DeclInv', NEW c \in Client, call' = [call EXCEPT ![c] = Idle],
         UNCHANGED <<quota, direct>>, IsFiniteSet(Existing'),
         VolumeSum(declarations', Existing') = VolumeSum(declarations, Existing)
  PROVE  PaidInv'
BY IdleHoldsNothing, PaidStays

-----------------------------------------------------------------------------
(* The steps. *)

\* What happens to the quota, seen from its sum.
LEMMA QuotaSums ==
  ASSUME PaidInv, NEW n \in Int
  PROVE  /\ Booked(quota) \in Int
         /\ Booked(QuotaOfTheDay) = Booked(quota) /\ QuotaOfTheDay.version # 0
         /\ Booked(ReserveQuota(QuotaOfTheDay, n)) = Booked(quota) + n
         /\ ReserveQuota(QuotaOfTheDay, n).version # 0
         /\ Booked(ReleaseQuota(quota, n)) = Booked(quota) - n /\ ReleaseQuota(quota, n).version # 0
         /\ Booked(CommitQuota(quota, n)) = Booked(quota) /\ CommitQuota(quota, n).version # 0
<1>1. /\ quota.used \in Int /\ quota.reserved \in Nat /\ quota.version \in Nat
      /\ quota.version = 0 => quota.used + quota.reserved = 0
  BY QuotaTypes DEF PaidInv
<1>2. /\ QuotaOfTheDay.used \in Int /\ QuotaOfTheDay.reserved \in Nat
      /\ QuotaOfTheDay.version \in Nat /\ QuotaOfTheDay.version # 0
      /\ QuotaOfTheDay.used + QuotaOfTheDay.reserved = quota.used + quota.reserved
  <2>1. CASE quota.version = 0
    <3>1. QuotaOfTheDay = NewQuota
      BY <2>1 DEF QuotaOfTheDay
    <3> QED BY <1>1, <2>1, <3>1 DEF NewQuota
  <2>2. CASE quota.version # 0
    <3>1. QuotaOfTheDay = quota
      BY <2>2 DEF QuotaOfTheDay
    <3> QED BY <1>1, <2>2, <3>1
  <2> QED BY <2>1, <2>2
<1> QED BY <1>1, <1>2 DEF Booked, ReserveQuota, ReleaseQuota, CommitQuota

LEMMA SubmitVolume ==
  ASSUME DeclInv, NEW c \in Client, call[c].pc \in SubmitPc
  PROVE  /\ call[c] \in SubmitState /\ call[c].volume \in Nat
         /\ \A pc \in SubmitPc :
              /\ WithPc(call[c], pc).pc = pc
              /\ WithPc(call[c], pc).volume = call[c].volume
BY SubmitFacts, PcSet

\* A submission that goes on and holds no more than it did.
LEMMA PaidOnTheWay ==
  ASSUME PaidInv, DeclInv', NEW c \in Client, call[c].pc \in SubmitPc, NEW pc \in SubmitPc,
         GoTo(c, pc), UNCHANGED <<declarations, quota, direct>>,
         pc \in {"reread", "insert", "giveback"} => call[c].pc \in {"reread", "insert", "giveback"}
  PROVE  PaidInv'
<1> DEFINE s == WithPc(call[c], pc)
<1>1. call' = [call EXCEPT ![c] = s]
  BY DEF GoTo, WithPc
<1>2. s.pc = pc /\ s.volume = call[c].volume
  BY SubmitVolume DEF PaidInv
<1> HIDE DEF s
<1>3. Held(s) = 0 \/ Held(s) = Held(call[c])
  BY <1>2 DEF Held
<1> QED BY <1>1, <1>3, NoRowMoves, PaidStays

LEMMA ReservePaid == ASSUME PaidInv, DeclInv', NEW c \in Client, Reserve(c) PROVE PaidInv'
<1>1. call[c].pc = "reserve" /\ UNCHANGED <<declarations, direct>>
  BY DEF Reserve, others
<1>2. call[c].volume \in Nat /\ Held(call[c]) = 0
  BY <1>1, SubmitVolume DEF SubmitPc, PaidInv, Held
<1>4. CASE quota' = ReserveQuota(QuotaOfTheDay, call[c].volume) /\ GoTo(c, "reread")
  <2> DEFINE s == WithPc(call[c], "reread")
  <2>1. call' = [call EXCEPT ![c] = s] /\ quota' = ReserveQuota(QuotaOfTheDay, call[c].volume)
    BY <1>4 DEF GoTo, WithPc
  <2>2. s.pc = "reread" /\ s.volume = call[c].volume
    BY <1>1, SubmitVolume DEF SubmitPc, PaidInv
  <2> HIDE DEF s
  <2>3. Held(s) = call[c].volume
    BY <2>2 DEF Held
  <2>4. Booked(quota') = Booked(quota) + call[c].volume /\ quota'.version # 0 /\ Booked(quota) \in Int
    BY <1>2, <2>1, QuotaSums
  <2>5. Held(s) \in Nat /\ Held(s) + Booked(quota) <= Held(call[c]) + Booked(quota')
    BY <1>2, <2>3, <2>4
  <2> QED BY <1>1, <2>1, <2>4, <2>5, PaidByQuota
<1>5. CASE /\ quota' = QuotaOfTheDay
           /\ IF call[c].key = NoKey THEN Reply(c, call[c].result) ELSE GoTo(c, "record")
  <2>1. PICK s : call' = [call EXCEPT ![c] = s] /\ Held(s) = 0
    <3>1. CASE call[c].key = NoKey
      BY <1>5, <3>1, IdleHoldsNothing DEF Reply
    <3>2. CASE call[c].key # NoKey
      <4> DEFINE s == WithPc(call[c], "record")
      <4>1. call' = [call EXCEPT ![c] = s]
        BY <1>5, <3>2 DEF GoTo, WithPc
      <4>2. s.pc = "record"
        BY <1>1, SubmitVolume DEF SubmitPc, PaidInv
      <4> HIDE DEF s
      <4>3. Held(s) = 0
        BY <4>2 DEF Held
      <4> QED BY <4>1, <4>3
    <3> QED BY <3>1, <3>2
  <2>2. Booked(quota') = Booked(quota) /\ quota'.version # 0 /\ Booked(quota) \in Int
    BY <1>2, <1>5, QuotaSums
  <2>3. Held(s) \in Nat /\ Held(s) + Booked(quota) <= Held(call[c]) + Booked(quota')
    BY <1>2, <2>1, <2>2
  <2> QED BY <1>1, <2>1, <2>2, <2>3, PaidByQuota
<1> QED BY <1>4, <1>5 DEF Reserve

LEMMA RereadPaid == ASSUME PaidInv, DeclInv', NEW c \in Client, Reread(c) PROVE PaidInv'
<1> DEFINE result == [id |-> None, status |-> IF Crowded THEN "queued" ELSE "accepted"]
           s == WithResult(call[c], quota.version, result)
<1>1. /\ call[c].pc = "reread" /\ call' = [call EXCEPT ![c] = s]
      /\ UNCHANGED <<declarations, quota, direct>>
  BY DEF Reread, WithResult, tables, others
<1>2. call[c] \in SubmitState /\ quota.version \in Nat
  BY <1>1, SubmitFacts, QuotaTypes DEF SubmitPc, PaidInv
<1>3. result \in Result
  BY DEF Result
<1> HIDE DEF result
<1>4. s.pc = "insert" /\ s.volume = call[c].volume
  BY <1>2, <1>3, ResultSet
<1> HIDE DEF s
<1>5. Held(s) = Held(call[c])
  BY <1>1, <1>4 DEF Held
<1> QED BY <1>1, <1>5, NoRowMoves, PaidStays

LEMMA InsertPaid == ASSUME PaidInv, DeclInv', NEW c \in Client, Insert(c) PROVE PaidInv'
<1>1. call[c].pc = "insert" /\ UNCHANGED <<quota, direct>>
  BY DEF Insert, others
<1>2. /\ call[c] \in SubmitState /\ call[c].volume \in Nat /\ Held(call[c]) = call[c].volume
      /\ call[c].result \in Result /\ call[c].key \in Key \cup {NoKey}
      /\ call[c].volume \in Volume /\ call[c].priority \in Int
  BY <1>1, SubmitFacts DEF SubmitPc, PaidInv, Held
<1>3. CASE GoTo(c, "giveback") /\ UNCHANGED declarations
  BY <1>1, <1>3, PaidOnTheWay DEF SubmitPc
<1>4. ASSUME NEW d \in DeclarationId, ~Exists(d),
             declarations' = [declarations EXCEPT ![d] = NewDeclaration(call[c])],
             call' = [call EXCEPT ![c] = WithId(call[c], d)]
      PROVE  PaidInv'
  <2> DEFINE row == NewDeclaration(call[c])
             s == WithId(call[c], d)
  <2>1. call[c].result.status \in DeclarationStatus
    BY <1>2 DEF Result, DeclarationStatus
  <2>2. row \in DeclarationRow /\ row.volume = call[c].volume
    BY <1>2, <2>1 DEF DeclarationRow, NewDeclaration
  <2>3. s.pc = "handover"
    BY <1>2, IdSet
  <2> HIDE DEF row, s
  <2>4. Held(s) = 0
    BY <2>3 DEF Held
  <2>5. /\ IsFiniteSet(Existing')
        /\ VolumeSum(declarations', Existing') = VolumeSum(declarations, Existing) + call[c].volume
    BY <1>4, <2>2, RowAdded DEF PaidInv, row
  <2>6. Booked(quota) \in Int /\ Booked(quota') = Booked(quota) /\ (quota'.version = 0 => Booked(quota') = 0)
    BY <1>1, <1>2, QuotaSums DEF PaidInv, Booked
  <2>7. call[c].volume + Held(s) + Booked(quota) <= Held(call[c]) + Booked(quota')
    BY <1>2, <2>4, <2>6
  <2>8. call' = [call EXCEPT ![c] = s]
    BY <1>4 DEF s
  <2> DEFINE grow == call[c].volume
  <2>9. /\ grow \in Nat /\ Held(s) \in Nat
        /\ grow + Held(s) + Booked(quota) <= Held(call[c]) + Booked(quota')
        /\ VolumeSum(declarations', Existing') = VolumeSum(declarations, Existing) + grow
    BY <1>2, <2>4, <2>5, <2>7
  <2> HIDE DEF grow
  <2> QED BY <1>1, <2>5, <2>6, <2>8, <2>9, PaidByClient
<1> QED BY <1>3, <1>4 DEF Insert, WithId

LEMMA GiveBackPaid == ASSUME PaidInv, DeclInv', NEW c \in Client, GiveBack(c) PROVE PaidInv'
<1>1. /\ call[c].pc = "giveback" /\ call' = [call EXCEPT ![c] = Idle] /\ UNCHANGED <<declarations, direct>>
      /\ quota' = ReleaseQuota(quota, call[c].volume) \/ quota' = quota
  BY DEF GiveBack, Abandon, others
<1>2. call[c].volume \in Nat /\ Held(call[c]) = call[c].volume
  BY <1>1, SubmitVolume DEF SubmitPc, PaidInv, Held
<1>4. /\ Booked(quota) \in Int
      /\ Booked(quota') = Booked(quota) - call[c].volume \/ Booked(quota') = Booked(quota)
      /\ quota'.version = 0 => Booked(quota') = 0
  BY <1>1, <1>2, QuotaSums DEF PaidInv, Booked
<1>5. Held(Idle) \in Nat /\ Held(Idle) + Booked(quota) <= Held(call[c]) + Booked(quota')
  BY <1>2, <1>4, IdleHoldsNothing
<1> QED BY <1>1, <1>4, <1>5, PaidByQuota

LEMMA SubmitPaid == ASSUME PaidInv, DeclInv', NEW c \in Client, Submit(c) PROVE PaidInv'
<1>1. ASSUME NEW key \in Key \cup {NoKey}, NEW volume \in Volume, NEW priority \in Priority,
             SubmitStart(c, key, volume, priority)
      PROVE  PaidInv'
  <2> DEFINE s == [pc |-> IF key = NoKey THEN "reserve" ELSE "lookup", key |-> key,
                   volume |-> volume, priority |-> priority, version |-> 0,
                   result |-> [id |-> None, status |-> "rejected"]]
  <2>1. call' = [call EXCEPT ![c] = s] /\ UNCHANGED <<declarations, quota, direct>>
    BY <1>1 DEF SubmitStart, tables, others
  <2>2. Held(s) = 0
    BY DEF Held
  <2> HIDE DEF s
  <2> QED BY <2>1, <2>2, NoRowMoves, PaidStays
<1>2. CASE UNCHANGED <<declarations, quota, direct>> /\ call' = [call EXCEPT ![c] = Idle]
  BY <1>2, NoRowMoves, PaidAtEnd
<1>3. CASE Lookup(c)
  <2>1. call[c].pc = "lookup" /\ UNCHANGED <<declarations, quota, direct>>
    BY <1>3 DEF Lookup, tables, others
  <2>2. GoTo(c, "reserve") \/ call' = [call EXCEPT ![c] = Idle]
    BY <1>3 DEF Lookup, Reply
  <2> QED BY <1>2, <2>1, <2>2, PaidOnTheWay DEF SubmitPc
<1>4. CASE SubmitHandover(c)
  <2>1. call[c].pc = "handover" /\ UNCHANGED <<declarations, quota, direct>>
    BY <1>4 DEF SubmitHandover
  <2>2. GoTo(c, "record") \/ call' = [call EXCEPT ![c] = Idle]
    BY <1>4 DEF SubmitHandover, Recorded, Reply
  <2> QED BY <1>2, <2>1, <2>2, PaidOnTheWay DEF SubmitPc
<1>5. CASE InsertIdempotency(c)
  BY <1>2, <1>5 DEF InsertIdempotency, Reply, others
<1>6. CASE SubmitFails(c)
  <2>1. CASE call[c].pc = "reserve" /\ quota' \in {quota, QuotaOfTheDay} /\ Abandon(c)
             /\ UNCHANGED <<declarations, direct>>
    <3>1. call' = [call EXCEPT ![c] = Idle] /\ Held(call[c]) = 0
      BY <2>1 DEF Abandon, Held
    <3>2. /\ Booked(quota) \in Int /\ Booked(quota') = Booked(quota)
          /\ quota'.version = 0 => Booked(quota') = 0
      <4>1. 0 \in Nat
        OBVIOUS
      <4> QED BY <2>1, <4>1, QuotaSums DEF PaidInv, Booked
    <3>3. Held(Idle) \in Nat /\ Held(Idle) + Booked(quota) <= Held(call[c]) + Booked(quota')
      BY <3>1, <3>2, IdleHoldsNothing
    <3> QED BY <2>1, <3>1, <3>2, <3>3, PaidByQuota
  <2>2. CASE call[c].pc = "insert" /\ GoTo(c, "giveback") /\ UNCHANGED <<declarations, quota, direct>>
    BY <2>2, PaidOnTheWay DEF SubmitPc
  <2> QED BY <1>2, <1>6, <2>1, <2>2 DEF SubmitFails, Abandon, Reply, tables, others
<1> QED BY <1>1, <1>3, <1>4, <1>5, <1>6, ReservePaid, RereadPaid, InsertPaid, GiveBackPaid DEF Submit

LEMMA EditPaid == ASSUME PaidInv, DeclInv', NEW c \in Client, Edit(c) PROVE PaidInv'
<1>1. ASSUME NEW d \in DeclarationId, NEW pc \in {"cancel", "prioritise"}, NEW priority,
             EditRead(c, d, pc, priority)
      PROVE  PaidInv'
  <2> DEFINE s == [pc |-> pc, id |-> d, priority |-> priority, version |-> declarations[d].version]
  <2>1. call' = [call EXCEPT ![c] = s] /\ UNCHANGED <<declarations, quota, direct>>
    BY <1>1 DEF EditRead, tables, others
  <2>2. Held(s) = 0
    BY DEF Held
  <2> HIDE DEF s
  <2> QED BY <2>1, <2>2, NoRowMoves, PaidStays
<1>2. CASE CancelWrite(c) \/ PriorityWrite(c)
  <2> DEFINE d == call[c].id
  <2>1. d \in DeclarationId /\ Exists(d) /\ call[c].priority \in Int
    BY <1>2, EditFacts DEF CancelWrite, PriorityWrite, PaidInv
  <2>2. call' = [call EXCEPT ![c] = Idle] /\ UNCHANGED <<quota, direct>>
    BY <1>2 DEF CancelWrite, PriorityWrite, Abandon, others
  <2> HIDE DEF d
  <2>3. \/ UNCHANGED declarations
        \/ \E row \in DeclarationRow :
             declarations' = [declarations EXCEPT ![d] = row] /\ row.volume = declarations[d].volume
    <3>1. CASE CancelWrite(c)
      <4>1. /\ UpdateDeclarationStatus(d, "cancelled", call[c].version)
            /\ "cancelled" \in DeclarationStatus
        BY <3>1 DEF CancelWrite, DeclarationStatus, d
      <4> QED BY <2>1, <4>1, StatusUpdated DEF PaidInv
    <3>2. CASE PriorityWrite(c)
      <4>1. UpdatePriority(d, call[c].priority, call[c].version)
        BY <3>2 DEF PriorityWrite, d
      <4> QED BY <2>1, <4>1, PriorityUpdated DEF PaidInv
    <3> QED BY <1>2, <3>1, <3>2
  <2>4. /\ IsFiniteSet(Existing')
        /\ VolumeSum(declarations', Existing') = VolumeSum(declarations, Existing)
    BY <2>1, <2>3, NoRowMoves, RowReplaced DEF PaidInv
  <2> QED BY <2>2, <2>4, PaidAtEnd
<1> QED BY <1>1, <1>2 DEF Edit, CancelRead, PriorityRead

\* A step of somebody else moves no submission; a client of the quota API
\* takes no more from the row than its own account.
LEMMA PaidByOthers ==
  ASSUME PaidInv, DeclInv', UNCHANGED call, IsFiniteSet(Existing'),
         VolumeSum(declarations', Existing') = VolumeSum(declarations, Existing),
         direct' \in Int, Booked(quota') - direct' = Booked(quota) - direct,
         quota'.version = 0 => Booked(quota') = 0
  PROVE  PaidInv'
<1>1. Holding' = Holding
  BY DEF Holding
<1>2. /\ VolumeSum(declarations, Existing) \in Nat /\ VolumeSum(call, Holding) \in Nat
      /\ direct \in Int
  BY VolumesNat, SumNat DEF PaidInv
<1>3. /\ quota.used \in Int /\ quota.reserved \in Int
      /\ quota'.used \in Int /\ quota'.reserved \in Int
  BY DEF PaidInv, DeclInv, TypeOK, QuotaRow
<1>4. VolumeSum(declarations, Existing) + VolumeSum(call, Holding) + direct' <= Booked(quota')
  BY <1>2, <1>3 DEF PaidInv, Booked
<1> QED BY <1>1, <1>4 DEF PaidInv, Booked

\* Most of them leave the quota alone.
LEMMA PaidUnmoved ==
  ASSUME PaidInv, DeclInv', UNCHANGED <<call, quota, direct>>, IsFiniteSet(Existing'),
         VolumeSum(declarations', Existing') = VolumeSum(declarations, Existing)
  PROVE  PaidInv'
<1>1. direct' \in Int /\ Booked(quota') - direct' = Booked(quota) - direct
  BY DEF PaidInv
<1>2. quota'.version = 0 => Booked(quota') = 0
  BY DEF PaidInv, Booked
<1> QED BY <1>1, <1>2, PaidByOthers

LEMMA AdvancePaid == ASSUME PaidInv, DeclInv', AdvanceWrite PROVE PaidInv'
<1> DEFINE d == tick.top
<1>1. /\ tick.pc = "advance" /\ UpdateDeclarationStatus(d, "scheduled", tick.version)
      /\ UNCHANGED <<quota, direct, call>> /\ "scheduled" \in DeclarationStatus
  BY DEF AdvanceWrite, DeclarationStatus
<1>2. d \in DeclarationId /\ Exists(d)
  BY <1>1, TickFacts DEF PaidInv
<1> HIDE DEF d
<1>3. \/ UNCHANGED declarations
      \/ \E row \in DeclarationRow :
           declarations' = [declarations EXCEPT ![d] = row] /\ row.volume = declarations[d].volume
  BY <1>1, <1>2, StatusUpdated DEF PaidInv
<1>4. /\ IsFiniteSet(Existing')
      /\ VolumeSum(declarations', Existing') = VolumeSum(declarations, Existing)
  BY <1>2, <1>3, NoRowMoves, RowReplaced DEF PaidInv
<1> QED BY <1>1, <1>4, PaidUnmoved

LEMMA ApiPaid ==
  ASSUME PaidInv, DeclInv', NEW n \in Amount, ApiReserve(n) \/ ApiCommit(n) \/ ApiRelease(n)
  PROVE  PaidInv'
<1>1. UNCHANGED <<declarations, call>>
  BY DEF ApiReserve, ApiCommit, ApiRelease
<1>2. n \in Int /\ direct \in Int
  BY DeclarationAssumption DEF PaidInv
<1>3. \/ quota' = ReserveQuota(QuotaOfTheDay, n) /\ direct' = direct + n
      \/ quota' = QuotaOfTheDay /\ direct' = direct
      \/ quota' = CommitQuota(quota, n) /\ direct' = direct
      \/ quota' = ReleaseQuota(quota, n) /\ direct' = direct - n
  BY DEF ApiReserve, ApiCommit, ApiRelease, others
<1>4. /\ direct' \in Int /\ Booked(quota') - direct' = Booked(quota) - direct
      /\ quota'.version # 0
  BY <1>2, <1>3, QuotaSums
<1> QED BY <1>1, <1>4, NoRowMoves, PaidByOthers

LEMMA PaidStep == PaidInv /\ [Next]_vars => PaidInv'
<1> SUFFICES ASSUME PaidInv, [Next]_vars PROVE PaidInv'
  OBVIOUS
<1>1. DeclInv'
  BY DeclStep DEF PaidInv
<1>2. ASSUME NEW c \in Client, Submit(c) \/ Edit(c) PROVE PaidInv'
  BY <1>1, <1>2, SubmitPaid, EditPaid
<1>3. ASSUME NEW c \in Client, Drop(c) PROVE PaidInv'
  BY <1>1, <1>3, NoRowMoves, PaidAtEnd DEF Drop, Abandon, tables, others
<1>4. CASE UNCHANGED <<declarations, quota, direct, call>>
  BY <1>1, <1>4, NoRowMoves, PaidUnmoved
<1>5. CASE AdvanceWrite
  BY <1>1, <1>5, AdvancePaid
<1>6. ASSUME NEW n \in Amount, ApiReserve(n) \/ ApiCommit(n) \/ ApiRelease(n) PROVE PaidInv'
  BY <1>1, <1>6, ApiPaid
<1>7. CASE \/ AdvanceList \/ AdvanceFails \/ PostHandover
           \/ \E k \in Key : Expire(k)
           \/ \E p \in Party : DecideHandover(p)
           \/ UNCHANGED vars
  BY <1>4, <1>7 DEF AdvanceList, AdvanceFails, Expire, PostHandover, DecideHandover, tables, vars
<1> QED BY <1>2, <1>3, <1>5, <1>6, <1>7 DEF Next

-----------------------------------------------------------------------------
(* The theorem. *)

\* Submit reserves before it inserts and gives back only what no row holds:
\* whatever fails, is dropped or races, the row of the day covers every
\* declaration and every submission that may still become one, beside the
\* balance of the quota API's clients.  Only a release they had no reservation
\* for (nothing checks whose it is) uncovers a declaration, by no more than it
\* released.
THEOREM QuotaCoversDeclarations == Spec => []DeclarationsPaid
<1>1. PaidInv => DeclarationsPaid
  BY DEF PaidInv, DeclarationsPaid, VolumeSum, MapThenSumSet, MapThenFoldSet
<1> QED BY <1>1, InitPaid, PaidStep, PTL DEF Spec
=============================================================================
