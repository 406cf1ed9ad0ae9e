---------------------------- MODULE FiniteFacts ----------------------------
(***************************************************************************)
(* Facts about finite sets that the proofs of the components need: an      *)
(* induction over subsets, what sums over finite sets are, and that who    *)
(* waits for one another in a finite set waits in a cycle.                 *)
(*                                                                         *)
(* SumFunctionOnSet is a fold whose order nobody knows.  Here it is shown  *)
(* to count the units of its summands, so that what a sum does when its    *)
(* set or its summands change follows from sets of units.                  *)
(***************************************************************************)
EXTENDS FiniteSetsExt, FiniteSetTheorems, WellFoundedInduction, TLAPS

(* Proper subsets of a finite set do not descend for ever.                 *)
LEMMA SubsetsAreWellFounded ==
    ASSUME NEW S, IsFiniteSet(S)
    PROVE  IsWellFoundedOn(StrictSubsetOrdering(S), SUBSET S)
  <1>1. FiniteSubsetsOf(S) = SUBSET S
    BY FS_FiniteSubsetsOfFinite
  <1>2. IsWellFoundedOn(StrictSubsetOrdering(S), FiniteSubsetsOf(S))
    BY FS_StrictSubsetOrderingWellFounded
  <1> QED
    BY <1>1, <1>2

(* Induction over the subsets of a finite set.  The property is given by   *)
(* the set G of the sets that have it, so that a use is an instance of     *)
(* first-order logic.                                                      *)
LEMMA SubsetInduction ==
    ASSUME NEW S, IsFiniteSet(S), NEW G, {} \in G,
           \A T \in SUBSET S : T # {} /\ (\A x \in T : T \ {x} \in G) => T \in G
    PROVE  S \in G
  <1> DEFINE bad == {T \in SUBSET S : T \notin G}
  <1> SUFFICES ASSUME bad # {} PROVE FALSE
    OBVIOUS
  <1>1. IsWellFoundedOn(StrictSubsetOrdering(S), SUBSET S)
    BY SubsetsAreWellFounded
  <1>2. PICK T \in bad : \A U \in bad : <<U, T>> \notin StrictSubsetOrdering(S)
    <2> bad \subseteq SUBSET S
      OBVIOUS
    <2> HIDE DEF bad
    <2> QED
      BY <1>1, WFMin
  <1>3. ASSUME NEW x \in T
        PROVE  T \ {x} \in G
    <2>1. <<T \ {x}, T>> \in StrictSubsetOrdering(S)
      BY DEF StrictSubsetOrdering
    <2> QED
      BY <1>2, <2>1
  <1> QED
    BY <1>3

(* If everybody in a finite set has a successor there, some of them are    *)
(* each other's successors: a smallest set that is closed.                 *)
THEOREM CycleExists ==
    ASSUME NEW S, IsFiniteSet(S), S # {}, NEW next \in [S -> S]
    PROVE  \E T \in SUBSET S :
             /\ T # {}
             /\ \A x \in T : next[x] \in T
             /\ \A y \in T : \E x \in T : next[x] = y
  <1> DEFINE closed == {T \in SUBSET S : T # {} /\ \A x \in T : next[x] \in T}
  <1>1. IsWellFoundedOn(StrictSubsetOrdering(S), SUBSET S)
    BY SubsetsAreWellFounded
  <1>2. closed \subseteq SUBSET S /\ closed # {}
    OBVIOUS
  <1>3. PICK T \in closed : \A U \in closed : <<U, T>> \notin StrictSubsetOrdering(S)
    <2> HIDE DEF closed
    <2> QED
      BY <1>1, <1>2, WFMin
  <1> DEFINE image == {next[x] : x \in T}
  <1>4. image \in closed /\ image \subseteq T
    OBVIOUS
  <1>5. <<image, T>> \notin StrictSubsetOrdering(S)
    BY <1>3, <1>4
  <1>6. image = T
    BY <1>3, <1>4, <1>5 DEF StrictSubsetOrdering
  <1> QED
    BY <1>3, <1>6

-----------------------------------------------------------------------------
(* The units of the summands of f over S: f[x] of them for each x.         *)
Units(f, S) == UNION {{x} \X (1..f[x]) : x \in S}

(* Units are finite in number, and one summand adds as many as it is.      *)
LEMMA UnitsOfOne ==
    ASSUME NEW x, NEW n \in Nat
    PROVE  /\ IsFiniteSet({x} \X (1..n))
           /\ Cardinality({x} \X (1..n)) = n
  <1>1. IsFiniteSet(1..n) /\ Cardinality(1..n) = n
    BY FS_Interval
  <1>2. IsFiniteSet({x}) /\ Cardinality({x}) = 1
    BY FS_Singleton
  <1>3. /\ IsFiniteSet({x} \X (1..n))
        /\ Cardinality({x} \X (1..n)) = 1 * n
    <2> DEFINE I == 1..n
    <2> HIDE DEF I
    <2> SUFFICES /\ IsFiniteSet({x} \X I)
                 /\ Cardinality({x} \X I) = Cardinality({x}) * Cardinality(I)
      BY <1>1, <1>2 DEF I
    <2>1. IsFiniteSet(I)
      BY <1>1 DEF I
    <2> QED
      BY <1>2, <2>1, FS_Product
  <1> QED
    BY <1>3

LEMMA UnitsOfMore ==
    ASSUME NEW f, NEW S, NEW x \in S, f[x] \in Nat, IsFiniteSet(Units(f, S \ {x}))
    PROVE  /\ IsFiniteSet(Units(f, S))
           /\ Cardinality(Units(f, S)) = f[x] + Cardinality(Units(f, S \ {x}))
  <1> DEFINE one == {x} \X (1..f[x])
             rest == Units(f, S \ {x})
  <1>1. Units(f, S) = one \cup rest
    BY DEF Units
  <1>2. one \cap rest = {}
    BY DEF Units
  <1>3. IsFiniteSet(one) /\ Cardinality(one) = f[x]
    BY UnitsOfOne
  <1>4. IsFiniteSet(rest) /\ Cardinality(rest) \in Nat
    BY FS_CardinalityType
  <1> HIDE DEF one, rest
  <1>5. /\ IsFiniteSet(one \cup rest)
        /\ Cardinality(one \cup rest) =
             Cardinality(one) + Cardinality(rest) - Cardinality(one \cap rest)
    BY <1>3, <1>4, FS_Union
  <1>6. Cardinality(one \cap rest) = 0
    BY <1>2, FS_EmptySet
  <1>7. Cardinality(one \cup rest) = f[x] + Cardinality(rest)
    BY <1>3, <1>4, <1>5, <1>6
  <1> QED
    BY <1>1, <1>5, <1>7 DEF rest

LEMMA UnitsAreFinite ==
    ASSUME NEW f, NEW S, IsFiniteSet(S), \A x \in S : f[x] \in Nat
    PROVE  IsFiniteSet(Units(f, S))
  <1> DEFINE G == {T \in SUBSET S : IsFiniteSet(Units(f, T))}
  <1>1. {} \in G
    <2>1. Units(f, {}) = {}
      BY DEF Units
    <2> QED
      BY <2>1, FS_EmptySet
  <1>2. ASSUME NEW T \in SUBSET S, T # {}, \A x \in T : T \ {x} \in G
        PROVE  T \in G
    BY <1>2, UnitsOfMore
  <1>3. S \in G
    <2> HIDE DEF G
    <2> QED
      BY <1>1, <1>2, SubsetInduction
  <1> QED
    BY <1>3

-----------------------------------------------------------------------------
(* The function that the fold computes on every subset of S.               *)
Pick(s) == CHOOSE x \in s : TRUE
FoldOf(f, S) ==
    CHOOSE fold : fold = [s \in SUBSET S |->
                            IF s = {} THEN 0 ELSE f[Pick(s)] + fold[s \ {Pick(s)}]]

(* A recursive definition means what it says when some function satisfies  *)
(* it, and the number of units does.                                       *)
LEMMA FoldIsDefined ==
    ASSUME NEW f, NEW S, IsFiniteSet(S), \A x \in S : f[x] \in Nat
    PROVE  \A s \in SUBSET S : FoldOf(f, S)[s] =
             IF s = {} THEN 0 ELSE f[Pick(s)] + FoldOf(f, S)[s \ {Pick(s)}]
  <1> DEFINE count == [s \in SUBSET S |-> Cardinality(Units(f, s))]
  <1>1. ASSUME NEW s \in SUBSET S
        PROVE  count[s] = IF s = {} THEN 0 ELSE f[Pick(s)] + count[s \ {Pick(s)}]
    <2>1. CASE s = {}
      <3>1. Units(f, s) = {}
        BY <2>1 DEF Units
      <3> QED
        BY <2>1, <3>1, FS_EmptySet
    <2>2. CASE s # {}
      <3>1. Pick(s) \in s
        BY <2>2 DEF Pick
      <3>2. IsFiniteSet(s \ {Pick(s)})
        BY FS_Subset
      <3>3. IsFiniteSet(Units(f, s \ {Pick(s)}))
        BY <3>2, UnitsAreFinite
      <3>4. Cardinality(Units(f, s)) = f[Pick(s)] + Cardinality(Units(f, s \ {Pick(s)}))
        BY <3>1, <3>3, UnitsOfMore
      <3> QED
        BY <2>2, <3>4
    <2> QED
      BY <2>1, <2>2
  <1>2. count = [s \in SUBSET S |->
                   IF s = {} THEN 0 ELSE f[Pick(s)] + count[s \ {Pick(s)}]]
    BY <1>1, Zenon
  <1> HIDE DEF count
  <1>3. FoldOf(f, S) = [s \in SUBSET S |->
          IF s = {} THEN 0 ELSE f[Pick(s)] + FoldOf(f, S)[s \ {Pick(s)}]]
    BY <1>2, Zenon DEF FoldOf
  <1> QED
    BY <1>3, Zenon

(* The fold counts the units.                                              *)
THEOREM SumCountsUnits ==
    ASSUME NEW f, NEW S, IsFiniteSet(S), \A x \in S : f[x] \in Nat
    PROVE  SumFunctionOnSet(f, S) = Cardinality(Units(f, S))
  <1> DEFINE G == {T \in SUBSET S : FoldOf(f, S)[T] = Cardinality(Units(f, T))}
  <1>1. \A T \in SUBSET S : FoldOf(f, S)[T] =
          IF T = {} THEN 0 ELSE f[Pick(T)] + FoldOf(f, S)[T \ {Pick(T)}]
    BY FoldIsDefined
  <1>2. {} \in G
    <2>1. Units(f, {}) = {}
      BY DEF Units
    <2> QED
      BY <1>1, <2>1, FS_EmptySet
  <1>3. ASSUME NEW T \in SUBSET S, T # {}, \A x \in T : T \ {x} \in G
        PROVE  T \in G
    <2>1. Pick(T) \in T
      BY <1>3 DEF Pick
    <2>2. FoldOf(f, S)[T] = f[Pick(T)] + Cardinality(Units(f, T \ {Pick(T)}))
      BY <1>1, <1>3, <2>1
    <2>3. IsFiniteSet(Units(f, T \ {Pick(T)}))
      <3>1. IsFiniteSet(T \ {Pick(T)})
        BY FS_Subset
      <3> QED
        BY <3>1, UnitsAreFinite
    <2> QED
      BY <2>1, <2>2, <2>3, UnitsOfMore
  <1>4. S \in G
    <2> HIDE DEF G
    <2> QED
      BY <1>2, <1>3, SubsetInduction
  <1>5. SumFunctionOnSet(f, S) = FoldOf(f, S)[S]
    BY DEF SumFunctionOnSet, FoldFunctionOnSet, MapThenFoldSet, FoldOf, Pick
  <1> QED
    BY <1>4, <1>5

(* What follows for sums: they are natural numbers, the empty one is zero, *)
(* another summand adds what it is, and nothing but the summands matters.  *)
LEMMA SumType ==
    ASSUME NEW f, NEW S, IsFiniteSet(S), \A x \in S : f[x] \in Nat
    PROVE  SumFunctionOnSet(f, S) \in Nat
  BY SumCountsUnits, UnitsAreFinite, FS_CardinalityType

LEMMA SumOfNothing ==
    ASSUME NEW f
    PROVE  SumFunctionOnSet(f, {}) = 0
  <1>1. Units(f, {}) = {}
    BY DEF Units
  <1> QED
    BY <1>1, SumCountsUnits, FS_EmptySet

LEMMA SumOfOneMore ==
    ASSUME NEW f, NEW S, IsFiniteSet(S), NEW x, x \notin S,
           \A y \in S \cup {x} : f[y] \in Nat
    PROVE  SumFunctionOnSet(f, S \cup {x}) = f[x] + SumFunctionOnSet(f, S)
  <1> DEFINE T == S \cup {x}
  <1>1. IsFiniteSet(T) /\ T \ {x} = S /\ x \in T
    BY FS_AddElement
  <1>2. \A y \in T : f[y] \in Nat
    OBVIOUS
  <1> HIDE DEF T
  <1>3. IsFiniteSet(Units(f, S))
    BY <1>1, <1>2, UnitsAreFinite
  <1>4. Cardinality(Units(f, T)) = f[x] + Cardinality(Units(f, S))
    BY <1>1, <1>2, <1>3, UnitsOfMore
  <1>5. SumFunctionOnSet(f, T) = f[x] + SumFunctionOnSet(f, S)
    BY <1>1, <1>2, <1>4, SumCountsUnits
  <1> QED
    BY <1>5 DEF T

(* Two sums are equal when they agree on what they share and everything    *)
(* else they sum is zero.                                                  *)
LEMMA SumsAgree ==
    ASSUME NEW f, NEW S, IsFiniteSet(S), \A x \in S : f[x] \in Nat,
           NEW g, NEW T, IsFiniteSet(T), \A x \in T : g[x] \in Nat,
           \A x \in S \cap T : f[x] = g[x],
           \A x \in S \ T : f[x] = 0,
           \A x \in T \ S : g[x] = 0
    PROVE  SumFunctionOnSet(f, S) = SumFunctionOnSet(g, T)
  <1>1. Units(f, S) = Units(g, T)
    BY DEF Units
  <1> QED
    BY <1>1, SumCountsUnits
=============================================================================
