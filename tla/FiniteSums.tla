----------------------------- MODULE FiniteSums ------------------------------
(***************************************************************************)
(* Lemmas that the proofs about counting share. Induction over the         *)
(* naturals and over the subsets of a finite set is done with a set in the *)
(* place of the induction predicate (InductiveSet, SubsetInduction), from  *)
(* the fact that a set of naturals has a least element. On it rest the     *)
(* facts about sums over finite sets: a sum does not depend on the order   *)
(* in which CHOOSE takes the set apart.                                    *)
(***************************************************************************)
EXTENDS Integers, FiniteSets, Functions, FiniteSetTheorems, WellFoundedInduction, TLAPS

\* A set of naturals that is not empty has a least element.
LEMMA LeastElement ==
    ASSUME NEW S \in SUBSET Nat, S # {}
    PROVE  \E m \in S : \A k \in S : m <= k
  <1> DEFINE Init == {0 .. (n-1) : n \in S}
             R == StrictSubsetOrdering(Nat)
  <1>1. Init \subseteq FiniteSubsetsOf(Nat)
    <2>1. ASSUME NEW n \in S PROVE 0 .. (n-1) \in FiniteSubsetsOf(Nat)
      <3>1. n-1 \in Int /\ 0 .. (n-1) \subseteq Nat OBVIOUS
      <3>2. IsFiniteSet(0 .. (n-1)) BY <3>1, FS_Interval
      <3> QED BY <3>1, <3>2 DEF FiniteSubsetsOf
    <2> QED BY <2>1
  <1>2. Init # {} OBVIOUS
  <1>3. IsWellFoundedOn(R, FiniteSubsetsOf(Nat))
    BY FS_StrictSubsetOrderingWellFounded
  <1>4. \E x \in Init : \A y \in Init : ~(<<y, x>> \in R)
    <2> HIDE DEF R, Init
    <2> QED BY <1>1, <1>2, <1>3, WFMin
  <1>5. PICK m \in S : \A k \in S : <<0 .. (k-1), 0 .. (m-1)>> \notin R
    BY <1>4
  <1>6. ASSUME NEW k \in S PROVE m <= k
    <2> SUFFICES ASSUME k < m PROVE FALSE OBVIOUS
    <2>1. 0 .. (k-1) \subseteq 0 .. (m-1) OBVIOUS
    <2>2. k \in 0 .. (m-1) /\ k \notin 0 .. (k-1) OBVIOUS
    <2>3. 0 .. (m-1) \in SUBSET Nat /\ 0 .. (k-1) \in SUBSET Nat OBVIOUS
    <2>4. 0 .. (k-1) # 0 .. (m-1) BY <2>2
    <2> DEFINE a == 0 .. (k-1)
               b == 0 .. (m-1)
    <2>5. a \in SUBSET Nat /\ b \in SUBSET Nat /\ a \subseteq b /\ a # b /\ <<a, b>> \notin R
      BY <1>5, <2>1, <2>3, <2>4
    <2> HIDE DEF a, b
    <2> QED BY <2>5 DEF StrictSubsetOrdering
  <1> QED BY <1>6

\* Induction over the naturals, for a set.
LEMMA InductiveSet ==
    ASSUME NEW S \in SUBSET Nat, 0 \in S, \A n \in S : n + 1 \in S
    PROVE  S = Nat
  <1> SUFFICES ASSUME S # Nat PROVE FALSE OBVIOUS
  <1> DEFINE T == Nat \ S
  <1>1. PICK m \in T : \A k \in T : m <= k BY LeastElement
  <1>2. m \in Nat /\ m # 0 /\ m - 1 \in Nat OBVIOUS
  <1>3. m - 1 \in S BY <1>1, <1>2
  <1> QED BY <1>2, <1>3

\* A part of a finite set that is not all of it has fewer elements.
LEMMA Smaller ==
    ASSUME NEW S, IsFiniteSet(S), NEW t \in SUBSET S, t # S
    PROVE  IsFiniteSet(t) /\ Cardinality(t) < Cardinality(S)
  <1>1. Cardinality(t) <= Cardinality(S) /\ Cardinality(t) # Cardinality(S) /\ IsFiniteSet(t)
    BY FS_Subset
  <1>2. Cardinality(t) \in Nat /\ Cardinality(S) \in Nat BY <1>1, FS_CardinalityType
  <1> QED BY <1>1, <1>2

\* Induction over the subsets of a finite set.
LEMMA SubsetInduction ==
    ASSUME NEW S, IsFiniteSet(S), NEW G,
           \A s \in SUBSET S : (\A t \in SUBSET s : t # s => t \in G) => s \in G
    PROVE  S \in G
  <1> SUFFICES ASSUME S \notin G PROVE FALSE OBVIOUS
  <1> DEFINE Bad == {s \in SUBSET S : s \notin G}
             Sizes == {Cardinality(s) : s \in Bad}
  <1>1. \A s \in SUBSET S : IsFiniteSet(s) /\ Cardinality(s) \in Nat
    BY FS_Subset, FS_CardinalityType
  <1>2. PICK n \in Sizes : \A k \in Sizes : n <= k
    <2>1. Sizes \in SUBSET Nat /\ Sizes # {} BY <1>1
    <2> HIDE DEF Sizes
    <2> QED BY <2>1, LeastElement
  <1>3. PICK s \in Bad : n = Cardinality(s) BY <1>2
  <1>4. \A t \in SUBSET s : t # s => t \in G
    <2> SUFFICES ASSUME NEW t \in SUBSET s, t # s, t \notin G PROVE FALSE OBVIOUS
    <2>1. Cardinality(t) < Cardinality(s) BY <1>1, Smaller
    <2>2. t \in Bad OBVIOUS
    <2>3. n <= Cardinality(t) BY <1>2, <2>2
    <2>4. Cardinality(t) \in Nat /\ Cardinality(s) \in Nat BY <1>1, <2>2
    <2> QED BY <1>3, <2>1, <2>3, <2>4
  <1> QED BY <1>3, <1>4

-------------------------------------------------------------------------------
(* Sums over finite sets: SumFunctionOnSet of the community modules.       *)

\* The element that CHOOSE takes out of a set first.
Pick(s) == CHOOSE x \in s : TRUE

\* g adds up fun over the subsets of S, in the order in which CHOOSE takes them.
Sums(fun, S, g) ==
    g = [s \in SUBSET S |-> IF s = {} THEN 0 ELSE fun[Pick(s)] + g[s \ {Pick(s)}]]

\* SumFunctionOnSet is that adding up, as the community modules define it.
LEMMA SumUnfolds == ASSUME NEW fun, NEW S
                    PROVE  SumFunctionOnSet(fun, S) = (CHOOSE g : Sums(fun, S, g))[S]
  BY DEF SumFunctionOnSet, FoldFunctionOnSet, MapThenFoldSet, Sums, Pick

\* It is well defined: there is a function that adds up over all subsets.
LEMMA SumsExist ==
    ASSUME NEW fun, NEW S, IsFiniteSet(S) PROVE \E g : Sums(fun, S, g)
  <1> DEFINE Small(n) == {s \in SUBSET S : Cardinality(s) <= n}
             Good(n, g) == g = [s \in Small(n) |-> IF s = {} THEN 0
                                                  ELSE fun[Pick(s)] + g[s \ {Pick(s)}]]
             T == {n \in Nat : \E g : Good(n, g)}
  <1>1. \A s \in SUBSET S : IsFiniteSet(s) /\ Cardinality(s) \in Nat
                            /\ (Cardinality(s) = 0 <=> s = {})
    BY FS_Subset, FS_CardinalityType, FS_EmptySet
  <1>2. \A n \in Nat : \A s \in Small(n + 1) : s # {} => s \ {Pick(s)} \in Small(n)
    <2> SUFFICES ASSUME NEW n \in Nat, NEW s \in Small(n + 1), s # {} PROVE s \ {Pick(s)} \in Small(n)
      OBVIOUS
    <2>1. Pick(s) \in s BY DEF Pick
    <2>2. s \ {Pick(s)} \in SUBSET s /\ s \ {Pick(s)} # s BY <2>1
    <2>3. Cardinality(s \ {Pick(s)}) < Cardinality(s) BY <1>1, <2>2, Smaller
    <2>4. Cardinality(s \ {Pick(s)}) \in Nat /\ Cardinality(s) \in Nat BY <1>1, <2>2
    <2>5. Cardinality(s \ {Pick(s)}) <= n BY <2>3, <2>4
    <2> QED BY <2>5
  <1>3. 0 \in T
    <2> DEFINE g == [s \in Small(0) |-> 0]
    <2>1. \A s \in Small(0) : s = {} BY <1>1
    <2>2. Good(0, g) BY <2>1
    <2> QED BY <2>2
  <1>4. \A n \in T : n + 1 \in T
    <2> TAKE n \in T
    <2>0. n \in Nat /\ n + 1 \in Nat /\ \E g : Good(n, g)
      <3> HIDE DEF Good
      <3> QED OBVIOUS
    <2>4. PICK g : Good(n, g) BY <2>0
    <2> DEFINE h == [s \in Small(n + 1) |-> IF s = {} THEN 0 ELSE fun[Pick(s)] + g[s \ {Pick(s)}]]
    <2>1. \A t \in Small(n) : t \in Small(n + 1) /\ h[t] = g[t]
      <3> TAKE t \in Small(n)
      <3>1. t \in Small(n + 1) BY <1>1, <2>0
      <3>2. h[t] = IF t = {} THEN 0 ELSE fun[Pick(t)] + g[t \ {Pick(t)}] BY <3>1
      <3>3. g[t] = IF t = {} THEN 0 ELSE fun[Pick(t)] + g[t \ {Pick(t)}] BY <2>4
      <3> QED BY <3>1, <3>2, <3>3
    <2>2. \A s \in Small(n + 1) : s # {} => h[s \ {Pick(s)}] = g[s \ {Pick(s)}] BY <1>2, <2>0, <2>1
    <2>3. Good(n + 1, h) BY <2>2
    <2> HIDE DEF Good, h
    <2> QED BY <2>0, <2>3
  <1>5. T = Nat
    <2>1. T \in SUBSET Nat OBVIOUS
    <2> HIDE DEF T
    <2> QED BY <1>3, <1>4, <2>1, InductiveSet
  <1>6. PICK g : Good(Cardinality(S), g) BY <1>1, <1>5
  <1>7. Small(Cardinality(S)) = SUBSET S
    <2> SUFFICES ASSUME NEW s \in SUBSET S PROVE Cardinality(s) <= Cardinality(S) OBVIOUS
    <2> QED BY FS_Subset
  <1> QED BY <1>6, <1>7 DEF Sums

\* And it does not depend on the set whose subsets it ranges over.
LEMMA SumsAgree ==
    ASSUME NEW fun, NEW S, IsFiniteSet(S), NEW t \in SUBSET S, NEW g, NEW h,
           Sums(fun, S, g), Sums(fun, t, h)
    PROVE  g[t] = h[t]
  <1> DEFINE G == {s \in SUBSET t : g[s] = h[s]}
  <1>1. IsFiniteSet(t) BY FS_Subset
  <1>2. \A s \in SUBSET t : (\A u \in SUBSET s : u # s => u \in G) => s \in G
    <2> SUFFICES ASSUME NEW s \in SUBSET t, \A u \in SUBSET s : u # s => u \in G PROVE g[s] = h[s]
      OBVIOUS
    <2>1. /\ g[s] = IF s = {} THEN 0 ELSE fun[Pick(s)] + g[s \ {Pick(s)}]
          /\ h[s] = IF s = {} THEN 0 ELSE fun[Pick(s)] + h[s \ {Pick(s)}]
      BY DEF Sums
    <2>2. s # {} => Pick(s) \in s BY DEF Pick
    <2>3. s # {} => g[s \ {Pick(s)}] = h[s \ {Pick(s)}] BY <2>2
    <2> QED BY <2>1, <2>3
  <1>3. t \in G
    <2> HIDE DEF G
    <2> QED BY <1>1, <1>2, SubsetInduction
  <1> QED BY <1>3

\* SumFunctionOnSet takes its set apart as CHOOSE picks.
LEMMA SumStep ==
    ASSUME NEW fun, NEW S, IsFiniteSet(S)
    PROVE  SumFunctionOnSet(fun, S)
             = IF S = {} THEN 0 ELSE fun[Pick(S)] + SumFunctionOnSet(fun, S \ {Pick(S)})
  <1>1. PICK g : Sums(fun, S, g) /\ SumFunctionOnSet(fun, S) = g[S]
    BY SumsExist, SumUnfolds
  <1>2. g[S] = IF S = {} THEN 0 ELSE fun[Pick(S)] + g[S \ {Pick(S)}] BY <1>1 DEF Sums
  <1> DEFINE t == S \ {Pick(S)}
  <1>3. t \in SUBSET S /\ IsFiniteSet(t) BY FS_Subset
  <1> HIDE DEF t
  <1>4. PICK h : Sums(fun, t, h) /\ SumFunctionOnSet(fun, t) = h[t]
    BY <1>3, SumsExist, SumUnfolds
  <1>5. g[t] = h[t] BY <1>1, <1>3, <1>4, SumsAgree
  <1> QED BY <1>1, <1>2, <1>4, <1>5 DEF t

\* Sums of naturals are naturals.
LEMMA SumIsNat ==
    ASSUME NEW fun, NEW S, IsFiniteSet(S), \A x \in S : fun[x] \in Nat
    PROVE  SumFunctionOnSet(fun, S) \in Nat
  <1> DEFINE G == {s \in SUBSET S : SumFunctionOnSet(fun, s) \in Nat}
  <1>1. \A s \in SUBSET S : (\A t \in SUBSET s : t # s => t \in G) => s \in G
    <2> SUFFICES ASSUME NEW s \in SUBSET S, \A t \in SUBSET s : t # s => t \in G
                 PROVE  SumFunctionOnSet(fun, s) \in Nat
      OBVIOUS
    <2>1. IsFiniteSet(s) BY FS_Subset
    <2>2. SumFunctionOnSet(fun, s)
             = IF s = {} THEN 0 ELSE fun[Pick(s)] + SumFunctionOnSet(fun, s \ {Pick(s)})
      BY <2>1, SumStep
    <2>3. s # {} => Pick(s) \in s BY DEF Pick
    <2>4. s # {} => s \ {Pick(s)} \in G BY <2>3
    <2> QED BY <2>2, <2>3, <2>4
  <1>2. S \in G
    <2> HIDE DEF G
    <2> QED BY <1>1, SubsetInduction
  <1> QED BY <1>2

\* Functions that agree on a set have the same sum over it.
LEMMA SumAgrees ==
    ASSUME NEW fun, NEW hun, NEW S, IsFiniteSet(S), \A x \in S : fun[x] = hun[x]
    PROVE  SumFunctionOnSet(fun, S) = SumFunctionOnSet(hun, S)
  <1> DEFINE G == {s \in SUBSET S : SumFunctionOnSet(fun, s) = SumFunctionOnSet(hun, s)}
  <1>1. \A s \in SUBSET S : (\A t \in SUBSET s : t # s => t \in G) => s \in G
    <2> SUFFICES ASSUME NEW s \in SUBSET S, \A t \in SUBSET s : t # s => t \in G
                 PROVE  SumFunctionOnSet(fun, s) = SumFunctionOnSet(hun, s)
      OBVIOUS
    <2>1. IsFiniteSet(s) BY FS_Subset
    <2>2. SumFunctionOnSet(fun, s)
             = IF s = {} THEN 0 ELSE fun[Pick(s)] + SumFunctionOnSet(fun, s \ {Pick(s)})
      BY <2>1, SumStep
    <2>5. SumFunctionOnSet(hun, s)
             = IF s = {} THEN 0 ELSE hun[Pick(s)] + SumFunctionOnSet(hun, s \ {Pick(s)})
      BY <2>1, SumStep
    <2>3. s # {} => Pick(s) \in s BY DEF Pick
    <2>4. s # {} => s \ {Pick(s)} \in G BY <2>3
    <2> QED BY <2>2, <2>3, <2>4, <2>5
  <1>2. S \in G
    <2> HIDE DEF G
    <2> QED BY <1>1, SubsetInduction
  <1> QED BY <1>2

\* The order does not matter: any member may be taken out first.
LEMMA SumTakesOut ==
    ASSUME NEW fun, NEW S, IsFiniteSet(S), \A x \in S : fun[x] \in Nat, NEW a \in S
    PROVE  SumFunctionOnSet(fun, S) = fun[a] + SumFunctionOnSet(fun, S \ {a})
  <1> DEFINE Out(s) == \A x \in s : SumFunctionOnSet(fun, s) = fun[x] + SumFunctionOnSet(fun, s \ {x})
             G == {s \in SUBSET S : Out(s)}
  <1>1. \A s \in SUBSET S : (\A t \in SUBSET s : t # s => t \in G) => s \in G
    <2> SUFFICES ASSUME NEW s \in SUBSET S, \A t \in SUBSET s : t # s => t \in G, NEW x \in s
                 PROVE  SumFunctionOnSet(fun, s) = fun[x] + SumFunctionOnSet(fun, s \ {x})
      OBVIOUS
    <2> DEFINE p == Pick(s)
    <2>1. IsFiniteSet(s) BY FS_Subset
    <2>2. p \in s BY DEF Pick
    <2>3. SumFunctionOnSet(fun, s) = fun[p] + SumFunctionOnSet(fun, s \ {p}) BY <2>1, <2>2, SumStep
    <2> HIDE DEF p
    <2>4. CASE x = p BY <2>3, <2>4
    <2>5. CASE x # p
      <3> DEFINE u == s \ {p}
                 v == s \ {x}
                 w == (s \ {p}) \ {x}
      <3>1. u \in G /\ v \in G /\ x \in u /\ p \in v /\ v \ {p} = w /\ u \ {x} = w /\ w \in SUBSET S
        BY <2>2, <2>5
      <3>2. SumFunctionOnSet(fun, u) = fun[x] + SumFunctionOnSet(fun, w) BY <3>1
      <3>3. SumFunctionOnSet(fun, v) = fun[p] + SumFunctionOnSet(fun, w) BY <3>1
      <3>4. SumFunctionOnSet(fun, w) \in Nat
        <4>1. IsFiniteSet(w) /\ \A y \in w : fun[y] \in Nat BY <3>1, FS_Subset
        <4> HIDE DEF w
        <4> QED BY <4>1, SumIsNat
      <3>5. fun[x] \in Nat /\ fun[p] \in Nat BY <2>2
      <3> HIDE DEF u, w, v
      <3>6. SumFunctionOnSet(fun, s) = fun[p] + (fun[x] + SumFunctionOnSet(fun, w)) BY <2>3, <3>2 DEF u
      <3>7. SumFunctionOnSet(fun, s) = fun[x] + (fun[p] + SumFunctionOnSet(fun, w)) BY <3>4, <3>5, <3>6
      <3>8. SumFunctionOnSet(fun, s) = fun[x] + SumFunctionOnSet(fun, v) BY <3>3, <3>7
      <3> QED BY <3>8 DEF v
    <2> QED BY <2>4, <2>5
  <1>2. S \in G
    <2> HIDE DEF G
    <2> QED BY <1>1, SubsetInduction
  <1> QED BY <1>2

\* Changing a function at one element changes its sum by as much.
LEMMA SumChanges ==
    ASSUME NEW fun, NEW hun, NEW S, IsFiniteSet(S),
           \A x \in S : fun[x] \in Nat /\ hun[x] \in Nat,
           NEW a \in S, \A x \in S : x # a => hun[x] = fun[x]
    PROVE  SumFunctionOnSet(hun, S) + fun[a] = SumFunctionOnSet(fun, S) + hun[a]
  <1> DEFINE T == S \ {a}
  <1>1. IsFiniteSet(T) /\ \A x \in T : fun[x] \in Nat /\ hun[x] = fun[x] BY FS_Subset
  <1>2. SumFunctionOnSet(fun, T) = SumFunctionOnSet(hun, T) /\ SumFunctionOnSet(fun, T) \in Nat
    <2> HIDE DEF T
    <2> QED BY <1>1, SumAgrees, SumIsNat
  <1>3. SumFunctionOnSet(fun, S) = fun[a] + SumFunctionOnSet(fun, T) BY SumTakesOut
  <1>4. SumFunctionOnSet(hun, S) = hun[a] + SumFunctionOnSet(hun, T) BY SumTakesOut
  <1>5. fun[a] \in Nat /\ hun[a] \in Nat OBVIOUS
  <1> QED BY <1>2, <1>3, <1>4, <1>5

\* Another element adds its value to the sum.
LEMMA SumAdds ==
    ASSUME NEW fun, NEW S, IsFiniteSet(S), \A x \in S : fun[x] \in Nat,
           NEW a, a \notin S, fun[a] \in Nat
    PROVE  SumFunctionOnSet(fun, S \cup {a}) = fun[a] + SumFunctionOnSet(fun, S)
  <1> DEFINE T == S \cup {a}
  <1>1. IsFiniteSet(T) /\ a \in T /\ T \ {a} = S /\ \A x \in T : fun[x] \in Nat
    BY FS_AddElement
  <1> HIDE DEF T
  <1>2. SumFunctionOnSet(fun, T) = fun[a] + SumFunctionOnSet(fun, T \ {a}) BY <1>1, SumTakesOut
  <1> QED BY <1>1, <1>2 DEF T
===============================================================================
