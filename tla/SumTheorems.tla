----------------------------- MODULE SumTheorems -----------------------------
(***************************************************************************)
(* Sums over a finite set: MapThenSumSet of FiniteSetsExt adds up a        *)
(* function in the order in which CHOOSE takes the elements.  The facts    *)
(* about it are proved by induction on the size of a subset, in a form of  *)
(* induction that speaks of a set of numbers.                              *)
(***************************************************************************)
EXTENDS Integers, FiniteSetsExt, FiniteSetTheorems, WellFoundedInduction, TLAPS

Total(f, S) == MapThenSumSet(LAMBDA n : f[n], S)

(* The partial sums of f, one for each subset of S.                        *)
Taken(s) == CHOOSE x \in s : TRUE
Partial(f, S, sum) ==
    sum = [s \in SUBSET S |-> IF s = {} THEN 0
                              ELSE LET x == CHOOSE y \in s : TRUE
                                   IN  f[x] + sum[s \ {x}]]
Sums(f, S) == CHOOSE sum : Partial(f, S, sum)

(* Induction over the naturals, for a set in place of a predicate.         *)
LEMMA NatSetInduction ==
  ASSUME NEW S, 0 \in S, \A n \in Nat : n \in S => n + 1 \in S
  PROVE  Nat \subseteq S
<1> DEFINE T == Nat \ S
           R == OpToRel(<, Nat)
<1> SUFFICES ASSUME T # {}  PROVE  FALSE
  OBVIOUS
<1>1. IsWellFoundedOn(R, Nat)
  BY NatLessThanWellFounded
<1>2. PICK x \in T : \A y \in T : ~(<<y, x>> \in R)
  <2> HIDE DEF R
  <2> QED BY <1>1, WFMin, T \subseteq Nat
<1>3. \A y \in Nat : y < x => <<y, x>> \in R
  BY DEF OpToRel
<1>4. x # 0 /\ x - 1 \in Nat /\ x - 1 < x
  OBVIOUS
<1>5. x - 1 \in S
  BY <1>2, <1>3, <1>4
<1> QED BY <1>4, <1>5

(* Induction over the subsets of a finite set.                             *)
LEMMA SubsetInduction ==
  ASSUME NEW S, IsFiniteSet(S), NEW Q, {} \in Q,
         \A s \in SUBSET S : s # {} /\ s \ {Taken(s)} \in Q => s \in Q
  PROVE  SUBSET S \subseteq Q
<1> DEFINE K == {k \in Nat : \A s \in SUBSET S : Cardinality(s) = k => s \in Q}
<1>1. \A s \in SUBSET S : IsFiniteSet(s) /\ Cardinality(s) \in Nat
  BY FS_Subset, FS_CardinalityType
<1>2. 0 \in K
  BY <1>1, FS_EmptySet
<1>3. ASSUME NEW k \in Nat, k \in K  PROVE  k + 1 \in K
  <2> SUFFICES ASSUME NEW s \in SUBSET S, Cardinality(s) = k + 1  PROVE  s \in Q
    OBVIOUS
  <2>1. s # {}
    BY <1>1, FS_EmptySet
  <2>2. Taken(s) \in s
    BY <2>1 DEF Taken
  <2>3. Cardinality(s \ {Taken(s)}) = k
    BY <1>1, <2>2, FS_RemoveElement
  <2>4. s \ {Taken(s)} \in Q
    BY <1>3, <2>3
  <2> QED BY <2>1, <2>4
<1>4. Nat \subseteq K
  <2> HIDE DEF K
  <2> QED BY <1>2, <1>3, NatSetInduction
<1> QED BY <1>1, <1>4

(* The partial sums exist: they are made up to a size, and then to the next. *)
LEMMA SumsExist ==
  ASSUME NEW S, IsFiniteSet(S), NEW f
  PROVE  \E sum : Partial(f, S, sum)
<1> DEFINE Next(g, s) == IF s = {} THEN 0 ELSE f[Taken(s)] + g[s \ {Taken(s)}]
           Upto(g, k) == \A s \in SUBSET S : Cardinality(s) =< k => g[s] = Next(g, s)
           K == {k \in Nat : \E g : Upto(g, k)}
<1>1. \A s \in SUBSET S : IsFiniteSet(s) /\ Cardinality(s) \in Nat /\ Cardinality(s) =< Cardinality(S)
  BY FS_Subset, FS_CardinalityType
<1>2. \A s \in SUBSET S : s # {} => /\ s \ {Taken(s)} \in SUBSET S
                                    /\ Cardinality(s \ {Taken(s)}) = Cardinality(s) - 1
  <2> SUFFICES ASSUME NEW s \in SUBSET S, s # {}
               PROVE  Cardinality(s \ {Taken(s)}) = Cardinality(s) - 1
    OBVIOUS
  <2>1. Taken(s) \in s
    BY DEF Taken
  <2> QED BY <1>1, <2>1, FS_RemoveElement
<1>3. 0 \in K
  <2>1. \A s \in SUBSET S : Cardinality(s) =< 0 => s = {}
    BY <1>1, FS_EmptySet
  <2>2. Upto([s \in SUBSET S |-> 0], 0)
    BY <2>1
  <2> QED BY <2>2
<1>4. ASSUME NEW k \in Nat, k \in K  PROVE  k + 1 \in K
  <2>1. PICK g : Upto(g, k)
    BY <1>4
  <2> DEFINE h == [s \in SUBSET S |-> IF Cardinality(s) =< k THEN g[s] ELSE Next(g, s)]
  <2>2. ASSUME NEW s \in SUBSET S, Cardinality(s) =< k + 1  PROVE  h[s] = Next(h, s)
    <3>1. h[s] = Next(g, s)
      BY <2>1
    <3>2. CASE s = {}
      BY <3>1, <3>2
    <3>3. CASE s # {}
      <4>1. s \ {Taken(s)} \in SUBSET S /\ Cardinality(s \ {Taken(s)}) =< k
        BY <1>1, <1>2, <2>2, <3>3
      <4>2. h[s \ {Taken(s)}] = g[s \ {Taken(s)}]
        BY <4>1
      <4> QED BY <3>1, <4>2
    <3> QED BY <3>2, <3>3
  <2>3. Upto(h, k + 1)
    <3> HIDE DEF h
    <3> QED BY <2>2
  <2> QED
    <3> HIDE DEF Upto, h
    <3> QED BY <2>3
<1>5. Cardinality(S) \in K
  <2>1. Nat \subseteq K
    <3> HIDE DEF K
    <3> QED BY <1>3, <1>4, NatSetInduction
  <2> QED BY <1>1, <2>1
<1>6. PICK g : Upto(g, Cardinality(S))
  BY <1>5
<1>7. \A s \in SUBSET S : g[s] = Next(g, s)
  BY <1>1, <1>6
<1> DEFINE sum == [s \in SUBSET S |-> g[s]]
<1>8. Partial(f, S, sum)
  <2>1. \A s \in SUBSET S : sum[s] = Next(sum, s)
    BY <1>2, <1>7
  <2> QED BY <2>1 DEF Partial, Taken
<1> QED BY <1>8

LEMMA SumsStep ==
  ASSUME NEW S, IsFiniteSet(S), NEW f
  PROVE  \A s \in SUBSET S :
            Sums(f, S)[s] = IF s = {} THEN 0 ELSE f[Taken(s)] + Sums(f, S)[s \ {Taken(s)}]
<1>1. Partial(f, S, Sums(f, S))
  BY SumsExist DEF Sums
<1> QED BY <1>1 DEF Partial, Taken

LEMMA TotalSums ==
  ASSUME NEW S, NEW f
  PROVE  Total(f, S) = Sums(f, S)[S]
BY DEF Total, Sums, Partial, MapThenSumSet, MapThenFoldSet

(* The sum of natural numbers is one.                                      *)
THEOREM TotalNat ==
  ASSUME NEW S, IsFiniteSet(S), NEW f, \A n \in S : f[n] \in Nat
  PROVE  Total(f, S) \in Nat
<1> DEFINE Q == {s \in SUBSET S : Sums(f, S)[s] \in Nat}
<1>1. {} \in Q
  BY SumsStep
<1>2. ASSUME NEW s \in SUBSET S, s # {}, s \ {Taken(s)} \in Q  PROVE  s \in Q
  BY <1>2, SumsStep DEF Taken
<1>3. SUBSET S \subseteq Q
  <2> HIDE DEF Q
  <2> QED BY <1>1, <1>2, SubsetInduction
<1> QED BY <1>3, TotalSums

(* If every number of one sum is at most its fellow in another, but for one *)
(* of them, then so are the sums, with the difference of that one: how a    *)
(* step that changes the counter or the baseline of one node changes what   *)
(* all nodes owe.                                                           *)
THEOREM TotalChange ==
  ASSUME NEW S, IsFiniteSet(S), NEW f, NEW g, NEW m, NEW d \in Int,
         \A n \in S : f[n] \in Int /\ g[n] \in Int,
         \A n \in S : n # m => g[n] =< f[n],
         m \in S => g[m] + d =< f[m],
         m \in S \/ d =< 0
  PROVE  Total(g, S) + d =< Total(f, S)
<1> DEFINE Gap(s) == IF m \in s THEN d ELSE 0
           Q == {s \in SUBSET S : /\ Sums(f, S)[s] \in Int /\ Sums(g, S)[s] \in Int
                                  /\ Sums(g, S)[s] + Gap(s) =< Sums(f, S)[s]}
<1>1. {} \in Q
  <2>1. Sums(f, S)[{}] = 0 /\ Sums(g, S)[{}] = 0
    BY SumsStep
  <2> QED BY <2>1
<1>2. ASSUME NEW s \in SUBSET S, s # {}, s \ {Taken(s)} \in Q  PROVE  s \in Q
  <2> DEFINE x == Taken(s)
             r == s \ {x}
  <2>1. x \in s /\ x \in S
    BY <1>2 DEF Taken
  <2>2. Sums(f, S)[s] = f[x] + Sums(f, S)[r] /\ Sums(g, S)[s] = g[x] + Sums(g, S)[r]
    BY <1>2, SumsStep
  <2>3. /\ Sums(f, S)[r] \in Int /\ Sums(g, S)[r] \in Int
        /\ Sums(g, S)[r] + Gap(r) =< Sums(f, S)[r]
    BY <1>2
  <2>4. Gap(s) \in Int /\ Gap(r) \in Int
    OBVIOUS
  <2>5. g[x] + (Gap(s) - Gap(r)) =< f[x]
    BY <2>1
  <2>6. f[x] \in Int /\ g[x] \in Int
    BY <2>1
  <2>7. Sums(g, S)[s] + Gap(s) =< Sums(f, S)[s] /\ Sums(f, S)[s] \in Int /\ Sums(g, S)[s] \in Int
    <3> HIDE DEF x, r, Gap
    <3> QED BY <2>2, <2>3, <2>4, <2>5, <2>6
  <2> QED BY <2>7
<1>3. SUBSET S \subseteq Q
  <2> HIDE DEF Q
  <2> QED BY <1>1, <1>2, SubsetInduction
<1>4. Sums(g, S)[S] + Gap(S) =< Sums(f, S)[S] /\ Sums(f, S)[S] \in Int /\ Sums(g, S)[S] \in Int
  BY <1>3
<1> QED BY <1>4, TotalSums
=============================================================================
