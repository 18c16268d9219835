----------------------------- MODULE FiniteSums -----------------------------
(***************************************************************************)
(* Lemmas about SumFunctionOnSet, the sum the window, the metrics and the  *)
(* preset counts are made of: that the recursive function behind it exists *)
(* over every finite set, and from that what happens to a sum when one     *)
(* element is taken out, changed, or when the elements are named anew.     *)
(*                                                                         *)
(* The induction theorems of the library take the statement to prove as an *)
(* operator.  Here it is a set, the set of the subsets it holds for, and   *)
(* the induction is the least element of a set of sets, or of numbers.     *)
(***************************************************************************)
EXTENDS Integers, FiniteSetTheorems, Folds, TLAPS

(* A set of subsets of a finite set, unless it is empty, has one that none *)
(* of the others is a part of. *)
LEMMA LeastSubset ==
    ASSUME NEW S, IsFiniteSet(S), NEW Family \in SUBSET (SUBSET S), Family # {}
    PROVE  \E least \in Family : \A T \in Family : T \subseteq least => T = least
<1>1. IsWellFoundedOn(StrictSubsetOrdering(S), FiniteSubsetsOf(S))
  BY FS_StrictSubsetOrderingWellFounded
<1>2. Family \subseteq FiniteSubsetsOf(S)
  BY FS_Subset DEF FiniteSubsetsOf
<1>3. PICK least \in Family : \A T \in Family : ~(<<T, least>> \in StrictSubsetOrdering(S))
  <2> HIDE DEF StrictSubsetOrdering, FiniteSubsetsOf, IsWellFoundedOn
  <2> QED  BY <1>1, <1>2, WFMin
<1> QED  BY <1>3 DEF StrictSubsetOrdering

(* A set of natural numbers, unless it is empty, has a least one. *)
LEMMA LeastNumber ==
    ASSUME NEW T \in SUBSET Nat, T # {}
    PROVE  \E least \in T : \A n \in T : least <= n
<1>1. IsWellFoundedOn(OpToRel(<, Nat), Nat)
  BY NatLessThanWellFounded
<1>2. PICK least \in T : \A n \in T : ~(<<n, least>> \in OpToRel(<, Nat))
  BY <1>1, WFMin
<1>3. \A n \in T : ~(n < least)
  BY <1>2 DEF OpToRel
<1> QED  BY <1>3

(* One with an upper bound, unless it is empty, has a greatest one. *)
LEMMA GreatestNumber ==
    ASSUME NEW T \in SUBSET Nat, T # {}, NEW bound \in Nat, \A n \in T : n <= bound
    PROVE  \E greatest \in T : \A n \in T : n <= greatest
<1> DEFINE Below == {bound - n : n \in T}
<1>1. Below \in SUBSET Nat /\ Below # {}
  <2>1. ASSUME NEW n \in T PROVE bound - n \in Nat
    <3>1. n \in Nat /\ n <= bound
      OBVIOUS
    <3> QED  BY <3>1
  <2> QED  BY <2>1
<1>2. PICK least \in Below : \A n \in Below : least <= n
  <2> HIDE DEF Below
  <2> QED  BY <1>1, LeastNumber
<1>3. PICK greatest \in T : least = bound - greatest
  OBVIOUS
<1>4. \A n \in T : bound - greatest <= bound - n
  BY <1>2, <1>3
<1>5. ASSUME NEW n \in T PROVE n <= greatest
  <2>1. n \in Nat /\ greatest \in Nat /\ bound - greatest <= bound - n
    BY <1>4
  <2> QED  BY ONLY <2>1, bound \in Nat
<1> QED  BY <1>5

(* Induction over the natural numbers, of membership in a set. *)
LEMMA NumberInduction ==
    ASSUME NEW Good, 0 \in Good, \A n \in Nat : n \in Good => n + 1 \in Good
    PROVE  Nat \subseteq Good
<1> SUFFICES ASSUME {n \in Nat : n \notin Good} # {} PROVE FALSE
  OBVIOUS
<1> DEFINE Bad == {n \in Nat : n \notin Good}
<1>1. PICK least \in Bad : \A n \in Bad : least <= n
  <2>1. Bad \in SUBSET Nat /\ Bad # {}
    OBVIOUS
  <2> HIDE DEF Bad
  <2> QED  BY <2>1, LeastNumber
<1>2. least \in Nat /\ least # 0
  OBVIOUS
<1>3. least - 1 \in Nat /\ ~(least <= least - 1)
  BY <1>2
<1>4. least - 1 \in Good
  BY <1>1, <1>3
<1>5. (least - 1) + 1 = least
  BY <1>2
<1> QED  BY <1>3, <1>4, <1>5

(* Induction over the subsets of a finite set, one element at a time. *)
LEMMA SubsetInduction ==
    ASSUME NEW S, IsFiniteSet(S), NEW Good, {} \in Good,
           \A T \in SUBSET S : \A x \in T : T \ {x} \in Good => T \in Good
    PROVE  SUBSET S \subseteq Good
<1> SUFFICES ASSUME {T \in SUBSET S : T \notin Good} # {} PROVE FALSE
  OBVIOUS
<1> DEFINE Bad == {T \in SUBSET S : T \notin Good}
<1>1. PICK least \in Bad : \A T \in Bad : T \subseteq least => T = least
  <2>1. Bad \in SUBSET (SUBSET S) /\ Bad # {}
    OBVIOUS
  <2> HIDE DEF Bad
  <2> QED  BY <2>1, LeastSubset
<1>2. PICK x \in least : TRUE
  OBVIOUS
<1>3. least \ {x} \in SUBSET S /\ least \ {x} \subseteq least /\ least \ {x} # least
  BY <1>2
<1>4. least \ {x} \in Good
  BY <1>1, <1>3
<1> QED  BY <1>2, <1>4

-----------------------------------------------------------------------------
(* The recursive function behind a sum                                     *)

Chosen(T) == CHOOSE x \in T : TRUE

(* total sums f over every set of the family. *)
Totals(f, total, family) ==
    total = [T \in family |-> IF T = {} THEN 0 ELSE f[Chosen(T)] + total[T \ {Chosen(T)}]]

(* SumFunctionOnSet is the recursive function over the subsets. *)
LEMMA SumIsTotal ==
    ASSUME NEW f, NEW S
    PROVE  SumFunctionOnSet(f, S) = (CHOOSE total : Totals(f, total, SUBSET S))[S]
BY DEF SumFunctionOnSet, FoldFunctionOnSet, MapThenFoldSet, Totals, Chosen

(* The set a member was chosen from loses it, and is one smaller. *)
LEMMA ChosenOut ==
    ASSUME NEW T, IsFiniteSet(T), T # {}
    PROVE  /\ Chosen(T) \in T
           /\ IsFiniteSet(T \ {Chosen(T)})
           /\ Cardinality(T \ {Chosen(T)}) = Cardinality(T) - 1
BY FS_RemoveElement DEF Chosen

(* Such a function exists over the subsets of a finite set: over those of  *)
(* at most n elements, for every n.                                        *)
LEMMA TotalsExist ==
    ASSUME NEW f, NEW S, IsFiniteSet(S)
    PROVE  \E total : Totals(f, total, SUBSET S)
<1> DEFINE UpTo(n) == {T \in SUBSET S : Cardinality(T) <= n}
           Good == {n \in Nat : \E total : Totals(f, total, UpTo(n))}
<1>0. \A T \in SUBSET S : IsFiniteSet(T) /\ Cardinality(T) \in Nat
  BY FS_Subset, FS_CardinalityType
<1>1. 0 \in Good
  <2>1. UpTo(0) = {{}}
    BY <1>0, FS_EmptySet
  <2>2. Totals(f, [T \in UpTo(0) |-> 0], UpTo(0))
    BY <2>1 DEF Totals
  <2> QED  BY <2>2
<1>2. ASSUME NEW n \in Nat, n \in Good PROVE n + 1 \in Good
  <2>1. PICK small : Totals(f, small, UpTo(n))
    BY <1>2
  <2> DEFINE large == [T \in UpTo(n + 1) |->
                           IF T = {} THEN 0 ELSE f[Chosen(T)] + small[T \ {Chosen(T)}]]
  <2>2. ASSUME NEW T \in UpTo(n + 1), T # {}
        PROVE  T \ {Chosen(T)} \in UpTo(n) /\ T \ {Chosen(T)} \in UpTo(n + 1)
    <3>1. Cardinality(T \ {Chosen(T)}) = Cardinality(T) - 1 /\ Cardinality(T) \in Nat
      BY <1>0, <2>2, ChosenOut
    <3> QED  BY <3>1
  <2>3. ASSUME NEW R \in UpTo(n), R \in UpTo(n + 1)
        PROVE  large[R] = small[R]
    <3>1. small[R] = IF R = {} THEN 0 ELSE f[Chosen(R)] + small[R \ {Chosen(R)}]
      BY <2>1 DEF Totals
    <3> QED  BY <2>3, <3>1
  <2>4. ASSUME NEW T \in UpTo(n + 1)
        PROVE  large[T] = IF T = {} THEN 0 ELSE f[Chosen(T)] + large[T \ {Chosen(T)}]
    <3>1. CASE T = {}
      BY <3>1
    <3>2. CASE T # {}
      <4>1. large[T \ {Chosen(T)}] = small[T \ {Chosen(T)}]
        BY <2>2, <2>3, <3>2
      <4> QED  BY <3>2, <4>1
    <3> QED  BY <3>1, <3>2
  <2>5. Totals(f, large, UpTo(n + 1))
    <3> HIDE DEF UpTo
    <3>1. large = [T \in UpTo(n + 1) |-> large[T]]
      OBVIOUS
    <3> HIDE DEF large
    <3> QED  BY <2>4, <3>1 DEF Totals
  <2>6. \E total : Totals(f, total, UpTo(n + 1))
    <3> HIDE DEF large, UpTo
    <3> QED  BY <2>5
  <2>7. n + 1 \in Nat
    OBVIOUS
  <2> HIDE DEF UpTo
  <2> QED  BY <2>6, <2>7
<1>3. Nat \subseteq Good
  <2> HIDE DEF Good
  <2> QED  BY <1>1, <1>2, NumberInduction
<1>4. UpTo(Cardinality(S)) = SUBSET S
  BY <1>0, FS_Subset
<1>5. Cardinality(S) \in Good
  BY <1>3, FS_CardinalityType
<1> QED  BY <1>4, <1>5

(* A sum over a part of the set is what the function of the whole says.    *)
LEMMA SumOfPart ==
    ASSUME NEW f, NEW S, IsFiniteSet(S), NEW R \in SUBSET S,
           NEW total, Totals(f, total, SUBSET S)
    PROVE  SumFunctionOnSet(f, R) = total[R]
<1>1. IsFiniteSet(R)
  BY FS_Subset
<1> DEFINE own == CHOOSE t : Totals(f, t, SUBSET R)
<1>2. Totals(f, own, SUBSET R)
  BY <1>1, TotalsExist
<1> HIDE DEF own
<1> SUFFICES ASSUME own[R] # total[R] PROVE FALSE
  BY SumIsTotal DEF own
<1> DEFINE Differ == {T \in SUBSET R : own[T] # total[T]}
<1>3. PICK least \in Differ : \A T \in Differ : T \subseteq least => T = least
  <2>1. Differ \in SUBSET (SUBSET R) /\ Differ # {}
    OBVIOUS
  <2> HIDE DEF Differ
  <2> QED  BY <1>1, <2>1, LeastSubset
<1>4. least # {}
  BY <1>2, <1>3 DEF Totals
<1>5. Chosen(least) \in least
  BY <1>4 DEF Chosen
<1>6. own[least \ {Chosen(least)}] = total[least \ {Chosen(least)}]
  BY <1>3, <1>5
<1>7. own[least] = f[Chosen(least)] + own[least \ {Chosen(least)}]
  BY <1>2, <1>3, <1>4 DEF Totals
<1>8. total[least] = f[Chosen(least)] + total[least \ {Chosen(least)}]
  BY <1>3, <1>4 DEF Totals
<1> QED  BY <1>3, <1>6, <1>7, <1>8

(* The sum over nothing, and the sum by the element that is chosen.        *)
LEMMA SumEmpty ==
    ASSUME NEW f
    PROVE  SumFunctionOnSet(f, {}) = 0
<1>1. PICK empty : empty = {}
  OBVIOUS
<1>2. IsFiniteSet(empty) /\ empty \in SUBSET empty
  BY <1>1, FS_EmptySet
<1>3. PICK total : Totals(f, total, SUBSET empty)
  BY <1>2, TotalsExist
<1>4. total[empty] = 0
  BY <1>1, <1>3 DEF Totals
<1>5. SumFunctionOnSet(f, empty) = total[empty]
  BY ONLY <1>2, <1>3, SumOfPart
<1> QED  BY <1>1, <1>4, <1>5

LEMMA SumChosen ==
    ASSUME NEW f, NEW S, IsFiniteSet(S), S # {}
    PROVE  SumFunctionOnSet(f, S) = f[Chosen(S)] + SumFunctionOnSet(f, S \ {Chosen(S)})
<1>1. PICK total : Totals(f, total, SUBSET S)
  BY TotalsExist
<1>2. total[S] = f[Chosen(S)] + total[S \ {Chosen(S)}]
  BY <1>1 DEF Totals
<1>3. SumFunctionOnSet(f, S) = total[S]
  BY <1>1, SumOfPart
<1>4. SumFunctionOnSet(f, S \ {Chosen(S)}) = total[S \ {Chosen(S)}]
  BY <1>1, SumOfPart
<1> QED  BY <1>2, <1>3, <1>4

-----------------------------------------------------------------------------
(* Sums of natural numbers                                                 *)

(* A sum of natural numbers is one. *)
LEMMA SumType ==
    ASSUME NEW S, IsFiniteSet(S), NEW f, \A x \in S : f[x] \in Nat
    PROVE  SumFunctionOnSet(f, S) \in Nat
<1> DEFINE Good == {T \in SUBSET S : SumFunctionOnSet(f, T) \in Nat}
           Bad == {T \in SUBSET S : SumFunctionOnSet(f, T) \notin Nat}
<1> SUFFICES ASSUME Bad # {} PROVE FALSE
  OBVIOUS
<1>1. PICK least \in Bad : \A T \in Bad : T \subseteq least => T = least
  <2>1. Bad \in SUBSET (SUBSET S) /\ Bad # {}
    OBVIOUS
  <2> HIDE DEF Bad
  <2> QED  BY <2>1, LeastSubset
<1>2. least # {} /\ IsFiniteSet(least)
  <2>1. SumFunctionOnSet(f, {}) \in Nat
    BY SumEmpty
  <2> QED  BY <1>1, <2>1, FS_Subset
<1>3. Chosen(least) \in least
  BY <1>2 DEF Chosen
<1>4. SumFunctionOnSet(f, least \ {Chosen(least)}) \in Nat
  BY <1>1, <1>3
<1>5. f[Chosen(least)] \in Nat
  BY <1>1, <1>3
<1>6. SumFunctionOnSet(f, least) = f[Chosen(least)] + SumFunctionOnSet(f, least \ {Chosen(least)})
  BY <1>2, SumChosen
<1> QED  BY <1>1, <1>4, <1>5, <1>6

(* Any element can be taken out of a sum, not only the one that is chosen. *)
LEMMA SumWithout ==
    ASSUME NEW S, IsFiniteSet(S), NEW f, \A x \in S : f[x] \in Nat, NEW x \in S
    PROVE  SumFunctionOnSet(f, S) = f[x] + SumFunctionOnSet(f, S \ {x})
<1> DEFINE Sum(T) == SumFunctionOnSet(f, T)
           Splits(T) == \A y \in T : Sum(T) = f[y] + Sum(T \ {y})
           Bad == {T \in SUBSET S : ~Splits(T)}
<1> SUFFICES ASSUME Bad # {} PROVE FALSE
  OBVIOUS
<1>1. PICK least \in Bad : \A T \in Bad : T \subseteq least => T = least
  <2>1. Bad \in SUBSET (SUBSET S) /\ Bad # {}
    OBVIOUS
  <2> HIDE DEF Bad
  <2> QED  BY <2>1, LeastSubset
<1>2. PICK y \in least : Sum(least) # f[y] + Sum(least \ {y})
  BY <1>1
<1> DEFINE z == Chosen(least)
<1>3. IsFiniteSet(least) /\ z \in least
  BY <1>1, <1>2, FS_Subset DEF Chosen
<1>4. Sum(least) = f[z] + Sum(least \ {z})
  BY <1>2, <1>3, SumChosen
<1>5. y # z
  BY <1>2, <1>4
<1>6. Splits(least \ {z}) /\ Splits(least \ {y})
  BY <1>1, <1>2, <1>3
<1>7. Sum(least \ {z}) = f[y] + Sum((least \ {z}) \ {y})
  BY <1>2, <1>5, <1>6
<1>8. Sum(least \ {y}) = f[z] + Sum((least \ {y}) \ {z})
  BY <1>3, <1>5, <1>6
<1>9. (least \ {z}) \ {y} = (least \ {y}) \ {z}
  OBVIOUS
<1>10. f[y] \in Nat /\ f[z] \in Nat
  BY <1>1, <1>2, <1>3
<1>11. Sum((least \ {z}) \ {y}) \in Nat
  <2>1. IsFiniteSet((least \ {z}) \ {y})
    BY <1>3, FS_Subset
  <2> QED  BY <1>1, <2>1, SumType
<1>12. \A a, b, c \in Int : a + (b + c) = b + (a + c)
  OBVIOUS
<1>13. f[z] + (f[y] + Sum((least \ {z}) \ {y})) = f[y] + (f[z] + Sum((least \ {z}) \ {y}))
  <2> HIDE DEF Sum, z
  <2> QED  BY <1>10, <1>11, <1>12
<1>14. Sum(least) = f[y] + Sum(least \ {y})
  <2> HIDE DEF Sum, z
  <2> QED  BY <1>4, <1>7, <1>8, <1>9, <1>13
<1> QED  BY <1>2, <1>14

(* What an element more adds to a sum. *)
LEMMA SumWith ==
    ASSUME NEW S, IsFiniteSet(S), NEW f, NEW x, x \notin S,
           \A y \in S \cup {x} : f[y] \in Nat
    PROVE  SumFunctionOnSet(f, S \cup {x}) = SumFunctionOnSet(f, S) + f[x]
<1>1. IsFiniteSet(S \cup {x}) /\ (S \cup {x}) \ {x} = S
  BY FS_AddElement
<1>2. SumFunctionOnSet(f, S \cup {x}) = f[x] + SumFunctionOnSet(f, S)
  BY <1>1, SumWithout
<1>3. SumFunctionOnSet(f, S) \in Nat
  BY SumType
<1> QED  BY <1>2, <1>3

(* Functions that agree on a set have the same sum over it. *)
LEMMA SumSame ==
    ASSUME NEW S, IsFiniteSet(S), NEW f, NEW g, \A x \in S : f[x] \in Nat /\ f[x] = g[x]
    PROVE  SumFunctionOnSet(f, S) = SumFunctionOnSet(g, S)
<1> DEFINE Good == {T \in SUBSET S : SumFunctionOnSet(f, T) = SumFunctionOnSet(g, T)}
<1>1. {} \in Good
  BY SumEmpty
<1>2. ASSUME NEW T \in SUBSET S, NEW x \in T, T \ {x} \in Good
      PROVE  T \in Good
  <2>1. IsFiniteSet(T)
    BY FS_Subset
  <2>2. SumFunctionOnSet(f, T) = f[x] + SumFunctionOnSet(f, T \ {x})
    BY <2>1, SumWithout
  <2>3. SumFunctionOnSet(g, T) = g[x] + SumFunctionOnSet(g, T \ {x})
    <3>1. \A y \in T : g[y] \in Nat
      OBVIOUS
    <3> QED  BY <2>1, <3>1, SumWithout
  <2> QED  BY <1>2, <2>2, <2>3
<1>3. SUBSET S \subseteq Good
  <2> HIDE DEF Good
  <2> QED  BY <1>1, <1>2, SubsetInduction
<1> QED  BY <1>3

(* Nothing becomes less, and the sum does not either. *)
LEMMA SumNotLess ==
    ASSUME NEW S, IsFiniteSet(S), NEW f, NEW g,
           \A x \in S : f[x] \in Nat /\ g[x] \in Nat /\ f[x] <= g[x]
    PROVE  SumFunctionOnSet(f, S) <= SumFunctionOnSet(g, S)
<1> DEFINE Good == {T \in SUBSET S : SumFunctionOnSet(f, T) <= SumFunctionOnSet(g, T)}
<1>1. {} \in Good
  BY SumEmpty
<1>2. ASSUME NEW T \in SUBSET S, NEW x \in T, T \ {x} \in Good
      PROVE  T \in Good
  <2>1. IsFiniteSet(T) /\ IsFiniteSet(T \ {x})
    BY FS_Subset
  <2>2. SumFunctionOnSet(f, T) = f[x] + SumFunctionOnSet(f, T \ {x})
    BY <2>1, SumWithout
  <2>3. SumFunctionOnSet(g, T) = g[x] + SumFunctionOnSet(g, T \ {x})
    BY <2>1, SumWithout
  <2>4. SumFunctionOnSet(f, T \ {x}) \in Nat /\ SumFunctionOnSet(g, T \ {x}) \in Nat
    BY <2>1, SumType
  <2> QED  BY <1>2, <2>2, <2>3, <2>4
<1>3. SUBSET S \subseteq Good
  <2> HIDE DEF Good
  <2> QED  BY <1>1, <1>2, SubsetInduction
<1> QED  BY <1>3

(* A sum of which one element has changed. *)
LEMMA SumChanged ==
    ASSUME NEW S, IsFiniteSet(S), NEW f, NEW g, NEW x \in S,
           \A y \in S : f[y] \in Nat /\ g[y] \in Nat,
           \A y \in S \ {x} : g[y] = f[y]
    PROVE  SumFunctionOnSet(g, S) = SumFunctionOnSet(f, S) - f[x] + g[x]
<1>1. IsFiniteSet(S \ {x})
  BY FS_Subset
<1>2. SumFunctionOnSet(f, S \ {x}) = SumFunctionOnSet(g, S \ {x})
  BY <1>1, SumSame
<1>3. SumFunctionOnSet(f, S) = f[x] + SumFunctionOnSet(f, S \ {x})
  BY SumWithout
<1>4. SumFunctionOnSet(g, S) = g[x] + SumFunctionOnSet(g, S \ {x})
  BY SumWithout
<1>5. SumFunctionOnSet(f, S \ {x}) \in Nat /\ f[x] \in Nat /\ g[x] \in Nat
  BY <1>1, SumType
<1>6. \A a, b, c \in Int : b + c = (a + c) - a + b
  OBVIOUS
<1> QED  BY <1>2, <1>3, <1>4, <1>5, <1>6

(* Elements of which none counts add nothing. *)
LEMMA SumOfZeros ==
    ASSUME NEW S, IsFiniteSet(S), NEW f, NEW R \in SUBSET S,
           \A x \in S : f[x] \in Nat, \A x \in S \ R : f[x] = 0
    PROVE  SumFunctionOnSet(f, S) = SumFunctionOnSet(f, R)
<1> DEFINE Good == {T \in SUBSET (S \ R) :
                       SumFunctionOnSet(f, R \cup T) = SumFunctionOnSet(f, R)}
<1>0. IsFiniteSet(R) /\ IsFiniteSet(S \ R)
  BY FS_Subset
<1>1. {} \in Good
  <2>1. R \cup {} = R
    OBVIOUS
  <2> QED  BY <2>1
<1>2. ASSUME NEW T \in SUBSET (S \ R), NEW x \in T, T \ {x} \in Good
      PROVE  T \in Good
  <2>1. IsFiniteSet(R \cup T) /\ R \cup T \in SUBSET S
    BY FS_Subset
  <2>2. (R \cup T) \ {x} = R \cup (T \ {x})
    OBVIOUS
  <2>3. SumFunctionOnSet(f, R \cup T) = f[x] + SumFunctionOnSet(f, R \cup (T \ {x}))
    BY <2>1, <2>2, SumWithout
  <2>4. f[x] = 0 /\ SumFunctionOnSet(f, R) \in Nat
    BY <1>0, SumType
  <2> QED  BY <1>2, <2>3, <2>4
<1>3. SUBSET (S \ R) \subseteq Good
  <2> DEFINE Rest == S \ R
  <2>1. IsFiniteSet(Rest) /\ \A T \in SUBSET Rest : \A x \in T : T \ {x} \in Good => T \in Good
    <3> HIDE DEF Good
    <3> QED  BY <1>0, <1>2
  <2>2. SUBSET Rest \subseteq Good
    <3> HIDE DEF Good, Rest
    <3> QED  BY <1>1, <2>1, SubsetInduction
  <2> QED  BY <2>2
<1>4. R \cup (S \ R) = S /\ S \ R \in Good
  <2> HIDE DEF Good
  <2> QED  BY <1>3
<1> QED  BY <1>4

LEMMA SumZero ==
    ASSUME NEW S, IsFiniteSet(S), NEW f, \A x \in S : f[x] = 0
    PROVE  SumFunctionOnSet(f, S) = 0
<1>1. SumFunctionOnSet(f, S) = SumFunctionOnSet(f, {})
  BY SumOfZeros
<1> QED  BY <1>1, SumEmpty

(* The same numbers under other names have the same sum. *)
LEMMA SumRenamed ==
    ASSUME NEW S, IsFiniteSet(S), NEW f, NEW g, NEW name,
           \A x \in S : f[x] \in Nat /\ g[name[x]] = f[x],
           \A x, y \in S : name[x] = name[y] => x = y
    PROVE  SumFunctionOnSet(f, S) = SumFunctionOnSet(g, {name[x] : x \in S})
<1> DEFINE Names(T) == {name[x] : x \in T}
           Good == {T \in SUBSET S : SumFunctionOnSet(f, T) = SumFunctionOnSet(g, Names(T))}
<1>1. {} \in Good
  <2>1. Names({}) = {}
    OBVIOUS
  <2> QED  BY <2>1, SumEmpty
<1>2. ASSUME NEW T \in SUBSET S, NEW x \in T, T \ {x} \in Good
      PROVE  T \in Good
  <2>1. IsFiniteSet(T)
    BY FS_Subset
  <2>2. IsFiniteSet(Names(T))
    <3>1. [y \in T |-> name[y]] \in Surjection(T, Names(T))
      BY DEF Surjection
    <3> QED  BY <2>1, <3>1, FS_Surjection
  <2>3. name[x] \in Names(T) /\ Names(T) \ {name[x]} = Names(T \ {x})
    OBVIOUS
  <2>4. \A n \in Names(T) : g[n] \in Nat
    OBVIOUS
  <2>5. SumFunctionOnSet(f, T) = f[x] + SumFunctionOnSet(f, T \ {x})
    BY <2>1, SumWithout
  <2> HIDE DEF Names
  <2>6. SumFunctionOnSet(g, Names(T)) = g[name[x]] + SumFunctionOnSet(g, Names(T \ {x}))
    BY <2>2, <2>3, <2>4, SumWithout
  <2> QED  BY <1>2, <2>5, <2>6
<1>3. SUBSET S \subseteq Good
  <2> HIDE DEF Good
  <2> QED  BY <1>1, <1>2, SubsetInduction
<1> QED  BY <1>3

(* The sum over one more of the first numbers. *)
LEMMA SumOneMore ==
    ASSUME NEW f, NEW m \in Nat, NEW n \in Nat, n = m + 1, \A i \in 1..n : f[i] \in Nat
    PROVE  SumFunctionOnSet(f, 1..n) = SumFunctionOnSet(f, 1..m) + f[n]
  <1>1. PICK first : first = 1..m
    OBVIOUS
  <1>2. IsFiniteSet(first) /\ n \notin first /\ first \cup {n} = 1..n
    <2>1. IsFiniteSet(1..m)
      BY FS_Interval
    <2> QED
      BY <1>1, <2>1
  <1>3. \A i \in first \cup {n} : f[i] \in Nat
    BY <1>2
  <1>4. SumFunctionOnSet(f, first \cup {n}) = SumFunctionOnSet(f, first) + f[n]
    BY ONLY <1>2, <1>3, SumWith
  <1> QED
    BY <1>1, <1>2, <1>4

LEMMA SumOfThree ==
    ASSUME NEW f, f[1] \in Nat, f[2] \in Nat, f[3] \in Nat
    PROVE  SumFunctionOnSet(f, 1..3) = f[1] + f[2] + f[3]
  <1>1. SumFunctionOnSet(f, {}) = 0
    BY SumEmpty
  <1>2. 1..0 = {}
    OBVIOUS
  <1>3. SumFunctionOnSet(f, 1..0) = 0
    BY ONLY <1>1, <1>2
  <1>4. SumFunctionOnSet(f, 1..1) = SumFunctionOnSet(f, 1..0) + f[1]
    <2>1. 0 \in Nat /\ 1 \in Nat /\ 1 = 0 + 1 /\ \A i \in 1..1 : f[i] \in Nat
      OBVIOUS
    <2> QED
      BY ONLY <2>1, SumOneMore
  <1>5. SumFunctionOnSet(f, 1..2) = SumFunctionOnSet(f, 1..1) + f[2]
    <2>1. 1 \in Nat /\ 2 \in Nat /\ 2 = 1 + 1 /\ \A i \in 1..2 : f[i] \in Nat
      OBVIOUS
    <2> QED
      BY ONLY <2>1, SumOneMore
  <1>6. SumFunctionOnSet(f, 1..3) = SumFunctionOnSet(f, 1..2) + f[3]
    <2>1. 2 \in Nat /\ 3 \in Nat /\ 3 = 2 + 1 /\ \A i \in 1..3 : f[i] \in Nat
      OBVIOUS
    <2> QED
      BY ONLY <2>1, SumOneMore
  <1> QED
    BY <1>3, <1>4, <1>5, <1>6

LEMMA SumOfFour ==
    ASSUME NEW f, f[1] \in Nat, f[2] \in Nat, f[3] \in Nat, f[4] \in Nat
    PROVE  SumFunctionOnSet(f, 1..4) = f[1] + f[2] + f[3] + f[4]
  <1>1. SumFunctionOnSet(f, 1..3) = f[1] + f[2] + f[3]
    BY SumOfThree
  <1>2. SumFunctionOnSet(f, 1..4) = SumFunctionOnSet(f, 1..3) + f[4]
    <2>1. 3 \in Nat /\ 4 \in Nat /\ 4 = 3 + 1 /\ \A i \in 1..4 : f[i] \in Nat
      OBVIOUS
    <2> QED
      BY ONLY <2>1, SumOneMore
  <1> QED
    BY <1>1, <1>2

LEMMA SumOfFive ==
    ASSUME NEW f, f[1] \in Nat, f[2] \in Nat, f[3] \in Nat, f[4] \in Nat, f[5] \in Nat
    PROVE  SumFunctionOnSet(f, 1..5) = f[1] + f[2] + f[3] + f[4] + f[5]
  <1>1. SumFunctionOnSet(f, 1..4) = f[1] + f[2] + f[3] + f[4]
    BY SumOfFour
  <1>2. SumFunctionOnSet(f, 1..5) = SumFunctionOnSet(f, 1..4) + f[5]
    <2>1. 4 \in Nat /\ 5 \in Nat /\ 5 = 4 + 1 /\ \A i \in 1..5 : f[i] \in Nat
      OBVIOUS
    <2> QED
      BY ONLY <2>1, SumOneMore
  <1> QED
    BY <1>1, <1>2
=============================================================================
