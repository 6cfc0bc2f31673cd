---------------------------- MODULE NaturalSets ----------------------------
(***************************************************************************)
(* Induction over the natural numbers, stated for a set of them: a         *)
(* property is put as the set of the numbers that have it.  Then what it   *)
(* shows of sums over finite sets.                                         *)
(***************************************************************************)
EXTENDS Integers, WellFoundedInduction, FiniteSetTheorems, TLAPS

NatLess == {ss \in Nat \X Nat : ss[1] < ss[2]}

(* Every set of natural numbers but the empty one has a least element. *)
LEMMA LeastOf ==
  ASSUME NEW S, S \subseteq Nat, S # {}
  PROVE  \E n \in S : \A m \in S : n <= m
<1>1. NatLess = OpToRel(<, Nat)
  BY DEF NatLess, OpToRel
<1>2. IsWellFoundedOn(NatLess, Nat)
  BY <1>1, NatLessThanWellFounded
<1>3. PICK n \in S : \A m \in S : ~(<<m, n>> \in NatLess)
  BY <1>2, WFMin
<1> SUFFICES ASSUME NEW m \in S PROVE n <= m
  OBVIOUS
<1>4. /\ m \in Nat /\ n \in Nat /\ <<m, n>> \in Nat \X Nat
      /\ <<m, n>>[1] = m /\ <<m, n>>[2] = n
  OBVIOUS
<1>5. <<m, n>> \notin NatLess
  BY <1>3
<1>6. ~(m < n)
  BY <1>4, <1>5 DEF NatLess
<1> QED
  BY <1>4, <1>6

(* What holds of 0 and of the successor of every number it holds of holds of all. *)
LEMMA ByInduction ==
  ASSUME NEW S, 0 \in S, \A n \in Nat : n \in S => n + 1 \in S
  PROVE  Nat \subseteq S
<1> SUFFICES ASSUME Nat \ S # {} PROVE FALSE
  OBVIOUS
<1>1. PICK n \in Nat \ S : \A m \in Nat \ S : n <= m
  BY LeastOf
<1>2. n # 0
  BY <1>1
<1>3. n - 1 \in Nat /\ n - 1 \in S
  BY <1>1, <1>2
<1> QED
  BY <1>3, <1>1

-----------------------------------------------------------------------------
(* Sums over the subsets of a finite set: the recursion that folds a set    *)
(* taking CHOOSE x \in s : TRUE first has one solution, and which element   *)
(* is first makes no difference.                                            *)

FirstOf(s) == CHOOSE x \in s : TRUE
Summed(f, iter, s) == IF s = {} THEN 0 ELSE f[FirstOf(s)] + iter[s \ {FirstOf(s)}]
SumsTo(f, iter, S) == iter = [s \in SUBSET S |-> Summed(f, iter, s)]
SumOf(f, S) == (CHOOSE iter : SumsTo(f, iter, S))[S]

LEMMA SubsetsFinite ==
  ASSUME NEW D, IsFiniteSet(D), NEW s \in SUBSET D
  PROVE  IsFiniteSet(s) /\ Cardinality(s) \in Nat /\ Cardinality(s) <= Cardinality(D)
BY FS_Subset, FS_CardinalityType

LEMMA FirstGone ==
  ASSUME NEW D, IsFiniteSet(D), NEW s \in SUBSET D, s # {}
  PROVE  /\ FirstOf(s) \in s /\ FirstOf(s) \in D /\ s \ {FirstOf(s)} \in SUBSET D
         /\ Cardinality(s \ {FirstOf(s)}) = Cardinality(s) - 1
<1>1. FirstOf(s) \in s
  BY DEF FirstOf
<1> QED
  BY <1>1, SubsetsFinite, FS_RemoveElement

(* A recursion that descends to smaller sets defines a function. *)
SumsUpTo(D, f, k) == \E iter \in [SUBSET D -> Nat] :
  \A s \in SUBSET D : Cardinality(s) <= k => iter[s] = Summed(f, iter, s)

LEMMA SummingUp ==
  ASSUME NEW D, IsFiniteSet(D), NEW f \in [D -> Nat], NEW k \in Nat, SumsUpTo(D, f, k)
  PROVE  SumsUpTo(D, f, k + 1)
<1>1. PICK old \in [SUBSET D -> Nat] :
        \A s \in SUBSET D : Cardinality(s) <= k => old[s] = Summed(f, old, s)
  BY DEF SumsUpTo
<1> DEFINE new == [s \in SUBSET D |-> IF Cardinality(s) <= k THEN old[s] ELSE Summed(f, old, s)]
<1>2. ASSUME NEW s \in SUBSET D PROVE Summed(f, old, s) \in Nat
  <2>1. CASE s = {}
    BY <2>1 DEF Summed
  <2>2. CASE s # {}
    <3>1. FirstOf(s) \in D /\ s \ {FirstOf(s)} \in SUBSET D
      BY <2>2, FirstGone
    <3>2. f[FirstOf(s)] \in Nat /\ old[s \ {FirstOf(s)}] \in Nat
      BY <3>1
    <3>3. Summed(f, old, s) = f[FirstOf(s)] + old[s \ {FirstOf(s)}]
      BY <2>2, Zenon DEF Summed
    <3> QED
      BY <3>2, <3>3
  <2> QED
    BY <2>1, <2>2
<1>3. new \in [SUBSET D -> Nat]
  BY <1>1, <1>2
<1>4. ASSUME NEW s \in SUBSET D, Cardinality(s) <= k + 1
      PROVE  new[s] = Summed(f, new, s)
  <2>1. Summed(f, new, s) = Summed(f, old, s)
    <3>1. CASE s = {}
      BY <3>1 DEF Summed
    <3>2. CASE s # {}
      <4>1. s \ {FirstOf(s)} \in SUBSET D /\ Cardinality(s \ {FirstOf(s)}) <= k
        BY <3>2, <1>4, FirstGone, SubsetsFinite
      <4>2. new[s \ {FirstOf(s)}] = old[s \ {FirstOf(s)}]
        BY <4>1
      <4> QED
        BY <3>2, <4>2 DEF Summed
    <3> QED
      BY <3>1, <3>2
  <2> QED
    BY <2>1, <1>1
<1> QED
  BY <1>3, <1>4 DEF SumsUpTo

LEMMA SumsExist ==
  ASSUME NEW D, IsFiniteSet(D), NEW f \in [D -> Nat]
  PROVE  \E iter \in [SUBSET D -> Nat] : \A s \in SUBSET D : iter[s] = Summed(f, iter, s)
<1> DEFINE T == {k \in Nat : SumsUpTo(D, f, k)}
<1>1. SumsUpTo(D, f, 0)
  <2> DEFINE none == [s \in SUBSET D |-> 0]
  <2>1. ASSUME NEW s \in SUBSET D, Cardinality(s) <= 0 PROVE s = {}
    BY <2>1, SubsetsFinite, FS_EmptySet
  <2>2. ASSUME NEW s \in SUBSET D, Cardinality(s) <= 0 PROVE none[s] = Summed(f, none, s)
    BY <2>1, <2>2 DEF Summed
  <2>3. none \in [SUBSET D -> Nat]
    OBVIOUS
  <2> QED
    BY <2>2, <2>3 DEF SumsUpTo
<1>2. Nat \subseteq T
  <2>1. 0 \in T /\ \A n \in Nat : n \in T => n + 1 \in T
    BY <1>1, SummingUp
  <2> HIDE DEF T
  <2> QED
    BY <2>1, ByInduction
<1>3. D \in SUBSET D
  OBVIOUS
<1>4. Cardinality(D) \in Nat /\ SumsUpTo(D, f, Cardinality(D))
  BY <1>2, <1>3, SubsetsFinite
<1> QED
  BY <1>4, SubsetsFinite DEF SumsUpTo

(* And one function only. *)
Sums(f, iter, S) == \A s \in SUBSET S : iter[s] = Summed(f, iter, s)

LEMMA SumUnique ==
  ASSUME NEW S, IsFiniteSet(S), NEW f, NEW g, NEW h, Sums(f, g, S), Sums(f, h, S)
  PROVE  g[S] = h[S]
<1>0. /\ \A s \in SUBSET S : g[s] = Summed(f, g, s)
      /\ \A s \in SUBSET S : h[s] = Summed(f, h, s)
  BY DEF Sums
<1> DEFINE Same(k) == \A s \in SUBSET S : Cardinality(s) = k => g[s] = h[s]
           T == {k \in Nat : Same(k)}
<1>1. Same(0)
  <2>1. ASSUME NEW s \in SUBSET S, Cardinality(s) = 0 PROVE g[s] = h[s]
    <3>1. s = {}
      BY <2>1, SubsetsFinite, FS_EmptySet
    <3> QED
      BY <1>0, <3>1 DEF Summed
  <2> QED
    BY <2>1
<1>2. ASSUME NEW k \in Nat, Same(k) PROVE Same(k + 1)
  <2>1. ASSUME NEW s \in SUBSET S, Cardinality(s) = k + 1 PROVE g[s] = h[s]
    <3>1. s # {}
      BY <2>1, FS_EmptySet
    <3>2. s \ {FirstOf(s)} \in SUBSET S /\ Cardinality(s \ {FirstOf(s)}) = k
      BY <2>1, <3>1, FirstGone
    <3>3. g[s \ {FirstOf(s)}] = h[s \ {FirstOf(s)}]
      BY <1>2, <3>2
    <3> QED
      BY <1>0, <3>1, <3>3 DEF Summed
  <2> QED
    BY <2>1
<1> HIDE DEF Same
<1>3. 0 \in T /\ \A n \in Nat : n \in T => n + 1 \in T
  <2>1. \A n \in Nat : n + 1 \in Nat
    OBVIOUS
  <2> QED
    BY <1>1, <1>2, <2>1, Zenon
<1>4. Nat \subseteq T
  <2> HIDE DEF T
  <2> QED
    BY <1>3, ByInduction
<1>5. S \in SUBSET S
  OBVIOUS
<1>6. Cardinality(S) \in Nat
  BY <1>5, SubsetsFinite
<1>7. Same(Cardinality(S))
  BY <1>4, <1>6
<1> QED
  BY <1>5, <1>7 DEF Same

(* What the recursion over one set adds up is what the one over a larger set does. *)
LEMMA SumWithin ==
  ASSUME NEW D, NEW f \in [D -> Nat], NEW g \in [SUBSET D -> Nat],
         \A s \in SUBSET D : g[s] = Summed(f, g, s),
         NEW S \in SUBSET D
  PROVE  \E part : SumsTo(f, part, S) /\ part[S] = g[S]
<1> DEFINE part == [s \in SUBSET S |-> g[s]]
<1>1. ASSUME NEW s \in SUBSET S PROVE g[s] = Summed(f, part, s)
  <2>1. CASE s = {}
    BY <2>1 DEF Summed
  <2>2. CASE s # {}
    <3>1. s \ {FirstOf(s)} \in SUBSET S
      BY <2>2
    <3> QED
      BY <2>2, <3>1 DEF Summed
  <2> QED
    BY <2>1, <2>2
<1>2. SumsTo(f, part, S)
  BY <1>1 DEF SumsTo
<1>3. part[S] = g[S]
  OBVIOUS
<1> QED
  BY <1>2, <1>3

LEMMA SumSolved ==
  ASSUME NEW D, IsFiniteSet(D), NEW f \in [D -> Nat], NEW S \in SUBSET D
  PROVE  /\ \E iter : SumsTo(f, iter, S)
         /\ \A iter : SumsTo(f, iter, S) => iter[S] = SumOf(f, S)
<1>1. IsFiniteSet(S)
  BY SubsetsFinite
<1>2. PICK g \in [SUBSET D -> Nat] : \A s \in SUBSET D : g[s] = Summed(f, g, s)
  BY SumsExist
<1>3. \E iter : SumsTo(f, iter, S)
  <2>1. \A s \in SUBSET D : g[s] = Summed(f, g, s)
    BY <1>2
  <2>2. \E part : SumsTo(f, part, S) /\ part[S] = g[S]
    BY <2>1, SumWithin
  <2> QED
    BY <2>2, Zenon
<1>4. PICK one : SumsTo(f, one, S) /\ one = CHOOSE i : SumsTo(f, i, S)
  BY <1>3
<1>5. ASSUME NEW iter, SumsTo(f, iter, S) PROVE iter[S] = SumOf(f, S)
  <2>1. Sums(f, one, S) /\ Sums(f, iter, S)
    BY <1>4, <1>5 DEF SumsTo, Sums
  <2>2. iter[S] = one[S]
    BY <1>1, <2>1, SumUnique
  <2> QED
    BY <1>4, <2>2 DEF SumOf
<1> QED
  BY <1>3, <1>5

(* The sum is that of a set without any one of its elements, and that element. *)
LEMMA SumAdds ==
  ASSUME NEW D, IsFiniteSet(D), NEW f \in [D -> Nat]
  PROVE  /\ SumOf(f, {}) = 0
         /\ \A S \in SUBSET D : SumOf(f, S) \in Nat
         /\ \A S \in SUBSET D : \A m \in D \ S : SumOf(f, S \union {m}) = SumOf(f, S) + f[m]
<1>1. PICK g \in [SUBSET D -> Nat] : \A s \in SUBSET D : g[s] = Summed(f, g, s)
  BY SumsExist
<1> DEFINE Split(k) == \A s \in SUBSET D : Cardinality(s) = k =>
             \A m \in s : g[s] = f[m] + g[s \ {m}]
           T == {k \in Nat : Split(k)}
<1>2. Split(0)
  <2>1. ASSUME NEW s \in SUBSET D, Cardinality(s) = 0 PROVE s = {}
    BY <2>1, SubsetsFinite, FS_EmptySet
  <2> QED
    BY <2>1
<1>3. ASSUME NEW k \in Nat, Split(k) PROVE Split(k + 1)
  <2> SUFFICES ASSUME NEW s \in SUBSET D, Cardinality(s) = k + 1, NEW m \in s
               PROVE  g[s] = f[m] + g[s \ {m}]
    OBVIOUS
  <2> DEFINE n == FirstOf(s)
  <2>1. n \in s /\ g[s] = f[n] + g[s \ {n}]
    <3>1. s # {}
      OBVIOUS
    <3>2. n \in s
      BY <3>1, FirstGone
    <3>3. g[s] = Summed(f, g, s)
      BY <1>1
    <3>4. Summed(f, g, s) = f[n] + g[s \ {n}]
      BY <3>1, Zenon DEF Summed
    <3> QED
      BY <3>2, <3>3, <3>4
  <2>2. CASE m = n
    BY <2>1, <2>2
  <2>3. CASE m # n
    <3> HIDE DEF n
    <3>1. Cardinality(s \ {n}) = k /\ Cardinality(s \ {m}) = k
      <4>1. IsFiniteSet(s) /\ n \in s
        BY <2>1, SubsetsFinite
      <4>2. Cardinality(s \ {n}) = Cardinality(s) - 1
        BY <4>1, FS_RemoveElement
      <4>3. Cardinality(s \ {m}) = Cardinality(s) - 1
        BY <4>1, FS_RemoveElement
      <4> QED
        BY <4>2, <4>3
    <3>2. g[s \ {n}] = f[m] + g[(s \ {n}) \ {m}]
      BY <1>3, <2>1, <2>3, <3>1
    <3>3. g[s \ {m}] = f[n] + g[(s \ {m}) \ {n}]
      BY <1>3, <2>1, <2>3, <3>1
    <3>4. (s \ {n}) \ {m} = (s \ {m}) \ {n}
      OBVIOUS
    <3>5. g[(s \ {m}) \ {n}] \in Nat /\ f[m] \in Nat /\ f[n] \in Nat
      BY <2>1
    <3> DEFINE rest == g[(s \ {m}) \ {n}]
    <3>6. /\ g[s] = f[n] + g[s \ {n}]
          /\ g[s \ {n}] = f[m] + rest /\ g[s \ {m}] = f[n] + rest
      BY <2>1, <3>2, <3>3, <3>4
    <3> HIDE DEF rest
    <3> QED
      BY <3>5, <3>6 DEF rest
  <2> QED
    BY <2>2, <2>3
<1>4. Nat \subseteq T
  <2> HIDE DEF Split
  <2>1. 0 \in T /\ \A k \in Nat : k \in T => k + 1 \in T
    BY <1>2, <1>3
  <2> HIDE DEF T
  <2> QED
    BY <2>1, ByInduction
<1>5. ASSUME NEW S \in SUBSET D, NEW m \in D \ S
      PROVE  g[S \union {m}] = g[S] + f[m]
  <2>1. S \union {m} \in SUBSET D /\ m \in S \union {m} /\ (S \union {m}) \ {m} = S
    OBVIOUS
  <2>2. Cardinality(S \union {m}) \in T
    BY <1>4, <2>1, SubsetsFinite
  <2>3. g[S \union {m}] = f[m] + g[S]
    BY <2>1, <2>2
  <2>4. f[m] \in Nat /\ g[S] \in Nat
    OBVIOUS
  <2> QED
    BY <2>3, <2>4
<1>6. g[{}] = 0
  BY <1>1 DEF Summed
<1>7. ASSUME NEW S \in SUBSET D PROVE SumOf(f, S) = g[S]
  <2>1. \E part : SumsTo(f, part, S) /\ part[S] = g[S]
    BY <1>1, SumWithin
  <2>2. \A iter : SumsTo(f, iter, S) => iter[S] = SumOf(f, S)
    BY SumSolved
  <2> QED
    BY <2>1, <2>2, Zenon
<1>8. {} \in SUBSET D /\ \A S \in SUBSET D : \A m \in D \ S : S \union {m} \in SUBSET D
  OBVIOUS
<1> QED
  BY <1>5, <1>6, <1>7, <1>8

(* It depends only on the values it adds. *)
LEMMA SumSame ==
  ASSUME NEW D, IsFiniteSet(D), NEW f \in [D -> Nat], NEW h \in [D -> Nat],
         NEW S \in SUBSET D, \A s \in S : f[s] = h[s]
  PROVE  SumOf(f, S) = SumOf(h, S)
<1>1. PICK iter : SumsTo(f, iter, S)
  BY SumSolved
<1>2. ASSUME NEW s \in SUBSET S PROVE Summed(f, iter, s) = Summed(h, iter, s)
  <2>1. s # {} => FirstOf(s) \in s
    BY DEF FirstOf
  <2> QED
    BY <2>1 DEF Summed
<1>3. SumsTo(h, iter, S)
  BY <1>1, <1>2 DEF SumsTo
<1> QED
  BY <1>1, <1>3, SumSolved
=============================================================================
