----------------------------- MODULE Sums_proofs -----------------------------
(***************************************************************************)
(* Facts about the library's sums, folds, extremes and parts of lists.     *)
(* SumFunctionOnSet is the sum of a function's values over a finite set:   *)
(* what it does when one value changes, when an element joins the set, and *)
(* between which bounds it stays.  The library picks the elements in an    *)
(* order of its own; the facts say that it does not matter.  A fold over a *)
(* list is the sequence of its intermediate results.                       *)
(*                                                                         *)
(* Induction is on the size of the set, by the least-element principle     *)
(* (WFMin): the set of the sizes for which a fact holds contains 0 and is  *)
(* closed under successor.                                                 *)
(***************************************************************************)
EXTENDS Lists, FiniteSetTheorems, TLAPS

\* A product of bounded numbers is bounded by the product of their bounds.
LEMMA ProductBound ==
  ASSUME NEW Q \in Nat, NEW P \in Nat, NEW q \in 0 .. Q, NEW p \in 0 .. P
  PROVE  q * p \in 0 .. Q * P
<1>1. PICK d \in Nat : Q = q + d
  <2>1. Q - q \in Nat /\ Q = q + (Q - q)
    OBVIOUS
  <2> QED
    BY <2>1
<1>2. PICK e \in Nat : P = p + e
  <2>1. P - p \in Nat /\ P = p + (P - p)
    OBVIOUS
  <2> QED
    BY <2>1
<1>3. Q * P = q * p + q * e + d * p + d * e
  BY <1>1, <1>2
<1>4. q * p \in Nat /\ q * e \in Nat /\ d * p \in Nat /\ d * e \in Nat
  BY <1>1, <1>2
<1> QED
  BY <1>3, <1>4

\* What was multiplied divides again.
LEMMA DivideBack ==
  ASSUME NEW q \in Nat, NEW p \in Nat, p > 0
  PROVE  (q * p) \div p = q
<1> DEFINE a == q * p
<1>1. a \in Nat /\ a = p * q
  OBVIOUS
<1>2. p * q <= a /\ a < p * (q + 1)
  BY <1>1
<1>3. p * (a \div p) <= a /\ a < p * (a \div p + 1) /\ a \div p \in Nat
  BY <1>1
<1> DEFINE d == a \div p
<1> SUFFICES d = q
  OBVIOUS
<1> HIDE DEF a, d
<1>4. CASE d < q
  <2>1. PICK e \in Nat : q = d + 1 + e
    <3>1. d \in Nat
      BY <1>3 DEF d
    <3>2. q - d - 1 \in Nat /\ q = d + 1 + (q - d - 1)
      BY <1>4, <3>1
    <3> QED
      BY <3>2
  <2>2. p * q = p * (d + 1) + p * e /\ p * e \in Nat
    BY <1>3, <2>1 DEF d
  <2> QED
    BY <1>1, <1>2, <1>3, <2>2 DEF d
<1>5. CASE q < d
  <2>1. PICK e \in Nat : d = q + 1 + e
    <3>1. d \in Nat
      BY <1>3 DEF d
    <3>2. d - q - 1 \in Nat /\ d = q + 1 + (d - q - 1)
      BY <1>5, <3>1
    <3> QED
      BY <3>2
  <2>2. p * d = p * (q + 1) + p * e /\ p * e \in Nat
    BY <1>3, <2>1 DEF d
  <2> QED
    BY <1>1, <1>2, <1>3, <2>2 DEF d
<1> QED
  BY <1>3, <1>4, <1>5 DEF d

\* A number is not smaller than what is left of it by division.
LEMMA QuotientBound ==
  ASSUME NEW a \in Nat, NEW k \in Nat \ {0}
  PROVE  a \div k \in 0 .. a
<1> DEFINE d == a \div k
<1>1. d \in Nat /\ k * d <= a
  OBVIOUS
<1> HIDE DEF d
<1>2. PICK e \in Nat : k = e + 1
  <2>1. k - 1 \in Nat /\ k = (k - 1) + 1
    OBVIOUS
  <2> QED
    BY <2>1
<1>3. k * d = e * d + d /\ e * d \in Nat
  BY <1>1, <1>2
<1> QED
  BY <1>1, <1>3 DEF d

\* A set that holds 0 and the successor of each of its numbers holds them all.
LEMMA SetInduction ==
  ASSUME NEW T, 0 \in T, \A n \in Nat : n \in T => n + 1 \in T
  PROVE  Nat \subseteq T
<1> DEFINE R == OpToRel(<, Nat)
<1>1. IsWellFoundedOn(R, Nat)
  BY NatLessThanWellFounded
<1> SUFFICES ASSUME Nat \ T # {} PROVE FALSE
  OBVIOUS
<1>2. PICK x \in Nat \ T : \A y \in Nat \ T : ~(<<y, x>> \in R)
  <2> HIDE DEF R
  <2>1. Nat \ T \subseteq Nat
    OBVIOUS
  <2> QED
    BY <1>1, <2>1, WFMin
<1>3. x # 0 /\ x - 1 \in Nat
  OBVIOUS
<1>4. x - 1 \in Nat \ T
  BY <1>3
<1>5. <<x - 1, x>> \in R
  BY <1>3 DEF OpToRel
<1> QED
  BY <1>2, <1>4, <1>5

\* The element the library takes out of a set.
Pick(s) == CHOOSE x \in s : TRUE

\* What is picked is in the set.
LEMMA Picked == \A s : s # {} => Pick(s) \in s
  BY DEF Pick

\* Removing an element of a finite set leaves a smaller one.
LEMMA Smaller ==
  ASSUME NEW S, IsFiniteSet(S), NEW x \in S
  PROVE  /\ IsFiniteSet(S \ {x})
         /\ Cardinality(S) \in Nat /\ Cardinality(S \ {x}) \in Nat
         /\ Cardinality(S) = Cardinality(S \ {x}) + 1
<1>1. IsFiniteSet(S \ {x}) /\ Cardinality(S \ {x}) = Cardinality(S) - 1
  BY FS_RemoveElement
<1>2. Cardinality(S) \in Nat /\ Cardinality(S \ {x}) \in Nat
  BY <1>1, FS_CardinalityType
<1> QED
  BY <1>1, <1>2

\* h[s] is the sum of f over each subset s of S, in the library's order.
Adds(h, f, S) ==
  h = [s \in SUBSET S |-> IF s = {} THEN 0 ELSE f[Pick(s)] + h[s \ {Pick(s)}]]

\* Its values, once it is known to have integers for values.
AddsInt(h, f, S) ==
  /\ h \in [SUBSET S -> Int]
  /\ \A s \in SUBSET S : h[s] = IF s = {} THEN 0 ELSE f[Pick(s)] + h[s \ {Pick(s)}]

\* There is such a function, built up by the size of the subsets.
LEMMA AdderExists ==
  ASSUME NEW S, IsFiniteSet(S), NEW f, \A x \in S : f[x] \in Int
  PROVE  \E h : AddsInt(h, f, S)
<1> DEFINE Small(h, n) ==
             \A s \in SUBSET S : Cardinality(s) <= n =>
               h[s] = IF s = {} THEN 0 ELSE f[Pick(s)] + h[s \ {Pick(s)}]
           T == {n \in Nat : \E h \in [SUBSET S -> Int] : Small(h, n)}
<1>1. \A s \in SUBSET S : IsFiniteSet(s) /\ Cardinality(s) \in Nat /\ (Cardinality(s) = 0 <=> s = {})
  BY FS_Subset, FS_CardinalityType, FS_EmptySet
<1>2. \A s \in SUBSET S : s # {} =>
        /\ Pick(s) \in s /\ f[Pick(s)] \in Int /\ s \ {Pick(s)} \in SUBSET S
        /\ Cardinality(s) = Cardinality(s \ {Pick(s)}) + 1
  BY <1>1, Smaller, Picked
<1>3. 0 \in T
  <2> DEFINE h == [s \in SUBSET S |-> 0]
  <2>1. h \in [SUBSET S -> Int] /\ Small(h, 0)
    BY <1>1
  <2> QED
    BY <2>1
<1>4. ASSUME NEW n \in Nat, n \in T PROVE n + 1 \in T
  <2>1. PICK h \in [SUBSET S -> Int] : Small(h, n)
    BY <1>4
  <2> DEFINE g == [s \in SUBSET S |->
                     IF Cardinality(s) = n + 1 THEN f[Pick(s)] + h[s \ {Pick(s)}] ELSE h[s]]
  <2>2. \A s \in SUBSET S : Cardinality(s) = n + 1 => s # {}
    BY <1>1
  <2>3. g \in [SUBSET S -> Int]
    BY <1>2, <2>2
  <2>4. \A s \in SUBSET S : Cardinality(s) <= n => g[s] = h[s]
    BY <1>1
  <2>5. \A s \in SUBSET S : s # {} /\ Cardinality(s) <= n + 1 =>
          g[s \ {Pick(s)}] = h[s \ {Pick(s)}]
    <3> SUFFICES ASSUME NEW s \in SUBSET S, s # {}, Cardinality(s) <= n + 1
                 PROVE  g[s \ {Pick(s)}] = h[s \ {Pick(s)}]
      OBVIOUS
    <3>1. s \ {Pick(s)} \in SUBSET S /\ Cardinality(s \ {Pick(s)}) <= n
      BY <1>1, <1>2
    <3> QED
      BY <2>4, <3>1
  <2>6. Small(g, n + 1)
    <3> SUFFICES ASSUME NEW s \in SUBSET S, Cardinality(s) <= n + 1
                 PROVE  g[s] = IF s = {} THEN 0 ELSE f[Pick(s)] + g[s \ {Pick(s)}]
      OBVIOUS
    <3>1. CASE Cardinality(s) <= n
      <4>1. g[s] = h[s]
        BY <2>4, <3>1
      <4>2. s # {} => g[s \ {Pick(s)}] = h[s \ {Pick(s)}]
        BY <2>5
      <4> HIDE DEF g
      <4> QED
        BY <2>1, <3>1, <4>1, <4>2
    <3>2. CASE Cardinality(s) = n + 1
      <4>1. s # {} /\ g[s] = f[Pick(s)] + h[s \ {Pick(s)}]
        BY <2>2, <3>2
      <4>2. g[s \ {Pick(s)}] = h[s \ {Pick(s)}]
        BY <2>5, <4>1
      <4> HIDE DEF g
      <4> QED
        BY <4>1, <4>2
    <3> QED
      BY <1>1, <3>1, <3>2
  <2> HIDE DEF g, Small
  <2> QED
    BY <2>3, <2>6
<1>5. Nat \subseteq T
  <2> HIDE DEF T
  <2> QED
    BY <1>3, <1>4, SetInduction
<1>6. Cardinality(S) \in Nat
  BY FS_CardinalityType
<1>7. PICK h \in [SUBSET S -> Int] : Small(h, Cardinality(S))
  BY <1>5, <1>6
<1>8. \A s \in SUBSET S : Cardinality(s) <= Cardinality(S)
  BY FS_Subset
<1> QED
  BY <1>7, <1>8 DEF AddsInt

\* Two functions that add equal values agree.
LEMMA AddersAgree ==
  ASSUME NEW W, IsFiniteSet(W), NEW S, NEW R, W \subseteq S, W \subseteq R,
         NEW f, NEW e, \A x \in W : f[x] = e[x],
         NEW h, Adds(h, f, S), NEW g, Adds(g, e, R)
  PROVE  h[W] = g[W]
<1> DEFINE T == {n \in Nat : \A s \in SUBSET W : Cardinality(s) = n => h[s] = g[s]}
<1>1. \A s \in SUBSET W : /\ IsFiniteSet(s) /\ Cardinality(s) \in Nat
                          /\ Cardinality(s) = 0 <=> s = {}
                          /\ s \in SUBSET S /\ s \in SUBSET R
  BY FS_Subset, FS_CardinalityType, FS_EmptySet
<1>2. 0 \in T
  BY <1>1 DEF Adds
<1>3. ASSUME NEW n \in Nat, n \in T PROVE n + 1 \in T
  <2> SUFFICES ASSUME NEW s \in SUBSET W, Cardinality(s) = n + 1 PROVE h[s] = g[s]
    OBVIOUS
  <2>1. s # {} /\ Pick(s) \in s
    BY <1>1, Picked
  <2>2. s \ {Pick(s)} \in SUBSET W /\ Cardinality(s \ {Pick(s)}) = n
    BY <1>1, <2>1, Smaller
  <2>3. h[s \ {Pick(s)}] = g[s \ {Pick(s)}]
    BY <1>3, <2>2
  <2>4. h[s] = f[Pick(s)] + h[s \ {Pick(s)}] /\ g[s] = e[Pick(s)] + g[s \ {Pick(s)}]
    BY <1>1, <2>1 DEF Adds
  <2>5. f[Pick(s)] = e[Pick(s)]
    BY <2>1
  <2> QED
    BY <2>3, <2>4, <2>5
<1>4. Nat \subseteq T
  <2> HIDE DEF T
  <2> QED
    BY <1>2, <1>3, SetInduction
<1> QED
  BY <1>1, <1>4

\* A sum of integers is a sum.
LEMMA AddedIsInt ==
  ASSUME NEW S, NEW f, NEW h, AddsInt(h, f, S)
  PROVE  Adds(h, f, S)
  BY DEF Adds, AddsInt

\* The library's sum is the value of that function.
LEMMA SumIsAdded ==
  ASSUME NEW S, IsFiniteSet(S), NEW f, \A x \in S : f[x] \in Int
  PROVE  \E h : AddsInt(h, f, S) /\ SumFunctionOnSet(f, S) = h[S]
<1> DEFINE Q(t) == t = [s \in SUBSET S |->
                         IF s = {} THEN 0
                         ELSE f[CHOOSE x \in s : TRUE] + t[s \ {CHOOSE x \in s : TRUE}]]
           c == CHOOSE t : Q(t)
<1>1. PICK h : AddsInt(h, f, S)
  BY AdderExists
<1>2. Q(h)
  BY <1>1 DEF AddsInt, Pick
<1>3. Q(c)
  <2> HIDE DEF Q
  <2> QED
    BY <1>2
<1>4. SumFunctionOnSet(f, S) = c[S]
  BY DEF SumFunctionOnSet, FoldFunctionOnSet, MapThenFoldSet
<1> HIDE DEF c
<1>5. Adds(c, f, S) /\ Adds(h, f, S)
  BY <1>2, <1>3 DEF Adds, Pick
<1>6. c[S] = h[S]
  BY <1>5, AddersAgree
<1> QED
  BY <1>1, <1>4, <1>6

\* Any element may be taken out first.
LEMMA AdderRemoves ==
  ASSUME NEW S, IsFiniteSet(S), NEW f, \A x \in S : f[x] \in Int,
         NEW h, AddsInt(h, f, S), NEW W \in SUBSET S, NEW x \in W
  PROVE  h[W] = f[x] + h[W \ {x}]
<1> DEFINE T == {n \in Nat : \A s \in SUBSET S : Cardinality(s) = n =>
                              \A y \in s : h[s] = f[y] + h[s \ {y}]}
<1>1. \A s \in SUBSET S : IsFiniteSet(s) /\ Cardinality(s) \in Nat /\ (Cardinality(s) = 0 <=> s = {})
  BY FS_Subset, FS_CardinalityType, FS_EmptySet
<1>2. 0 \in T
  BY <1>1
<1>3. ASSUME NEW n \in Nat, n \in T PROVE n + 1 \in T
  <2> SUFFICES ASSUME NEW s \in SUBSET S, Cardinality(s) = n + 1, NEW y \in s
               PROVE  h[s] = f[y] + h[s \ {y}]
    OBVIOUS
  <2> DEFINE z == Pick(s)
  <2>1. z \in s /\ h[s] = f[z] + h[s \ {z}]
    BY <1>1, Picked DEF AddsInt
  <2> HIDE DEF z
  <2>2. CASE z = y
    BY <2>1, <2>2
  <2>3. CASE z # y
    <3>1. y \in s \ {z} /\ z \in s \ {y} /\ s \ {z} \in SUBSET S /\ s \ {y} \in SUBSET S
      BY <2>1, <2>3
    <3>2. Cardinality(s \ {z}) = n /\ Cardinality(s \ {y}) = n
      BY <1>1, <2>1, Smaller
    <3>3. h[s \ {z}] = f[y] + h[(s \ {z}) \ {y}] /\ h[s \ {y}] = f[z] + h[(s \ {y}) \ {z}]
      BY <1>3, <3>1, <3>2
    <3> DEFINE r == (s \ {z}) \ {y}
    <3>4. r = (s \ {y}) \ {z} /\ r \in SUBSET S
      OBVIOUS
    <3> HIDE DEF r
    <3>5. h[s \ {z}] = f[y] + h[r] /\ h[s \ {y}] = f[z] + h[r]
      BY <3>3, <3>4 DEF r
    <3>6. h[r] \in Int /\ f[y] \in Int /\ f[z] \in Int
      BY <2>1, <3>4 DEF AddsInt
    <3> QED
      BY <2>1, <3>5, <3>6
  <2> QED
    BY <2>2, <2>3
<1>4. Nat \subseteq T
  <2> HIDE DEF T
  <2> QED
    BY <1>2, <1>3, SetInduction
<1> QED
  BY <1>1, <1>4
-----------------------------------------------------------------------------
(* What the proofs about the books use. *)

\* A sum of integers is an integer, and that of nothing is 0.
LEMMA SumType ==
  ASSUME NEW S, IsFiniteSet(S), NEW f, \A x \in S : f[x] \in Int
  PROVE  SumFunctionOnSet(f, S) \in Int /\ (S = {} => SumFunctionOnSet(f, S) = 0)
<1>1. PICK h : AddsInt(h, f, S) /\ SumFunctionOnSet(f, S) = h[S]
  BY SumIsAdded
<1> QED
  BY <1>1 DEF AddsInt

\* Equal values add up to equal sums.
LEMMA SumSame ==
  ASSUME NEW S, IsFiniteSet(S), NEW f, NEW g, \A x \in S : f[x] \in Int /\ f[x] = g[x]
  PROVE  SumFunctionOnSet(f, S) = SumFunctionOnSet(g, S)
<1>1. PICK h : AddsInt(h, f, S) /\ SumFunctionOnSet(f, S) = h[S]
  BY SumIsAdded
<1>2. PICK e : AddsInt(e, g, S) /\ SumFunctionOnSet(g, S) = e[S]
  BY SumIsAdded
<1> QED
  BY <1>1, <1>2, AddersAgree, AddedIsInt

\* A sum is any of its values and the sum of the others.
LEMMA SumRemoves ==
  ASSUME NEW S, IsFiniteSet(S), NEW f, \A y \in S : f[y] \in Int, NEW x \in S
  PROVE  SumFunctionOnSet(f, S) = f[x] + SumFunctionOnSet(f, S \ {x})
<1>1. PICK h : AddsInt(h, f, S) /\ SumFunctionOnSet(f, S) = h[S]
  BY SumIsAdded
<1>2. IsFiniteSet(S \ {x})
  BY Smaller
<1>3. PICK e : AddsInt(e, f, S \ {x}) /\ SumFunctionOnSet(f, S \ {x}) = e[S \ {x}]
  BY <1>2, SumIsAdded
<1>4. h[S \ {x}] = e[S \ {x}]
  BY <1>1, <1>2, <1>3, AddersAgree, AddedIsInt
<1>5. h[S] = f[x] + h[S \ {x}]
  <2>1. \A W \in SUBSET S : x \in W => h[W] = f[x] + h[W \ {x}]
    BY <1>1, AdderRemoves
  <2>2. S \in SUBSET S
    OBVIOUS
  <2> QED
    BY <2>1, <2>2
<1> QED
  BY <1>1, <1>3, <1>4, <1>5

\* Where one value changes, the sum changes by the difference.
LEMMA SumChanges ==
  ASSUME NEW S, IsFiniteSet(S), NEW f, NEW g, NEW x \in S,
         \A y \in S : f[y] \in Int /\ g[y] \in Int,
         \A y \in S : y # x => f[y] = g[y]
  PROVE  SumFunctionOnSet(g, S) = SumFunctionOnSet(f, S) + g[x] - f[x]
<1>1. IsFiniteSet(S \ {x})
  BY Smaller
<1>2. SumFunctionOnSet(f, S \ {x}) = SumFunctionOnSet(g, S \ {x})
  BY <1>1, SumSame
<1>3. SumFunctionOnSet(f, S \ {x}) \in Int
  BY <1>1, SumType
<1>4. /\ SumFunctionOnSet(f, S) = f[x] + SumFunctionOnSet(f, S \ {x})
      /\ SumFunctionOnSet(g, S) = g[x] + SumFunctionOnSet(g, S \ {x})
  BY SumRemoves
<1> QED
  BY <1>2, <1>3, <1>4

\* Where an element joins, its value is added.
LEMMA SumGrows ==
  ASSUME NEW S, IsFiniteSet(S), NEW f, NEW g, NEW x, x \notin S, g[x] \in Int,
         \A y \in S : f[y] \in Int /\ f[y] = g[y]
  PROVE  SumFunctionOnSet(g, S \cup {x}) = SumFunctionOnSet(f, S) + g[x]
<1> DEFINE R == S \cup {x}
<1>1. IsFiniteSet(R) /\ R \ {x} = S /\ x \in R /\ \A y \in R : g[y] \in Int
  BY FS_AddElement
<1> HIDE DEF R
<1>2. SumFunctionOnSet(g, R) = g[x] + SumFunctionOnSet(g, S)
  BY <1>1, SumRemoves
<1>3. SumFunctionOnSet(g, S) = SumFunctionOnSet(f, S) /\ SumFunctionOnSet(f, S) \in Int
  BY SumSame, SumType
<1> QED
  BY <1>2, <1>3 DEF R

\* Elements whose value is 0 may be left out.
LEMMA SumOmits ==
  ASSUME NEW S, IsFiniteSet(S), NEW f, \A x \in S : f[x] \in Int,
         NEW W \in SUBSET S, \A x \in S \ W : f[x] = 0
  PROVE  SumFunctionOnSet(f, S) = SumFunctionOnSet(f, W)
<1> DEFINE T == {n \in Nat : \A s \in SUBSET (S \ W) : Cardinality(s) = n =>
                  SumFunctionOnSet(f, W \cup s) = SumFunctionOnSet(f, W)}
<1>1. \A s \in SUBSET (S \ W) : IsFiniteSet(s) /\ Cardinality(s) \in Nat /\ (Cardinality(s) = 0 <=> s = {})
  <2>1. \A s \in SUBSET (S \ W) : s \in SUBSET S
    OBVIOUS
  <2> QED
    BY <2>1, FS_Subset, FS_CardinalityType, FS_EmptySet
<1>2. 0 \in T
  <2>1. W \cup {} = W
    OBVIOUS
  <2> QED
    BY <1>1, <2>1
<1>3. ASSUME NEW n \in Nat, n \in T PROVE n + 1 \in T
  <2> SUFFICES ASSUME NEW s \in SUBSET (S \ W), Cardinality(s) = n + 1
               PROVE  SumFunctionOnSet(f, W \cup s) = SumFunctionOnSet(f, W)
    OBVIOUS
  <2>1. PICK x \in s : TRUE
    BY <1>1
  <2>2. Cardinality(s \ {x}) = n /\ s \ {x} \in SUBSET (S \ W)
    BY <1>1, Smaller
  <2>3. SumFunctionOnSet(f, W \cup (s \ {x})) = SumFunctionOnSet(f, W)
    BY <1>3, <2>2
  <2>4. (W \cup s) \ {x} = W \cup (s \ {x}) /\ x \in W \cup s /\ f[x] = 0
    BY <2>1
  <2>5. W \cup s \in SUBSET S /\ W \in SUBSET S
    OBVIOUS
  <2>6. IsFiniteSet(W \cup s) /\ IsFiniteSet(W)
    BY <2>5, FS_Subset
  <2>7. SumFunctionOnSet(f, W \cup s) = f[x] + SumFunctionOnSet(f, (W \cup s) \ {x})
    BY <2>4, <2>5, <2>6, SumRemoves
  <2>8. SumFunctionOnSet(f, W) \in Int
    BY <2>6, SumType
  <2> QED
    BY <2>3, <2>4, <2>7, <2>8
<1>4. Nat \subseteq T
  <2> HIDE DEF T
  <2> QED
    BY <1>2, <1>3, SetInduction
<1>5. W \cup (S \ W) = S
  OBVIOUS
<1>6. S \ W \in SUBSET (S \ W)
  OBVIOUS
<1>7. Cardinality(S \ W) \in T
  BY <1>1, <1>4, <1>6
<1> QED
  BY <1>5, <1>6, <1>7

\* A sum of n values above -b is above -n * b.
LEMMA SumBound ==
  ASSUME NEW S, IsFiniteSet(S), NEW f, NEW b \in Nat, \A x \in S : f[x] \in Int /\ -b <= f[x]
  PROVE  -(Cardinality(S) * b) <= SumFunctionOnSet(f, S)
<1> DEFINE T == {n \in Nat : \A s \in SUBSET S : Cardinality(s) = n =>
                  -(n * b) <= SumFunctionOnSet(f, s)}
<1>1. \A s \in SUBSET S : IsFiniteSet(s) /\ Cardinality(s) \in Nat /\ (Cardinality(s) = 0 <=> s = {})
  BY FS_Subset, FS_CardinalityType, FS_EmptySet
<1>2. 0 \in T
  BY <1>1, SumType
<1>3. ASSUME NEW n \in Nat, n \in T PROVE n + 1 \in T
  <2> SUFFICES ASSUME NEW s \in SUBSET S, Cardinality(s) = n + 1
               PROVE  -((n + 1) * b) <= SumFunctionOnSet(f, s)
    OBVIOUS
  <2>1. PICK x \in s : TRUE
    BY <1>1
  <2>2. Cardinality(s \ {x}) = n /\ s \ {x} \in SUBSET S /\ IsFiniteSet(s)
    BY <1>1, Smaller
  <2>3. -(n * b) <= SumFunctionOnSet(f, s \ {x})
    BY <1>3, <2>2
  <2>4. SumFunctionOnSet(f, s) = f[x] + SumFunctionOnSet(f, s \ {x})
    BY <2>2, SumRemoves
  <2>5. SumFunctionOnSet(f, s \ {x}) \in Int
    BY <1>1, <2>2, SumType
  <2>6. (n + 1) * b = n * b + b /\ n * b \in Int
    OBVIOUS
  <2>7. f[x] \in Int /\ -b <= f[x]
    OBVIOUS
  <2> QED
    BY <2>3, <2>4, <2>5, <2>6, <2>7
<1>4. Nat \subseteq T
  <2> HIDE DEF T
  <2> QED
    BY <1>2, <1>3, SetInduction
<1> QED
  BY <1>1, <1>4
-----------------------------------------------------------------------------
(* Folds in general. *)

\* k chooses an element of each subset of S; g takes it and a value to a value.
Folding(S, V, k, g) ==
  /\ \A s \in SUBSET S : s # {} => k[s] \in s
  /\ g \in [S \X V -> V]

\* t[s] is what they make of the subset s, starting with `base`.
Folds(t, S, V, base, k, g) ==
  /\ t \in [SUBSET S -> V]
  /\ \A s \in SUBSET S : t[s] = IF s = {} THEN base ELSE g[<<k[s], t[s \ {k[s]}]>>]

\* There is such a function.
LEMMA FoldExists ==
  ASSUME NEW S, IsFiniteSet(S), NEW V, NEW base \in V, NEW k, NEW g, Folding(S, V, k, g)
  PROVE  \E t : Folds(t, S, V, base, k, g)
<1> DEFINE Small(h, n) ==
             \A s \in SUBSET S : Cardinality(s) <= n =>
               h[s] = IF s = {} THEN base ELSE g[<<k[s], h[s \ {k[s]}]>>]
           T == {n \in Nat : \E h \in [SUBSET S -> V] : Small(h, n)}
<1>1. \A s \in SUBSET S : IsFiniteSet(s) /\ Cardinality(s) \in Nat /\ (Cardinality(s) = 0 <=> s = {})
  BY FS_Subset, FS_CardinalityType, FS_EmptySet
<1>2. \A s \in SUBSET S : s # {} =>
        /\ k[s] \in s /\ s \ {k[s]} \in SUBSET S
        /\ Cardinality(s) = Cardinality(s \ {k[s]}) + 1
  BY <1>1, Smaller DEF Folding
<1>3. 0 \in T
  <2> DEFINE h == [s \in SUBSET S |-> base]
  <2>1. h \in [SUBSET S -> V] /\ Small(h, 0)
    BY <1>1
  <2> QED
    BY <2>1
<1>4. ASSUME NEW n \in Nat, n \in T PROVE n + 1 \in T
  <2>1. PICK h \in [SUBSET S -> V] : Small(h, n)
    BY <1>4
  <2> DEFINE e == [s \in SUBSET S |->
                     IF Cardinality(s) = n + 1 THEN g[<<k[s], h[s \ {k[s]}]>>] ELSE h[s]]
  <2>2. \A s \in SUBSET S : Cardinality(s) = n + 1 => s # {}
    BY <1>1
  <2>3. e \in [SUBSET S -> V]
    <3>1. ASSUME NEW s \in SUBSET S, Cardinality(s) = n + 1 PROVE g[<<k[s], h[s \ {k[s]}]>>] \in V
      <4>1. k[s] \in S /\ h[s \ {k[s]}] \in V
        BY <1>2, <2>2, <3>1
      <4> QED
        BY <4>1 DEF Folding
    <3> QED
      BY <3>1
  <2>4. \A s \in SUBSET S : Cardinality(s) <= n => e[s] = h[s]
    BY <1>1
  <2>5. \A s \in SUBSET S : s # {} /\ Cardinality(s) <= n + 1 =>
          e[s \ {k[s]}] = h[s \ {k[s]}]
    <3> SUFFICES ASSUME NEW s \in SUBSET S, s # {}, Cardinality(s) <= n + 1
                 PROVE  e[s \ {k[s]}] = h[s \ {k[s]}]
      OBVIOUS
    <3>1. s \ {k[s]} \in SUBSET S /\ Cardinality(s \ {k[s]}) <= n
      BY <1>1, <1>2
    <3> QED
      BY <2>4, <3>1
  <2>6. Small(e, n + 1)
    <3> SUFFICES ASSUME NEW s \in SUBSET S, Cardinality(s) <= n + 1
                 PROVE  e[s] = IF s = {} THEN base ELSE g[<<k[s], e[s \ {k[s]}]>>]
      OBVIOUS
    <3>1. CASE Cardinality(s) <= n
      <4>1. e[s] = h[s]
        BY <2>4, <3>1
      <4>2. s # {} => e[s \ {k[s]}] = h[s \ {k[s]}]
        BY <2>5
      <4> HIDE DEF e
      <4> QED
        BY <2>1, <3>1, <4>1, <4>2
    <3>2. CASE Cardinality(s) = n + 1
      <4>1. s # {} /\ e[s] = g[<<k[s], h[s \ {k[s]}]>>]
        BY <2>2, <3>2
      <4>2. e[s \ {k[s]}] = h[s \ {k[s]}]
        BY <2>5, <4>1
      <4> HIDE DEF e
      <4> QED
        BY <4>1, <4>2
    <3> QED
      BY <1>1, <3>1, <3>2
  <2> HIDE DEF e, Small
  <2> QED
    BY <2>3, <2>6
<1>5. Nat \subseteq T
  <2> HIDE DEF T
  <2> QED
    BY <1>3, <1>4, SetInduction
<1>6. Cardinality(S) \in Nat
  BY FS_CardinalityType
<1>7. PICK h \in [SUBSET S -> V] : Small(h, Cardinality(S))
  BY <1>5, <1>6
<1>8. \A s \in SUBSET S : Cardinality(s) <= Cardinality(S)
  BY FS_Subset
<1> QED
  BY <1>7, <1>8 DEF Folds

\* What a fold starts with, and its step keeps, it ends with.
LEMMA FoldStays ==
  ASSUME NEW S, IsFiniteSet(S), NEW t, NEW v, t[{}] \in v[{}],
         \A s \in SUBSET S : s # {} =>
           \E x \in s : t[s \ {x}] \in v[s \ {x}] => t[s] \in v[s]
  PROVE  t[S] \in v[S]
<1> DEFINE T == {n \in Nat : \A s \in SUBSET S : Cardinality(s) = n => t[s] \in v[s]}
<1>1. \A s \in SUBSET S : IsFiniteSet(s) /\ Cardinality(s) \in Nat /\ (Cardinality(s) = 0 <=> s = {})
  BY FS_Subset, FS_CardinalityType, FS_EmptySet
<1>2. 0 \in T
  BY <1>1
<1>3. ASSUME NEW n \in Nat, n \in T PROVE n + 1 \in T
  <2> SUFFICES ASSUME NEW s \in SUBSET S, Cardinality(s) = n + 1 PROVE t[s] \in v[s]
    OBVIOUS
  <2>1. s # {}
    BY <1>1
  <2>2. PICK x \in s : t[s \ {x}] \in v[s \ {x}] => t[s] \in v[s]
    BY <2>1
  <2>3. Cardinality(s \ {x}) = n /\ s \ {x} \in SUBSET S
    BY <1>1, Smaller
  <2> QED
    BY <1>3, <2>2, <2>3
<1>4. Nat \subseteq T
  <2> HIDE DEF T
  <2> QED
    BY <1>2, <1>3, SetInduction
<1>5. Cardinality(S) \in T /\ S \in SUBSET S
  BY <1>1, <1>4
<1> QED
  BY <1>5

\* Among a few indices there is one with the largest value.
LEMMA LargestIn ==
  ASSUME NEW n \in Nat, NEW s, s \subseteq 1 .. n, s # {}, NEW f, \A x \in s : f[x] \in Int
  PROVE  \E x \in s : \A y \in s : f[x] >= f[y]
<1> DEFINE T == {m \in Nat : \A r \in SUBSET (1 .. m) :
                  (r # {} /\ \A x \in r : f[x] \in Int) => \E x \in r : \A y \in r : f[x] >= f[y]}
<1>1. 0 \in T
  <2>1. 1 .. 0 = {}
    OBVIOUS
  <2> QED
    BY <2>1
<1>2. ASSUME NEW m \in Nat, m \in T PROVE m + 1 \in T
  <2> SUFFICES ASSUME NEW r \in SUBSET (1 .. m + 1), r # {}, \A x \in r : f[x] \in Int
               PROVE  \E x \in r : \A y \in r : f[x] >= f[y]
    OBVIOUS
  <2>1. r \ {m + 1} \in SUBSET (1 .. m) /\ \A x \in r \ {m + 1} : f[x] \in Int
    OBVIOUS
  <2>2. CASE r \ {m + 1} = {}
    <3>1. m + 1 \in r /\ \A y \in r : y = m + 1
      BY <2>2
    <3> QED
      BY <3>1
  <2>3. CASE r \ {m + 1} # {}
    <3>1. PICK x \in r \ {m + 1} : \A y \in r \ {m + 1} : f[x] >= f[y]
      BY <1>2, <2>1, <2>3
    <3>2. CASE m + 1 \in r /\ f[m + 1] >= f[x]
      <4>1. \A y \in r : f[m + 1] >= f[y]
        BY <3>1, <3>2
      <4> QED
        BY <3>2, <4>1
    <3>3. CASE ~(m + 1 \in r /\ f[m + 1] >= f[x])
      <4>1. \A y \in r : f[x] >= f[y]
        BY <3>1, <3>3
      <4> QED
        BY <4>1
    <3> QED
      BY <3>2, <3>3
  <2> QED
    BY <2>2, <2>3
<1>3. Nat \subseteq T
  <2> HIDE DEF T
  <2> QED
    BY <1>1, <1>2, SetInduction
<1> QED
  BY <1>3

\* A sum of values up to b is at most b for each.
LEMMA SumWithin ==
  ASSUME NEW S, IsFiniteSet(S), NEW f, NEW b \in Nat, \A x \in S : f[x] \in 0 .. b
  PROVE  SumFunctionOnSet(f, S) \in 0 .. Cardinality(S) * b
<1>1. PICK h : AddsInt(h, f, S) /\ SumFunctionOnSet(f, S) = h[S]
  <2>1. \A x \in S : f[x] \in Int
    OBVIOUS
  <2> QED
    BY <2>1, SumIsAdded
<1> DEFINE v == [s \in SUBSET S |-> 0 .. Cardinality(s) * b]
<1>2. \A s \in SUBSET S : IsFiniteSet(s) /\ Cardinality(s) \in Nat
  BY FS_Subset, FS_CardinalityType
<1>3. h[{}] \in v[{}]
  <2>1. h[{}] = 0
    BY <1>1 DEF AddsInt
  <2>2. v[{}] = 0 .. 0 * b
    BY FS_EmptySet
  <2>3. 0 \in 0 .. 0 * b
    OBVIOUS
  <2> QED
    BY <2>1, <2>2, <2>3
<1>4. ASSUME NEW s \in SUBSET S, s # {}
      PROVE  \E x \in s : h[s \ {x}] \in v[s \ {x}] => h[s] \in v[s]
  <2>1. PICK x \in s : x = Pick(s)
    BY <1>4, Picked
  <2>2. h[s] = f[x] + h[s \ {x}]
    BY <1>1, <1>4, <2>1 DEF AddsInt
  <2>3. Cardinality(s) = Cardinality(s \ {x}) + 1 /\ s \ {x} \in SUBSET S
    BY <1>2, Smaller
  <2>4. PICK n \in Nat : n = Cardinality(s \ {x})
    BY <1>2, <2>3
  <2>5. (n + 1) * b = n * b + b /\ n * b \in Nat
    OBVIOUS
  <2>6. v[s] = 0 .. (n + 1) * b /\ v[s \ {x}] = 0 .. n * b
    BY <2>3, <2>4
  <2>7. f[x] \in 0 .. b
    OBVIOUS
  <2>8. ASSUME h[s \ {x}] \in v[s \ {x}] PROVE h[s] \in v[s]
    <3> HIDE DEF v
    <3>1. h[s \ {x}] \in 0 .. n * b
      BY <2>6, <2>8
    <3>2. PICK p \in 0 .. n * b, q \in 0 .. b : p = h[s \ {x}] /\ q = f[x]
      BY <2>7, <3>1
    <3>3. q + p \in 0 .. n * b + b
      BY <2>5
    <3> QED
      BY <2>2, <2>5, <2>6, <3>2, <3>3
  <2> QED
    BY <2>8
<1> HIDE DEF v
<1>5. h[S] \in v[S]
  BY <1>3, <1>4, FoldStays
<1> QED
  BY <1>1, <1>5 DEF v

-----------------------------------------------------------------------------
(* The smallest and the largest. *)

\* The library's maximum of a set of indices is its largest.
LEMMA MaxIsLargest ==
  ASSUME NEW n \in Nat, NEW s \in SUBSET (1 .. n), s # {}
  PROVE  Max(s) \in s /\ \A y \in s : Max(s) >= y
<1> DEFINE f == [x \in s |-> x]
<1>1. \A x \in s : f[x] \in Int
  OBVIOUS
<1> HIDE DEF f
<1>2. \E x \in s : \A y \in s : f[x] >= f[y]
  BY <1>1, LargestIn
<1>3. \E x \in s : \A y \in s : x >= y
  BY <1>2 DEF f
<1> QED
  BY <1>3 DEF Max

\* The library's minimum of two numbers.
LEMMA MinOfTwo == \A a, b \in Int : Min({a, b}) = IF a <= b THEN a ELSE b
<1> SUFFICES ASSUME NEW a \in Int, NEW b \in Int PROVE Min({a, b}) = IF a <= b THEN a ELSE b
  OBVIOUS
<1> DEFINE m == IF a <= b THEN a ELSE b
           P(x) == x \in {a, b} /\ \A y \in {a, b} : x <= y
<1>1. P(m) /\ \A x : P(x) => x = m
  OBVIOUS
<1>2. Min({a, b}) = CHOOSE x : P(x)
  BY DEF Min
<1> HIDE DEF P, m
<1>3. Min({a, b}) = m
  BY <1>1, <1>2
<1> QED
  BY <1>3 DEF m

\* The library's maximum of two numbers.
LEMMA MaxOfTwo == \A a, b \in Int : Max({a, b}) = IF a >= b THEN a ELSE b
<1> SUFFICES ASSUME NEW a \in Int, NEW b \in Int PROVE Max({a, b}) = IF a >= b THEN a ELSE b
  OBVIOUS
<1> DEFINE m == IF a >= b THEN a ELSE b
           P(x) == x \in {a, b} /\ \A y \in {a, b} : x >= y
<1>1. P(m) /\ \A x : P(x) => x = m
  OBVIOUS
<1>2. Max({a, b}) = CHOOSE x : P(x)
  BY DEF Max
<1> HIDE DEF P, m
<1>3. Max({a, b}) = m
  BY <1>1, <1>2
<1> QED
  BY <1>3 DEF m

\* The library's minimum of three amounts is one of them.
LEMMA MinOfThree ==
  ASSUME NEW a \in Nat, NEW b \in Nat, NEW c \in Nat
  PROVE  Min({a, b, c}) \in Nat /\ Min({a, b, c}) <= b
<1> DEFINE T == {a, b, c}
<1>1. \E x \in T : \A y \in T : x <= y
  OBVIOUS
<1>2. Min(T) \in T /\ \A y \in T : Min(T) <= y
  BY <1>1 DEF Min
<1> QED
  BY <1>2

\* The library's maximum of three numbers is one of them.
LEMMA MaxOfThree ==
  ASSUME NEW a \in Int, NEW b \in Int, NEW c \in Int
  PROVE  Max({a, b, c}) \in Int
<1> DEFINE T == {a, b, c}
<1>1. \E x \in T : \A y \in T : x >= y
  OBVIOUS
<1>2. Max(T) \in T
  BY <1>1 DEF Max
<1> QED
  BY <1>2

\* A hundredth of a hundred or more is not 0.
LEMMA HundredthIsPositive ==
  ASSUME NEW x \in Nat, x >= 100
  PROVE  x \div 100 \in Nat \ {0}
<1>1. PICK d : d = x \div 100
  OBVIOUS
<1>2. d \in Nat /\ x < 100 * (d + 1)
  BY <1>1
<1>3. d # 0
  BY <1>2
<1> QED
  BY <1>1, <1>2, <1>3

-----------------------------------------------------------------------------
(* Sublists. *)

\* An interval of indices is finite.
LEMMA IndicesFinite == ASSUME NEW n \in Nat PROVE IsFiniteSet(1 .. n)
<1>1. 1 \in Int /\ n \in Int
  OBVIOUS
<1> QED
  BY <1>1, FS_Interval

\* A sublist of indices in s, in order: e names the index of each of its elements.
Ordered(list, s, E) ==
  {q \in Seq(E) : \E e \in [1 .. Len(q) -> s] :
     /\ \A i \in 1 .. Len(q) : q[i] = list[e[i]]
     /\ \A i, j \in 1 .. Len(q) : i < j => e[i] < e[j]}

\* An element at an index beyond the others goes to the end.
LEMMA OrderedGrows ==
  ASSUME NEW list, NEW E, NEW s \in SUBSET Nat, NEW m \in s, \A y \in s : m >= y, list[m] \in E,
         NEW q \in Ordered(list, s \ {m}, E)
  PROVE  Append(q, list[m]) \in Ordered(list, s, E)
<1>1. q \in Seq(E) /\ Len(q) \in Nat
  BY DEF Ordered
<1>2. PICK n \in Nat : n = Len(q)
  BY <1>1
<1>3. PICK e \in [1 .. n -> s \ {m}] : /\ \A i \in 1 .. n : q[i] = list[e[i]]
                                       /\ \A i, j \in 1 .. n : i < j => e[i] < e[j]
  BY <1>2 DEF Ordered
<1> DEFINE r == Append(q, list[m])
           f == [i \in 1 .. n + 1 |-> IF i = n + 1 THEN m ELSE e[i]]
<1>4. r \in Seq(E) /\ Len(r) = n + 1
  BY <1>1, <1>2
<1>5. \A i \in 1 .. n + 1 : r[i] = IF i = n + 1 THEN list[m] ELSE q[i]
  BY <1>1, <1>2
<1>6. f \in [1 .. n + 1 -> s]
  BY <1>3
<1> HIDE DEF r
<1>7. \A i \in 1 .. n + 1 : r[i] = list[f[i]]
  BY <1>3, <1>5
<1>8. \A i, j \in 1 .. n + 1 : i < j => f[i] < f[j]
  <2> SUFFICES ASSUME NEW i \in 1 .. n + 1, NEW j \in 1 .. n + 1, i < j PROVE f[i] < f[j]
    OBVIOUS
  <2>1. i \in 1 .. n /\ f[i] = e[i] /\ e[i] \in s \ {m}
    BY <1>3
  <2>2. CASE j = n + 1
    <3>1. e[i] \in Nat /\ m \in Nat /\ m >= e[i] /\ m # e[i]
      BY <2>1
    <3> QED
      BY <2>1, <2>2, <3>1
  <2>3. CASE j # n + 1
    BY <1>3, <2>1, <2>3
  <2> QED
    BY <2>2, <2>3
<1> HIDE DEF f
<1> QED
  BY <1>4, <1>6, <1>7, <1>8 DEF r, Ordered

\* What Sublist returns.
LEMMA SublistIsOrdered ==
  ASSUME NEW n \in Nat, NEW at \in SUBSET (1 .. n), NEW list, NEW E, \A i \in at : list[i] \in E
  PROVE  Sublist(list, at) \in Ordered(list, at, E)
<1> DEFINE V == Seq(E)
           k == [s \in SUBSET at |-> Max(s)]
           g == [p \in at \X V |-> Append(p[2], list[p[1]])]
           Q(t) == t = [s \in SUBSET at |->
                          IF s = {} THEN <<>> ELSE Append(t[s \ {Max(s)}], list[Max(s)])]
           c == CHOOSE t : Q(t)
           v == [s \in SUBSET at |-> Ordered(list, s, E)]
<1>1. \A s \in SUBSET at : s # {} => Max(s) \in s /\ \A y \in s : Max(s) >= y
  BY MaxIsLargest
<1>2. IsFiniteSet(at)
  <2>1. 1 \in Int /\ n \in Int
    OBVIOUS
  <2>2. IsFiniteSet(1 .. n)
    BY <2>1, FS_Interval
  <2> QED
    BY <2>2, FS_Subset
<1>3. Folding(at, V, k, g)
  <2> SUFFICES ASSUME NEW p \in at \X V PROVE Append(p[2], list[p[1]]) \in V
    BY <1>1 DEF Folding
  <2>1. p[2] \in Seq(E) /\ list[p[1]] \in E
    OBVIOUS
  <2> QED
    BY <2>1
<1>4. PICK h : Folds(h, at, V, <<>>, k, g)
  <2>1. <<>> \in V
    OBVIOUS
  <2> HIDE DEF g, k, V
  <2> QED
    BY <1>2, <1>3, <2>1, FoldExists
<1>5. Q(c)
  <2>1. \A s \in SUBSET at : s # {} =>
          g[<<k[s], h[s \ {k[s]}]>>] = Append(h[s \ {Max(s)}], list[Max(s)])
    BY <1>1, <1>4 DEF Folds
  <2>2. \A s \in SUBSET at :
          h[s] = IF s = {} THEN <<>> ELSE Append(h[s \ {Max(s)}], list[Max(s)])
    <3> HIDE DEF g
    <3> QED
      BY <1>4, <2>1 DEF Folds
  <2>3. Q(h)
    BY <1>4, <2>2 DEF Folds
  <2> HIDE DEF Q
  <2> QED
    BY <2>3
<1>6. Sublist(list, at) = c[at]
  BY DEF Sublist, MapThenFoldSet
<1> HIDE DEF c
<1>7. c[{}] \in v[{}]
  <2>1. c[{}] = <<>> /\ {} \in SUBSET at
    BY <1>5
  <2>2. 1 .. Len(<<>>) = {}
    OBVIOUS
  <2>3. [i \in {} |-> i] \in [1 .. Len(<<>>) -> {}]
    BY <2>2
  <2>4. <<>> \in Ordered(list, {}, E)
    <3> DEFINE none == [i \in {} |-> i]
    <3>1. none \in [1 .. Len(<<>>) -> {}] /\ <<>> \in Seq(E)
      BY <2>3
    <3>2. \A i, j \in 1 .. Len(<<>>) : FALSE
      BY <2>2
    <3> HIDE DEF none
    <3> QED
      BY <3>1, <3>2 DEF Ordered
  <2> QED
    BY <2>1, <2>4
<1>8. ASSUME NEW s \in SUBSET at, s # {}
      PROVE  \E x \in s : c[s \ {x}] \in v[s \ {x}] => c[s] \in v[s]
  <2>1. PICK m \in s : m = Max(s) /\ \A y \in s : m >= y
    BY <1>1, <1>8
  <2>2. c[s] = Append(c[s \ {m}], list[m])
    BY <1>5, <1>8, <2>1
  <2>3. s \in SUBSET Nat /\ s \ {m} \in SUBSET at /\ list[m] \in E
    OBVIOUS
  <2>4. ASSUME c[s \ {m}] \in Ordered(list, s \ {m}, E) PROVE c[s] \in Ordered(list, s, E)
    <3>1. PICK q \in Ordered(list, s \ {m}, E) : q = c[s \ {m}]
      BY <2>4
    <3>2. Append(q, list[m]) \in Ordered(list, s, E)
      BY <2>1, <2>3, OrderedGrows
    <3> QED
      BY <2>2, <3>1, <3>2
  <2> QED
    BY <2>3, <2>4
<1> HIDE DEF v
<1>9. c[at] \in v[at]
  BY <1>2, <1>7, <1>8, FoldStays
<1> QED
  BY <1>6, <1>9 DEF v

-----------------------------------------------------------------------------
(* Folds over a list, from its first element on. *)

\* t[1 .. i] is what the first i of n elements make of `base`.
ListFolds(t, n, V, base, g) ==
  /\ t \in [SUBSET (1 .. n) -> V]
  /\ \A s \in SUBSET (1 .. n) : t[s] = IF s = {} THEN base ELSE g[<<Max(s), t[s \ {Max(s)}]>>]

\* The fold of a list exists.
LEMMA ListFoldExists ==
  ASSUME NEW n \in Nat, NEW V, NEW base \in V, NEW g, g \in [(1 .. n) \X V -> V]
  PROVE  \E t : ListFolds(t, n, V, base, g)
<1> DEFINE D == 1 .. n
           k == [s \in SUBSET D |-> Max(s)]
<1>1. \A s \in SUBSET D : s # {} => Max(s) \in s
  BY MaxIsLargest
<1>2. IsFiniteSet(D)
  BY IndicesFinite
<1>3. Folding(D, V, k, g)
  BY <1>1 DEF Folding
<1>4. \A s \in SUBSET D : k[s] = Max(s)
  OBVIOUS
<1> HIDE DEF D, k
<1>5. PICK t : Folds(t, D, V, base, k, g)
  BY <1>2, <1>3, FoldExists
<1>6. \A s \in SUBSET D : t[s] = IF s = {} THEN base ELSE g[<<Max(s), t[s \ {Max(s)}]>>]
  BY <1>4, <1>5 DEF Folds
<1> QED
  BY <1>5, <1>6 DEF Folds, ListFolds, D

\* The first i indices: the last of them is i.
LEMMA LastOfPrefix ==
  ASSUME NEW n \in Nat, NEW i \in 1 .. n
  PROVE  /\ 1 .. i \in SUBSET (1 .. n) /\ 1 .. i # {}
         /\ Max(1 .. i) = i /\ (1 .. i) \ {Max(1 .. i)} = 1 .. i - 1
<1>1. 1 .. i \in SUBSET (1 .. n) /\ i \in 1 .. i
  OBVIOUS
<1>2. Max(1 .. i) \in 1 .. i /\ Max(1 .. i) >= i
  BY <1>1, MaxIsLargest
<1>3. Max(1 .. i) = i
  BY <1>2
<1>4. (1 .. i) \ {i} = 1 .. i - 1
  OBVIOUS
<1> QED
  BY <1>1, <1>3, <1>4

\* What holds before the first element, and each element keeps, holds after each.
LEMMA PrefixesStay ==
  ASSUME NEW n \in Nat, NEW h, NEW v, h[0] \in v[0],
         \A i \in 1 .. n : h[i - 1] \in v[i - 1] => h[i] \in v[i]
  PROVE  \A i \in 0 .. n : h[i] \in v[i]
<1> DEFINE T == {i \in Nat : i \in 0 .. n => h[i] \in v[i]}
<1>1. 0 \in T
  OBVIOUS
<1>2. ASSUME NEW i \in Nat, i \in T PROVE i + 1 \in T
  <2> SUFFICES ASSUME i + 1 \in 0 .. n PROVE h[i + 1] \in v[i + 1]
    OBVIOUS
  <2>1. i + 1 \in 1 .. n /\ (i + 1) - 1 = i /\ i \in 0 .. n
    OBVIOUS
  <2> QED
    BY <1>2, <2>1
<1>3. Nat \subseteq T
  <2> HIDE DEF T
  <2> QED
    BY <1>1, <1>2, SetInduction
<1> QED
  BY <1>3

\* g takes an index of a list of n and a value of V, `base` first, to the next.
Turning(n, V, base, g) == base \in V /\ g \in [(1 .. n) \X V -> V]

\* c starts from `base`, and takes the steps of g wherever it is in V.
FoldsBy(c, n, V, base, g) ==
  /\ c[{}] = base
  /\ \A s \in SUBSET (1 .. n) : s # {} /\ c[s \ {Max(s)}] \in V => c[s] = g[<<Max(s), c[s \ {Max(s)}]>>]

\* What a fold makes of the first elements, for each number of them.
FoldPrefixes(c, n) == [i \in 0 .. n |-> c[1 .. i]]

\* h has the steps of g from `base` on, all of them in V.
InTurn(h, n, V, base, g) ==
  /\ h \in [0 .. n -> V] /\ h[0] = base
  /\ \A i \in 1 .. n : h[i] = g[<<i, h[i - 1]>>]

\* A fold goes from element to element and stays in V.
LEMMA FoldInTurn ==
  ASSUME NEW n \in Nat, NEW V, NEW base, NEW g, Turning(n, V, base, g),
         NEW c, FoldsBy(c, n, V, base, g)
  PROVE  InTurn(FoldPrefixes(c, n), n, V, base, g)
<1>0. /\ base \in V /\ g \in [(1 .. n) \X V -> V] /\ c[{}] = base
      /\ \A s \in SUBSET (1 .. n) : s # {} /\ c[s \ {Max(s)}] \in V => c[s] = g[<<Max(s), c[s \ {Max(s)}]>>]
  BY DEF FoldsBy, Turning
<1> DEFINE h == [i \in 0 .. n |-> c[1 .. i]]
           v == [i \in 0 .. n |-> V]
<1>1. h[0] = base
  <2>1. 1 .. 0 = {} /\ 0 \in 0 .. n
    OBVIOUS
  <2> QED
    BY <1>0, <2>1
<1>2. ASSUME NEW i \in 1 .. n, h[i - 1] \in V PROVE h[i] \in V /\ h[i] = g[<<i, h[i - 1]>>]
  <2>1. /\ 1 .. i \in SUBSET (1 .. n) /\ 1 .. i # {}
        /\ Max(1 .. i) = i /\ (1 .. i) \ {Max(1 .. i)} = 1 .. i - 1
    BY LastOfPrefix
  <2>2. i \in 0 .. n /\ i - 1 \in 0 .. n
    OBVIOUS
  <2>3. h[i] = c[1 .. i] /\ h[i - 1] = c[1 .. i - 1]
    BY <2>2
  <2> HIDE DEF h
  <2>4. h[i] = g[<<i, h[i - 1]>>]
    BY <1>0, <1>2, <2>1, <2>3
  <2>5. g[<<i, h[i - 1]>>] \in V
    BY <1>0, <1>2
  <2> QED
    BY <2>4, <2>5
<1> HIDE DEF h
<1>3. \A i \in 0 .. n : v[i] = V
  OBVIOUS
<1>4. h[0] \in v[0]
  BY <1>0, <1>1, <1>3
<1>5. \A i \in 1 .. n : h[i - 1] \in v[i - 1] => h[i] \in v[i]
  <2> SUFFICES ASSUME NEW i \in 1 .. n, h[i - 1] \in v[i - 1] PROVE h[i] \in v[i]
    OBVIOUS
  <2>1. i \in 0 .. n /\ i - 1 \in 0 .. n
    OBVIOUS
  <2> QED
    BY <1>2, <1>3, <2>1
<1> HIDE DEF v
<1>6. \A i \in 0 .. n : h[i] \in V
  BY <1>3, <1>4, <1>5, PrefixesStay
<1>7. h \in [0 .. n -> V]
  BY <1>6 DEF h
<1>8. \A i \in 1 .. n : h[i] = g[<<i, h[i - 1]>>]
  <2> SUFFICES ASSUME NEW i \in 1 .. n PROVE h[i] = g[<<i, h[i - 1]>>]
    OBVIOUS
  <2>1. i - 1 \in 0 .. n
    OBVIOUS
  <2> QED
    BY <1>2, <1>6, <2>1
<1> QED
  BY <1>1, <1>7, <1>8 DEF InTurn, FoldPrefixes, h

\* Two walks that begin alike, and go on alike, are alike.
LEMMA StepsAgree ==
  ASSUME NEW n \in Nat, NEW h, NEW k, k[0] = h[0], \A i \in 1 .. n : k[i - 1] = h[i - 1] => k[i] = h[i]
  PROVE  \A i \in 0 .. n : k[i] = h[i]
<1> DEFINE v == [i \in 0 .. n |-> {h[i]}]
<1>1. \A i \in 0 .. n : v[i] = {h[i]}
  OBVIOUS
<1>2. k[0] \in v[0]
  BY <1>1
<1>3. \A i \in 1 .. n : k[i - 1] \in v[i - 1] => k[i] \in v[i]
  <2> SUFFICES ASSUME NEW i \in 1 .. n, k[i - 1] \in v[i - 1] PROVE k[i] \in v[i]
    OBVIOUS
  <2>1. i \in 0 .. n /\ i - 1 \in 0 .. n
    OBVIOUS
  <2> QED
    BY <1>1, <2>1
<1> HIDE DEF v
<1>4. \A i \in 0 .. n : k[i] \in v[i]
  BY <1>2, <1>3, PrefixesStay
<1> QED
  BY <1>1, <1>4

-----------------------------------------------------------------------------
(* Sums over a list. *)

\* The sum of a function is that over its domain.
LEMMA SumOfFunction ==
  ASSUME NEW S, NEW f \in [S -> Int]
  PROVE  SumFunction(f) = SumFunctionOnSet(f, S)
  BY DEF SumFunction

\* The sum over an empty list is 0.
LEMMA SumOfNone ==
  ASSUME NEW f, f \in [{} -> Int]
  PROVE  SumFunction(f) = 0
<1>1. \A x \in {} : f[x] \in Int
  OBVIOUS
<1> QED
  BY <1>1, SumOfFunction, SumType, FS_EmptySet

\* One more value adds to the sum.
LEMMA SumAppends ==
  ASSUME NEW n \in Nat, NEW f, f \in [1 .. n -> Int], NEW g, g \in [1 .. n + 1 -> Int],
         \A i \in 1 .. n : g[i] = f[i]
  PROVE  /\ SumFunction(f) \in Int
         /\ SumFunction(g) = SumFunction(f) + g[n + 1]
<1>1. IsFiniteSet(1 .. n)
  BY IndicesFinite
<1>2. 1 .. n + 1 = (1 .. n) \cup {n + 1} /\ n + 1 \notin 1 .. n
  OBVIOUS
<1>3. \A y \in 1 .. n : f[y] \in Int /\ f[y] = g[y]
  OBVIOUS
<1>4. g[n + 1] \in Int
  BY <1>2
<1>5. SumFunctionOnSet(g, (1 .. n) \cup {n + 1}) = SumFunctionOnSet(f, 1 .. n) + g[n + 1]
  BY <1>1, <1>2, <1>3, <1>4, SumGrows
<1>6. SumFunctionOnSet(f, 1 .. n) \in Int
  BY <1>1, <1>3, SumType
<1>7. SumFunction(f) = SumFunctionOnSet(f, 1 .. n) /\ SumFunction(g) = SumFunctionOnSet(g, 1 .. n + 1)
  BY SumOfFunction
<1> QED
  BY <1>2, <1>5, <1>6, <1>7
=============================================================================
