----------------------------- MODULE SumsProofs -----------------------------
(***************************************************************************)
(* Facts about sums, and two about numbers and finite sets that they rest  *)
(* on.  Each induction is an argument about a least counterexample.        *)
(***************************************************************************)
EXTENDS Sums, FiniteSetTheorems, WellFoundedInduction, TLAPS

\* A set of natural numbers has a least element.
LEMMA Least ==
  ASSUME NEW T, T \subseteq Nat, T # {}
  PROVE  \E x \in T : \A y \in T : x <= y
<1> DEFINE R == {ss \in Nat \X Nat : ss[1] < ss[2]}
<1>1. IsWellFoundedOn(R, Nat)
  BY NatLessThanWellFounded DEF OpToRel
<1> HIDE DEF R
<1>2. PICK x \in T : \A y \in T : ~ (<<y, x>> \in R)
  BY <1>1, WFMin
<1>3. ASSUME NEW y \in T PROVE x <= y
  <2>1. <<y, x>> \notin R
    BY <1>2
  <2>2. <<y, x>> \in Nat \X Nat
    OBVIOUS
  <2>3. ~(y < x)
    BY <2>1, <2>2 DEF R
  <2>. QED
    BY <2>3
<1>. QED
  BY <1>3

\* What holds of a finite set if it does of each set with an element less,
\* holds of all its subsets.
LEMMA FiniteInduction ==
  ASSUME NEW S, IsFiniteSet(S), NEW T,
         \A s \in SUBSET S : (\A x \in s : s \ {x} \in T) => s \in T
  PROVE  SUBSET S \subseteq T
<1> DEFINE Bad == {n \in Nat : \E s \in SUBSET S : Cardinality(s) = n /\ s \notin T}
<1>1. SUFFICES ASSUME NEW s \in SUBSET S, s \notin T
               PROVE  FALSE
  OBVIOUS
<1>2. \A t \in SUBSET S : IsFiniteSet(t) /\ Cardinality(t) \in Nat
  BY FS_Subset, FS_CardinalityType
<1>3. Bad # {}
  BY <1>1, <1>2
<1>4. PICK n \in Bad : \A m \in Bad : n <= m
  <2> HIDE DEF Bad
  <2>1. Bad \subseteq Nat
    BY DEF Bad
  <2>. QED
    BY <1>3, <2>1, Least
<1>5. PICK t \in SUBSET S : Cardinality(t) = n /\ t \notin T
  OBVIOUS
<1>6. ASSUME NEW x \in t PROVE t \ {x} \in T
  <2>1. Cardinality(t \ {x}) = n - 1
    BY <1>2, <1>5, FS_RemoveElement
  <2>2. n - 1 \notin Bad
    BY <1>4
  <2>3. n - 1 \in Nat
    BY <1>2, <2>1
  <2>. QED
    BY <2>1, <2>2, <2>3
<1>. QED
  BY <1>5, <1>6

\* A finite set of natural numbers has a greatest element.
LEMMA Greatest ==
  ASSUME NEW S, IsFiniteSet(S), S \subseteq Nat, S # {}
  PROVE  \E x \in S : \A y \in S : y <= x
<1> DEFINE T == {s \in SUBSET S : s = {} \/ \E x \in s : \A y \in s : y <= x}
<1>1. ASSUME NEW s \in SUBSET S, \A x \in s : s \ {x} \in T
      PROVE  s \in T
  <2>1. CASE s = {}
    BY <2>1
  <2>2. CASE s # {}
    <3>1. PICK x \in s : TRUE
      BY <2>2
    <3>2. CASE s \ {x} = {}
      BY <3>1, <3>2
    <3>3. CASE s \ {x} # {}
      <4>1. PICK y \in s \ {x} : \A z \in s \ {x} : z <= y
        BY <1>1, <3>1, <3>3
      <4>2. x \in Nat /\ y \in Nat /\ s \subseteq Nat
        OBVIOUS
      <4>3. CASE x <= y
        <5>1. \A z \in s : z <= y
          BY <4>1, <4>2, <4>3
        <5>. QED
          BY <4>1, <5>1
      <4>4. CASE y <= x
        <5>1. \A z \in s : z <= x
          BY <4>1, <4>2, <4>4
        <5>. QED
          BY <3>1, <5>1
      <4>. QED
        BY <4>2, <4>3, <4>4
    <3>. QED
      BY <3>2, <3>3
  <2>. QED
    BY <2>1, <2>2
<1>2. SUBSET S \subseteq T
  <2> HIDE DEF T
  <2>. QED
    BY <1>1, FiniteInduction
<1>. QED
  BY <1>2

-----------------------------------------------------------------------------
\* MapThenSumSet is defined by a recursive function on the subsets of the set:
\* Partial is the right-hand side of its definition.
Pick(s) == CHOOSE x \in s : TRUE
Partial(f, g, s) == IF s = {} THEN 0 ELSE f[Pick(s)] + g[s \ {Pick(s)}]

LEMMA SumUnfolded ==
  ASSUME NEW f, NEW S
  PROVE  SumOver(f, S) =
           (CHOOSE g : g = [s \in SUBSET S |-> Partial(f, g, s)])[S]
BY DEF SumOver, MapThenSumSet, MapThenFoldSet, Partial, Pick

\* There is such a function: the least number of elements from which on there
\* is none cannot be.
LEMMA SumFunctionExists ==
  ASSUME NEW S, IsFiniteSet(S), NEW f, \A x \in S : f[x] \in Nat
  PROVE  \E g \in [SUBSET S -> Nat] : \A s \in SUBSET S : g[s] = Partial(f, g, s)
<1> DEFINE Upto(g, n) == \A s \in SUBSET S :
             Cardinality(s) <= n => g[s] = Partial(f, g, s)
           Bad == {n \in Nat : ~ \E g \in [SUBSET S -> Nat] : Upto(g, n)}
<1>1. \A s \in SUBSET S :
        /\ IsFiniteSet(s) /\ Cardinality(s) \in Nat
        /\ s = {} <=> Cardinality(s) = 0
        /\ s # {} => /\ Pick(s) \in s
                     /\ s \ {Pick(s)} \in SUBSET S
                     /\ Cardinality(s \ {Pick(s)}) = Cardinality(s) - 1
  BY FS_Subset, FS_CardinalityType, FS_EmptySet, FS_RemoveElement DEF Pick
<1>2. 0 \notin Bad
  <2>1. [s \in SUBSET S |-> 0] \in [SUBSET S -> Nat]
    OBVIOUS
  <2>2. ASSUME NEW s \in SUBSET S, Cardinality(s) <= 0
        PROVE  [t \in SUBSET S |-> 0][s] = Partial(f, [t \in SUBSET S |-> 0], s)
    <3>1. s = {}
      <4>1. Cardinality(s) \in Nat
        BY <1>1
      <4>2. Cardinality(s) = 0
        BY <2>2, <4>1
      <4>. QED
        BY <1>1, <4>2
    <3>. QED
      BY <3>1 DEF Partial
  <2>. QED
    BY <2>1, <2>2
<1>3. ASSUME NEW n \in Nat, n \notin Bad
      PROVE  n + 1 \notin Bad
  <2>1. PICK g \in [SUBSET S -> Nat] : Upto(g, n)
    BY <1>3
  <2> DEFINE h == [s \in SUBSET S |->
                     IF Cardinality(s) <= n THEN g[s] ELSE Partial(f, g, s)]
  <2>2. ASSUME NEW s \in SUBSET S PROVE Partial(f, g, s) \in Nat
    <3>1. CASE s = {}
      BY <3>1 DEF Partial
    <3>2. CASE s # {}
      <4>1. f[Pick(s)] \in Nat
        BY <1>1, <3>2
      <4>2. g[s \ {Pick(s)}] \in Nat
        BY <1>1, <3>2
      <4>. QED
        BY <3>2, <4>1, <4>2 DEF Partial
    <3>. QED
      BY <3>1, <3>2
  <2>3. h \in [SUBSET S -> Nat]
    BY <2>2
  <2>4. ASSUME NEW s \in SUBSET S, Cardinality(s) <= n + 1
        PROVE  h[s] = Partial(f, h, s)
    <3>1. h[s] = Partial(f, g, s)
      BY <2>1
    <3>2. s # {} => h[s \ {Pick(s)}] = g[s \ {Pick(s)}]
      BY <1>1, <2>4
    <3>. QED
      BY <3>1, <3>2 DEF Partial
  <2>5. Upto(h, n + 1)
    BY <2>4
  <2>. QED
    BY <2>3, <2>5
<1>4. Bad = {}
  <2>1. SUFFICES ASSUME Bad # {} PROVE FALSE
    OBVIOUS
  <2>2. PICK n \in Bad : \A m \in Bad : n <= m
    <3> HIDE DEF Bad
    <3>1. Bad \subseteq Nat
      BY DEF Bad
    <3>. QED
      BY <2>1, <3>1, Least
  <2>3. n \in Nat /\ n # 0
    BY <1>2
  <2> HIDE DEF Bad
  <2>4. n - 1 \in Nat /\ n - 1 \notin Bad
    BY <2>2, <2>3
  <2>5. (n - 1) + 1 \notin Bad
    BY <1>3, <2>4
  <2>. QED
    BY <2>3, <2>5
<1>5. PICK g \in [SUBSET S -> Nat] : Upto(g, Cardinality(S))
  BY <1>1, <1>4
<1>6. ASSUME NEW s \in SUBSET S PROVE g[s] = Partial(f, g, s)
  <2>1. Cardinality(s) <= Cardinality(S)
    BY FS_Subset
  <2>. QED
    BY <1>5, <2>1
<1>. QED
  BY <1>6
\* And but one, as far as it matters.
LEMMA Determined ==
  ASSUME NEW S, IsFiniteSet(S), NEW f, NEW g, NEW h,
         \A s \in SUBSET S : g[s] = Partial(f, g, s) /\ h[s] = Partial(f, h, s)
  PROVE  \A s \in SUBSET S : g[s] = h[s]
<1> DEFINE T == {s \in SUBSET S : g[s] = h[s]}
<1>1. ASSUME NEW s \in SUBSET S, \A x \in s : s \ {x} \in T
      PROVE  s \in T
  <2>1. s # {} => Pick(s) \in s
    BY DEF Pick
  <2>2. s # {} => g[s \ {Pick(s)}] = h[s \ {Pick(s)}]
    BY <1>1, <2>1
  <2>. QED
    BY <2>2 DEF Partial
<1>2. SUBSET S \subseteq T
  <2> HIDE DEF T
  <2>. QED
    BY <1>1, FiniteInduction
<1>. QED
  BY <1>2

-----------------------------------------------------------------------------
\* Sums are natural numbers, and a sum is that of any element and the rest.
LEMMA SumStep ==
  ASSUME NEW S, IsFiniteSet(S), NEW f, \A x \in S : f[x] \in Nat
  PROVE  \E g \in [SUBSET S -> Nat] :
           /\ \A s \in SUBSET S : g[s] = Partial(f, g, s)
           /\ SumOver(f, S) = g[S]
<1>1. PICK h \in [SUBSET S -> Nat] : \A s \in SUBSET S : h[s] = Partial(f, h, s)
  BY SumFunctionExists
<1> DEFINE g == CHOOSE e : e = [s \in SUBSET S |-> Partial(f, e, s)]
<1>2. g = [s \in SUBSET S |-> Partial(f, g, s)]
  <2>1. h = [s \in SUBSET S |-> Partial(f, h, s)]
    BY <1>1
  <2>. QED
    BY <2>1
<1>3. SumOver(f, S) = g[S]
  BY SumUnfolded
<1> HIDE DEF g
<1>4. \A s \in SUBSET S : g[s] = Partial(f, g, s) /\ h[s] = Partial(f, h, s)
  BY <1>1, <1>2
<1>5. \A s \in SUBSET S : g[s] = h[s]
  <2>1. IsFiniteSet(S)
    OBVIOUS
  <2>. QED
    BY <1>4, <2>1, Determined, SMTT(30)
<1>. QED
  BY <1>3, <1>4, <1>5
-----------------------------------------------------------------------------
\* The recursion, of the sum itself.
LEMMA SumRecursion ==
  ASSUME NEW S, IsFiniteSet(S), NEW f, \A x \in S : f[x] \in Nat
  PROVE  /\ SumOver(f, S) \in Nat
         /\ S = {} => SumOver(f, S) = 0
         /\ S # {} => SumOver(f, S) = f[Pick(S)] + SumOver(f, S \ {Pick(S)})
<1>1. PICK g \in [SUBSET S -> Nat] :
        /\ \A s \in SUBSET S : g[s] = Partial(f, g, s)
        /\ SumOver(f, S) = g[S]
  BY SumStep
<1>2. S \in SUBSET S
  OBVIOUS
<1>3. SumOver(f, S) \in Nat /\ SumOver(f, S) = Partial(f, g, S)
  BY <1>1, <1>2
<1>4. ASSUME S # {}
      PROVE  g[S \ {Pick(S)}] = SumOver(f, S \ {Pick(S)})
  <2> DEFINE R == S \ {Pick(S)}
  <2>1. IsFiniteSet(R) /\ R \in SUBSET S /\ \A x \in R : f[x] \in Nat
    BY FS_RemoveElement, FS_Subset
  <2> HIDE DEF R
  <2>2. PICK h \in [SUBSET R -> Nat] :
          /\ \A s \in SUBSET R : h[s] = Partial(f, h, s)
          /\ SumOver(f, R) = h[R]
    BY <2>1, SumStep
  <2>3. \A s \in SUBSET R : g[s] = Partial(f, g, s) /\ h[s] = Partial(f, h, s)
    BY <1>1, <2>1, <2>2
  <2>4. \A s \in SUBSET R : g[s] = h[s]
    BY <2>1, <2>3, Determined, SMTT(30)
  <2>. QED
    BY <2>2, <2>4 DEF R
<1>. QED
  BY <1>3, <1>4 DEF Partial

\* A sum is any element's value and the sum of the rest.
LEMMA SumRemove ==
  ASSUME NEW S, IsFiniteSet(S), NEW f, \A x \in S : f[x] \in Nat
  PROVE  \A x \in S : SumOver(f, S) = f[x] + SumOver(f, S \ {x})
<1> DEFINE T == {s \in SUBSET S :
                   \A x \in s : SumOver(f, s) = f[x] + SumOver(f, s \ {x})}
<1>1. ASSUME NEW s \in SUBSET S
      PROVE  /\ SumOver(f, s) \in Nat
             /\ s # {} => /\ Pick(s) \in s
                          /\ SumOver(f, s) = f[Pick(s)] + SumOver(f, s \ {Pick(s)})
  <2>1. IsFiniteSet(s) /\ \A x \in s : f[x] \in Nat
    BY FS_Subset
  <2>2. s # {} => Pick(s) \in s
    BY DEF Pick
  <2>. QED
    BY <2>1, <2>2, SumRecursion
<1>2. ASSUME NEW s \in SUBSET S, \A x \in s : s \ {x} \in T
      PROVE  s \in T
  <2>1. SUFFICES ASSUME NEW x \in s
                 PROVE  SumOver(f, s) = f[x] + SumOver(f, s \ {x})
    OBVIOUS
  <2> DEFINE p == Pick(s)
  <2>2. p \in s /\ SumOver(f, s) = f[p] + SumOver(f, s \ {p})
    BY <1>1
  <2> HIDE DEF p
  <2>3. CASE p = x
    BY <2>2, <2>3
  <2>4. CASE p # x
    <3>1. SumOver(f, s \ {p}) = f[x] + SumOver(f, (s \ {p}) \ {x})
      BY <1>2, <2>2, <2>4
    <3>2. SumOver(f, s \ {x}) = f[p] + SumOver(f, (s \ {x}) \ {p})
      BY <1>2, <2>2, <2>4
    <3>3. (s \ {p}) \ {x} = (s \ {x}) \ {p}
      OBVIOUS
    <3>4. /\ f[x] \in Nat /\ f[p] \in Nat
          /\ SumOver(f, (s \ {x}) \ {p}) \in Nat
      BY <1>1, <2>2
    <3>. QED
      BY <2>2, <3>1, <3>2, <3>3, <3>4
  <2>. QED
    BY <2>3, <2>4
<1>3. SUBSET S \subseteq T
  <2> HIDE DEF T
  <2>. QED
    BY <1>2, FiniteInduction
<1>. QED
  BY <1>3

\* Functions that agree on a set have the same sum over it.
LEMMA SumEqual ==
  ASSUME NEW S, IsFiniteSet(S), NEW f, NEW g,
         \A x \in S : f[x] \in Nat /\ g[x] = f[x]
  PROVE  SumOver(f, S) = SumOver(g, S)
<1> DEFINE T == {s \in SUBSET S : SumOver(f, s) = SumOver(g, s)}
<1>1. ASSUME NEW s \in SUBSET S, \A x \in s : s \ {x} \in T
      PROVE  s \in T
  <2>1. IsFiniteSet(s) /\ \A x \in s : f[x] \in Nat /\ g[x] \in Nat
    BY FS_Subset
  <2>2. CASE s = {}
    BY <2>1, <2>2, SumRecursion
  <2>3. CASE s # {}
    <3>1. PICK x \in s : TRUE
      BY <2>3
    <3>2. SumOver(f, s) = f[x] + SumOver(f, s \ {x})
      BY <2>1, <3>1, SumRemove
    <3>3. SumOver(g, s) = g[x] + SumOver(g, s \ {x})
      BY <2>1, <3>1, SumRemove
    <3>4. SumOver(f, s \ {x}) = SumOver(g, s \ {x})
      BY <1>1, <3>1
    <3>. QED
      BY <3>1, <3>2, <3>3, <3>4
  <2>. QED
    BY <2>2, <2>3
<1>2. SUBSET S \subseteq T
  <2> HIDE DEF T
  <2>. QED
    BY <1>1, FiniteInduction
<1>. QED
  BY <1>2

\* A sum is that over any part of the set and that over the rest.
LEMMA SumSplit ==
  ASSUME NEW S, IsFiniteSet(S), NEW f, \A x \in S : f[x] \in Nat
  PROVE  \A A \in SUBSET S : SumOver(f, S) = SumOver(f, A) + SumOver(f, S \ A)
<1> DEFINE T == {A \in SUBSET S : SumOver(f, S) = SumOver(f, A) + SumOver(f, S \ A)}
<1>1. ASSUME NEW A \in SUBSET S
      PROVE  /\ IsFiniteSet(A) /\ SumOver(f, A) \in Nat
             /\ \A x \in A : SumOver(f, A) = f[x] + SumOver(f, A \ {x})
  <2>1. IsFiniteSet(A) /\ \A x \in A : f[x] \in Nat
    BY FS_Subset
  <2>. QED
    BY <2>1, SumRecursion, SumRemove
<1>2. ASSUME NEW A \in SUBSET S, \A x \in A : A \ {x} \in T
      PROVE  A \in T
  <2>1. CASE A = {}
    <3>0. IsFiniteSet({}) /\ S \in SUBSET S
      BY FS_EmptySet
    <3>1. SumOver(f, A) = 0
      BY <2>1, <3>0, SumRecursion
    <3>2. S \ A = S
      BY <2>1
    <3>3. SumOver(f, S) \in Nat
      BY <1>1, <3>0
    <3>4. SumOver(f, S \ A) = SumOver(f, S)
      BY <3>2
    <3> HIDE DEF T
    <3>5. SumOver(f, S) = SumOver(f, A) + SumOver(f, S \ A)
      BY <3>1, <3>3, <3>4
    <3>. QED
      BY <3>5 DEF T
  <2>2. CASE A # {}
    <3>1. PICK x \in A : TRUE
      BY <2>2
    <3> DEFINE B == A \ {x}
               C == S \ B
    <3>2. SumOver(f, S) = SumOver(f, B) + SumOver(f, C)
      BY <1>2, <3>1
    <3>3. SumOver(f, A) = f[x] + SumOver(f, B)
      BY <1>1, <3>1
    <3>4. SumOver(f, C) = f[x] + SumOver(f, C \ {x})
      BY <1>1, <3>1
    <3>5. SumOver(f, C \ {x}) = SumOver(f, S \ A)
      <4>1. C \ {x} = S \ A
        BY <3>1
      <4>. QED
        BY <4>1
    <3>6. /\ SumOver(f, B) \in Nat /\ SumOver(f, S \ A) \in Nat
          /\ f[x] \in Nat
      BY <1>1, <3>1
    <3> HIDE DEF B, C, T
    <3>7. SumOver(f, S) = SumOver(f, B) + (f[x] + SumOver(f, S \ A))
      BY <3>2, <3>4, <3>5
    <3>8. SumOver(f, S) = (f[x] + SumOver(f, B)) + SumOver(f, S \ A)
      BY <3>6, <3>7
    <3>. QED
      BY <3>3, <3>8 DEF T
  <2>. QED
    BY <2>1, <2>2
<1>3. SUBSET S \subseteq T
  <2> HIDE DEF T
  <2>. QED
    BY <1>2, FiniteInduction
<1>. QED
  BY <1>3

\* A sum of values between two bounds is between as many times the bounds.
LEMMA SumBounds ==
  ASSUME NEW S, IsFiniteSet(S), NEW low \in Nat, NEW high \in Nat,
         NEW f, \A x \in S : f[x] \in low..high
  PROVE  /\ low * Cardinality(S) <= SumOver(f, S)
         /\ SumOver(f, S) <= high * Cardinality(S)
<1> DEFINE T == {s \in SUBSET S : /\ low * Cardinality(s) <= SumOver(f, s)
                                 /\ SumOver(f, s) <= high * Cardinality(s)}
<1>1. ASSUME NEW s \in SUBSET S, \A x \in s : s \ {x} \in T
      PROVE  s \in T
  <2>1. IsFiniteSet(s) /\ \A x \in s : f[x] \in Nat
    BY FS_Subset
  <2>2. CASE s = {}
    <3>1. SumOver(f, s) = 0 /\ Cardinality(s) = 0
      BY <2>1, <2>2, SumRecursion, FS_EmptySet
    <3>. QED
      BY <3>1
  <2>3. CASE s # {}
    <3>1. PICK x \in s : TRUE
      BY <2>3
    <3> DEFINE r == s \ {x}
               c == Cardinality(r)
               v == SumOver(f, r)
    <3>2. SumOver(f, s) = f[x] + v
      BY <2>1, <3>1, SumRemove
    <3>3. IsFiniteSet(r) /\ c \in Nat /\ Cardinality(s) = c + 1
      <4>1. IsFiniteSet(r) /\ c = Cardinality(s) - 1
        BY <2>1, <3>1, FS_RemoveElement
      <4>2. c \in Nat /\ Cardinality(s) \in Nat
        BY <2>1, <4>1, FS_CardinalityType
      <4> HIDE DEF c
      <4>. QED
        BY <4>1, <4>2
    <3>4. v \in Nat
      BY <2>1, <3>3, SumRecursion
    <3>5. low * c <= v /\ v <= high * c
      BY <1>1, <3>1
    <3>6. low <= f[x] /\ f[x] <= high /\ f[x] \in Nat
      BY <3>1
    <3> HIDE DEF c, v
    <3>7. low * (c + 1) = low * c + low /\ high * (c + 1) = high * c + high
      BY <3>3
    <3>8. low * c \in Nat /\ high * c \in Nat
      BY <3>3
    <3>9. low * (c + 1) <= f[x] + v /\ f[x] + v <= high * (c + 1)
      BY <3>4, <3>5, <3>6, <3>7, <3>8
    <3>. QED
      BY <3>2, <3>3, <3>9
  <2>. QED
    BY <2>2, <2>3
<1>2. SUBSET S \subseteq T
  <2> HIDE DEF T
  <2>. QED
    BY <1>1, FiniteInduction
<1>. QED
  BY <1>2

LEMMA SumOfZeros ==
  ASSUME NEW S, IsFiniteSet(S), NEW f, \A x \in S : f[x] = 0
  PROVE  SumOver(f, S) = 0
<1>1. \A x \in S : f[x] \in 0..0 /\ f[x] \in Nat
  OBVIOUS
<1>2. SumOver(f, S) <= 0 * Cardinality(S)
  BY <1>1, SumBounds
<1>3. SumOver(f, S) \in Nat /\ Cardinality(S) \in Nat
  BY <1>1, SumRecursion, FS_CardinalityType
<1>. QED
  BY <1>2, <1>3

\* Counting the elements of S by the value of f, and adding up, counts each
\* element once.
LEMMA SumOfCounts ==
  ASSUME NEW S, IsFiniteSet(S), NEW V, IsFiniteSet(V), NEW f,
         \A x \in S : f[x] \in V,
         NEW g, \A v \in V : g[v] = Cardinality({x \in S : f[x] = v})
  PROVE  SumOver(g, V) = Cardinality(S)
<1> DEFINE Of(s) == {x \in S : f[x] \in s}
           T == {s \in SUBSET V : SumOver(g, s) = Cardinality(Of(s))}
<1>1. \A v \in V : g[v] \in Nat
  BY FS_Subset, FS_CardinalityType
<1>2. ASSUME NEW s \in SUBSET V, \A x \in s : s \ {x} \in T
      PROVE  s \in T
  <2>1. IsFiniteSet(s) /\ \A v \in s : g[v] \in Nat
    BY <1>1, FS_Subset
  <2>2. CASE s = {}
    <3>1. SumOver(g, s) = 0
      BY <2>1, <2>2, SumRecursion
    <3>2. Of(s) = {} /\ Cardinality({}) = 0
      BY <2>2, FS_EmptySet
    <3>. QED
      BY <3>1, <3>2
  <2>3. CASE s # {}
    <3>1. PICK v \in s : TRUE
      BY <2>3
    <3> DEFINE A == {x \in S : f[x] = v}
               B == Of(s \ {v})
    <3>2. SumOver(g, s) = g[v] + SumOver(g, s \ {v})
      BY <2>1, <3>1, SumRemove
    <3>3. SumOver(g, s \ {v}) = Cardinality(B)
      BY <1>2, <3>1
    <3>4. Of(s) = A \cup B /\ A \cap B = {}
      BY <3>1
    <3>5. IsFiniteSet(A) /\ IsFiniteSet(B)
      BY FS_Subset
    <3>6. Cardinality(A \cup B) = Cardinality(A) + Cardinality(B)
      <4> HIDE DEF A, B
      <4>1. /\ Cardinality(A) \in Nat /\ Cardinality(B) \in Nat
            /\ Cardinality(A \cap B) = 0
        BY <3>4, <3>5, FS_CardinalityType, FS_EmptySet
      <4>2. Cardinality(A \cup B)
              = Cardinality(A) + Cardinality(B) - Cardinality(A \cap B)
        BY <3>5, FS_Union
      <4>. QED
        BY <4>1, <4>2
    <3>7. g[v] = Cardinality(A)
      BY <3>1
    <3>. QED
      BY <3>2, <3>3, <3>4, <3>6, <3>7
  <2>. QED
    BY <2>2, <2>3
<1>3. SUBSET V \subseteq T
  <2> HIDE DEF T
  <2>. QED
    BY <1>2, FiniteInduction
<1>4. Of(V) = S
  OBVIOUS
<1>. QED
  BY <1>3, <1>4
=============================================================================
