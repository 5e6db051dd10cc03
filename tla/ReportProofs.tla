---------------------------- MODULE ReportProofs ----------------------------
(***************************************************************************)
(* What the operators that summarise, analyze and report a load test make  *)
(* of its results, for every list of results and all thresholds.           *)
(***************************************************************************)
EXTENDS ReportFiles, SumsProofs

\* The positions of the values up to v, and below v.
Upto(values, v)  == {j \in DOMAIN values : values[j] <= v}
Below(values, v) == {j \in DOMAIN values : values[j] < v}

LEMMA DisjointUnion ==
  ASSUME NEW A, NEW B, IsFiniteSet(A), IsFiniteSet(B), A \cap B = {}
  PROVE  Cardinality(A \cup B) = Cardinality(A) + Cardinality(B)
<1>1. Cardinality(A \cup B)
        = Cardinality(A) + Cardinality(B) - Cardinality(A \cap B)
  BY FS_Union
<1>2. Cardinality(A \cap B) = 0 /\ Cardinality(A) \in Nat /\ Cardinality(B) \in Nat
  BY FS_EmptySet, FS_CardinalityType
<1>. QED
  BY <1>1, <1>2

\* Finitely many arguments have finitely many values.
LEMMA ValuesFinite ==
  ASSUME NEW P, IsFiniteSet(P), NEW f
  PROVE  IsFiniteSet({f[x] : x \in P})
<1> DEFINE V == {f[x] : x \in P}
           g == [x \in P |-> f[x]]
<1>1. g \in Surjection(P, V)
  BY DEF Surjection
<1> HIDE DEF g, V
<1>2. IsFiniteSet(V)
  BY <1>1, FS_Surjection
<1>. QED
  BY <1>2 DEF V

LEMMA PositionsFinite ==
  ASSUME NEW S, NEW values \in Seq(S)
  PROVE  /\ DOMAIN values = 1..Len(values) /\ Len(values) \in Nat
         /\ IsFiniteSet(DOMAIN values)
         /\ Cardinality(DOMAIN values) = Len(values)
         /\ \A P \in SUBSET DOMAIN values :
              /\ IsFiniteSet(P) /\ Cardinality(P) \in Nat
              /\ Cardinality(P) <= Len(values)
<1>1. DOMAIN values = 1..Len(values) /\ Len(values) \in Nat
  OBVIOUS
<1>2. IsFiniteSet(1..Len(values)) /\ Cardinality(1..Len(values)) = Len(values)
  BY <1>1, FS_Interval
<1>. QED
  BY <1>1, <1>2, FS_Subset, FS_CardinalityType

\* There is an i-th smallest value: of the values that at least i are up to,
\* the least.
LEMMA SortedDefined ==
  ASSUME NEW values \in Seq(Nat), NEW i \in 1..Len(values)
  PROVE  /\ Sorted(values)[i] \in {values[j] : j \in DOMAIN values}
         /\ Sorted(values)[i] \in Nat
         /\ Cardinality(Below(values, Sorted(values)[i])) < i
         /\ Cardinality(Upto(values, Sorted(values)[i])) >= i
<1> DEFINE n == Len(values)
           R == {values[j] : j \in DOMAIN values}
           A == {v \in R : Cardinality(Upto(values, v)) >= i}
<1>1. /\ DOMAIN values = 1..n /\ n \in Nat /\ i \in Nat /\ i >= 1 /\ i <= n
      /\ Cardinality(DOMAIN values) = n
      /\ \A P \in SUBSET DOMAIN values : IsFiniteSet(P) /\ Cardinality(P) \in Nat
  BY PositionsFinite
<1>2. R \subseteq Nat /\ IsFiniteSet(R) /\ R # {}
  <2>1. R \subseteq Nat
    OBVIOUS
  <2>2. IsFiniteSet(R)
    BY PositionsFinite, ValuesFinite
  <2>3. values[i] \in R
    BY <1>1
  <2>. QED
    BY <2>1, <2>2, <2>3
<1>3. A # {}
  <2>1. PICK m \in R : \A v \in R : v <= m
    <3> HIDE DEF R
    <3>. QED
      BY <1>2, Greatest
  <2>2. Upto(values, m) = DOMAIN values
    BY <2>1 DEF Upto
  <2>3. m \in A
    BY <1>1, <2>2
  <2>. QED
    BY <2>3
<1>4. PICK v \in A : \A u \in A : v <= u
  <2>1. A \subseteq Nat
    BY <1>2
  <2> HIDE DEF A
  <2>. QED
    BY <1>3, <2>1, Least
<1>5. Cardinality(Below(values, v)) < i
  <2> DEFINE B == Below(values, v)
             V == {values[j] : j \in B}
  <2>1. B \in SUBSET DOMAIN values /\ IsFiniteSet(B) /\ Cardinality(B) \in Nat
    BY <1>1 DEF Below
  <2>2. CASE B = {}
    BY <1>1, <2>2, FS_EmptySet
  <2>3. CASE B # {}
    <3>1. V \subseteq R /\ V # {} /\ IsFiniteSet(V)
      BY <2>1, <2>3, ValuesFinite
    <3>2. PICK u \in V : \A w \in V : w <= u
      <4>1. V \subseteq Nat
        BY <1>2, <3>1
      <4> HIDE DEF V
      <4>. QED
        BY <3>1, <4>1, Greatest
    <3>3. u \in R /\ u < v
      BY <3>1 DEF Below
    <3>4. u \notin A
      BY <1>2, <1>4, <3>3
    <3>5. B \subseteq Upto(values, u)
      BY <2>1, <3>2 DEF Upto
    <3>6. /\ Upto(values, u) \in SUBSET DOMAIN values
          /\ IsFiniteSet(Upto(values, u))
          /\ Cardinality(Upto(values, u)) \in Nat
      BY <1>1 DEF Upto
    <3>7. Cardinality(B) <= Cardinality(Upto(values, u))
      BY <3>5, <3>6, FS_Subset
    <3>8. Cardinality(Upto(values, u)) < i
      BY <1>1, <3>3, <3>4, <3>6
    <3>. QED
      BY <1>1, <2>1, <3>6, <3>7, <3>8
  <2>. QED
    BY <2>2, <2>3
<1>6. /\ Sorted(values)[i] \in R
      /\ Cardinality(Below(values, Sorted(values)[i])) < i
      /\ Cardinality(Upto(values, Sorted(values)[i])) >= i
  <2>1. \E x \in R : /\ Cardinality(Below(values, x)) < i
                     /\ Cardinality(Upto(values, x)) >= i
    BY <1>5
  <2>2. Sorted(values)[i] = CHOOSE x \in R :
          Cardinality(Below(values, x)) < i /\ Cardinality(Upto(values, x)) >= i
    BY <1>1 DEF Sorted, Below, Upto
  <2>. QED
    BY <2>1, <2>2
<1>. QED
  BY <1>2, <1>6

\* The sorted values ascend.
LEMMA SortedAscends ==
  ASSUME NEW values \in Seq(Nat),
         NEW i \in 1..Len(values), NEW j \in 1..Len(values), i <= j
  PROVE  Sorted(values)[i] <= Sorted(values)[j]
<1> DEFINE x == Sorted(values)[i]
           y == Sorted(values)[j]
<1>1. /\ x \in Nat /\ y \in Nat
      /\ Cardinality(Below(values, x)) < i /\ Cardinality(Upto(values, y)) >= j
  BY SortedDefined
<1> HIDE DEF x, y
<1>2. SUFFICES ASSUME y < x PROVE FALSE
  BY <1>1 DEF x, y
<1>3. Upto(values, y) \subseteq Below(values, x)
  <2>1. \A k \in DOMAIN values : values[k] \in Nat
    OBVIOUS
  <2>. QED
    BY <1>1, <1>2, <2>1 DEF Upto, Below
<1>4. /\ IsFiniteSet(Below(values, x)) /\ Cardinality(Below(values, x)) \in Nat
      /\ Cardinality(Upto(values, y)) \in Nat
  BY PositionsFinite DEF Below, Upto
<1>5. Cardinality(Upto(values, y)) <= Cardinality(Below(values, x))
  BY <1>3, <1>4, FS_Subset
<1>. QED
  BY <1>1, <1>4, <1>5

-----------------------------------------------------------------------------
(***************************************************************************)
(* Percentiles.  Between does what percentile() does with a rank k, in     *)
(* hundredths and counted from 0, and the sorted values.                   *)
(***************************************************************************)
Between(data, k) ==
  IF k % 100 = 0 THEN 100 * data[k \div 100 + 1]
  ELSE (100 - (k % 100)) * data[k \div 100 + 1] + (k % 100) * data[k \div 100 + 2]

Quantiles == {50, 90, 95, 99}

Ascending(data, n) ==
  /\ \A i \in 1..n : data[i] \in Nat
  /\ \A i, j \in 1..n : i <= j => data[i] <= data[j]

LEMMA RankFacts ==
  ASSUME NEW n \in Nat, n # 0, NEW q \in Quantiles
  PROVE  LET k == (n - 1) * q
         IN /\ k \in 0..100 * (n - 1) /\ k \div 100 \in Nat /\ k % 100 \in 0..99
            /\ k = 100 * (k \div 100) + (k % 100)
            /\ k \div 100 + 1 <= n /\ (k % 100 # 0 => k \div 100 + 2 <= n)
<1> DEFINE k == (n - 1) * q
<1>1. k \in Nat /\ k <= 99 * (n - 1)
  BY DEF Quantiles
<1> HIDE DEF k
<1>2. k \div 100 \in Nat /\ k % 100 \in 0..99 /\ k = 100 * (k \div 100) + (k % 100)
  BY <1>1
<1>. QED
  BY <1>1, <1>2 DEF k

LEMMA Percentiles ==
  ASSUME NEW values \in Seq(Nat), Len(values) # 0, NEW q \in Quantiles
  PROVE  Percentile(values, q) = Between(Sorted(values), (Len(values) - 1) * q)
<1>1. q \in Nat /\ ~ (q <= 0) /\ ~ (q >= 100)
  BY DEF Quantiles
<1>. QED
  BY <1>1, Zenon DEF Percentile, Between

LEMMA ProductAscends ==
  ASSUME NEW x \in Nat, NEW y \in Nat, NEW d \in Nat, x <= y
  PROVE  x * d <= y * d
<1>1. y * d = x * d + (y - x) * d
  OBVIOUS
<1>2. (y - x) * d >= 0
  OBVIOUS
<1>. QED
  BY <1>1, <1>2

\* Between two ranks, the interpolated value is between theirs.
LEMMA BetweenBounds ==
  ASSUME NEW n \in Nat, NEW data, Ascending(data, n),
         NEW k \in Nat, k \div 100 + 1 <= n, k % 100 # 0 => k \div 100 + 2 <= n
  PROVE  /\ Between(data, k) \in Nat
         /\ 100 * data[k \div 100 + 1] <= Between(data, k)
         /\ k % 100 # 0 => Between(data, k) <= 100 * data[k \div 100 + 2]
         /\ k % 100 # 0 => Between(data, k) = 100 * data[k \div 100 + 1]
              + (k % 100) * (data[k \div 100 + 2] - data[k \div 100 + 1])
<1> DEFINE f == k \div 100
           s == k % 100
<1>1. f \in Nat /\ s \in 0..99
  OBVIOUS
<1>2. CASE s = 0
  BY <1>1, <1>2 DEF Between, Ascending
<1>3. CASE s # 0
  <2> DEFINE a == data[f + 1]
             b == data[f + 2]
  <2>1. a \in Nat /\ b \in Nat /\ a <= b
    BY <1>1, <1>3 DEF Ascending
  <2>2. Between(data, k) = (100 - s) * a + s * b
    BY <1>3 DEF Between
  <2> HIDE DEF a, b, s, f
  <2>3. (100 - s) * a + s * b = 100 * a + s * (b - a)
    BY <1>1, <2>1
  <2>4. 0 <= s * (b - a) /\ s * (b - a) <= 100 * (b - a)
    <3>1. b - a \in Nat /\ s \in Nat /\ s <= 100
      BY <1>1, <2>1
    <3>. QED
      BY <3>1, ProductAscends
  <2>5. s * (b - a) \in Int /\ 100 * (b - a) = 100 * b - 100 * a
    BY <1>1, <2>1
  <2>6. /\ Between(data, k) \in Nat
        /\ 100 * a <= Between(data, k) /\ Between(data, k) <= 100 * b
        /\ Between(data, k) = 100 * a + s * (b - a)
    BY <2>1, <2>2, <2>3, <2>4, <2>5
  <2>. QED
    BY <2>6 DEF a, b, s, f
<1>. QED
  BY <1>2, <1>3

LEMMA BetweenAscends ==
  ASSUME NEW n \in Nat, NEW data, Ascending(data, n),
         NEW k \in Nat, k \div 100 + 1 <= n, k % 100 # 0 => k \div 100 + 2 <= n,
         NEW m \in Nat, m \div 100 + 1 <= n, m % 100 # 0 => m \div 100 + 2 <= n,
         k <= m
  PROVE  Between(data, k) <= Between(data, m)
<1>1. /\ k \div 100 \in Nat /\ k % 100 \in 0..99 /\ k = 100 * (k \div 100) + (k % 100)
      /\ m \div 100 \in Nat /\ m % 100 \in 0..99 /\ m = 100 * (m \div 100) + (m % 100)
  OBVIOUS
<1>2. /\ Between(data, k) \in Nat /\ Between(data, m) \in Nat
      /\ 100 * data[m \div 100 + 1] <= Between(data, m)
      /\ k % 100 # 0 => Between(data, k) <= 100 * data[k \div 100 + 2]
      /\ k % 100 # 0 => Between(data, k) = 100 * data[k \div 100 + 1]
              + (k % 100) * (data[k \div 100 + 2] - data[k \div 100 + 1])
      /\ m % 100 # 0 => Between(data, m) = 100 * data[m \div 100 + 1]
              + (m % 100) * (data[m \div 100 + 2] - data[m \div 100 + 1])
  <2>1. /\ Between(data, k) \in Nat
        /\ k % 100 # 0 => Between(data, k) <= 100 * data[k \div 100 + 2]
        /\ k % 100 # 0 => Between(data, k) = 100 * data[k \div 100 + 1]
              + (k % 100) * (data[k \div 100 + 2] - data[k \div 100 + 1])
    BY BetweenBounds
  <2>2. /\ Between(data, m) \in Nat
        /\ 100 * data[m \div 100 + 1] <= Between(data, m)
        /\ m % 100 # 0 => Between(data, m) = 100 * data[m \div 100 + 1]
              + (m % 100) * (data[m \div 100 + 2] - data[m \div 100 + 1])
    BY BetweenBounds
  <2>. QED
    BY <2>1, <2>2
<1>3. k % 100 = 0 => Between(data, k) = 100 * data[k \div 100 + 1]
  BY DEF Between
<1>4. CASE k \div 100 = m \div 100
  <2>1. k % 100 <= m % 100
    BY <1>1, <1>4
  <2>2. CASE k % 100 = 0
    BY <1>2, <1>3, <1>4, <2>2
  <2>3. CASE k % 100 # 0
    <3>1. m % 100 # 0
      BY <1>1, <2>1, <2>3
    <3> DEFINE d == data[m \div 100 + 2] - data[m \div 100 + 1]
    <3>2. d \in Nat /\ data[m \div 100 + 1] \in Nat
      BY <1>1, <3>1 DEF Ascending
    <3>3. (k % 100) * d <= (m % 100) * d
      <4> HIDE DEF d
      <4>. QED
        BY <1>1, <2>1, <3>2, ProductAscends
    <3>4. /\ Between(data, k) = 100 * data[m \div 100 + 1] + (k % 100) * d
          /\ Between(data, m) = 100 * data[m \div 100 + 1] + (m % 100) * d
      BY <1>2, <1>4, <2>3, <3>1
    <3>5. (k % 100) * d \in Int /\ (m % 100) * d \in Int
      BY <1>1, <3>2
    <3> HIDE DEF d
    <3>. QED
      BY <3>2, <3>3, <3>4, <3>5
  <2>. QED
    BY <2>2, <2>3
<1>5. CASE k \div 100 < m \div 100
  <2>1. CASE k % 100 = 0
    <3>1. data[k \div 100 + 1] <= data[m \div 100 + 1]
      BY <1>1, <1>5 DEF Ascending
    <3>2. data[k \div 100 + 1] \in Nat /\ data[m \div 100 + 1] \in Nat
      BY <1>1 DEF Ascending
    <3>. QED
      BY <1>2, <1>3, <2>1, <3>1, <3>2
  <2>2. CASE k % 100 # 0
    <3>1. data[k \div 100 + 2] <= data[m \div 100 + 1]
      BY <1>1, <1>5, <2>2 DEF Ascending
    <3>2. data[k \div 100 + 2] \in Nat /\ data[m \div 100 + 1] \in Nat
      BY <1>1, <2>2 DEF Ascending
    <3>. QED
      BY <1>2, <2>2, <3>1, <3>2
  <2>. QED
    BY <2>1, <2>2
<1>. QED
  BY <1>1, <1>4, <1>5

-----------------------------------------------------------------------------
LEMMA SortedIsAscending ==
  ASSUME NEW values \in Seq(Nat)
  PROVE  /\ Len(values) \in Nat
         /\ Ascending(Sorted(values), Len(values))
         /\ \A i \in 1..Len(values) :
              Sorted(values)[i] \in {values[j] : j \in DOMAIN values}
BY SortedDefined, SortedAscends DEF Ascending

\* Percentiles are in order, between the least and the greatest value.
LEMMA PercentilesAscend ==
  ASSUME NEW values \in Seq(Nat), Len(values) # 0,
         NEW p \in Quantiles, NEW q \in Quantiles
  PROVE  /\ Percentile(values, q) \in Nat
         /\ 100 * Sorted(values)[1] <= Percentile(values, q)
         /\ Percentile(values, q) <= 100 * Sorted(values)[Len(values)]
         /\ p <= q => Percentile(values, p) <= Percentile(values, q)
<1> DEFINE n == Len(values)
           data == Sorted(values)
           k(r) == (n - 1) * r
<1>1. n \in Nat /\ Ascending(data, n)
  BY SortedIsAscending
<1>2. \A r \in Quantiles :
        /\ k(r) \in 0..100 * (n - 1) /\ k(r) \in Nat
        /\ k(r) \div 100 + 1 <= n /\ (k(r) % 100 # 0 => k(r) \div 100 + 2 <= n)
  BY <1>1, RankFacts
<1>3. \A r \in Quantiles : Percentile(values, r) = Between(data, k(r))
  BY Percentiles
<1>4. p <= q => k(p) <= k(q)
  BY <1>1 DEF Quantiles
<1>5. 0 \div 100 + 1 <= n /\ 0 % 100 = 0 /\ Between(data, 0) = 100 * data[1]
  BY <1>1 DEF Between
<1>6. LET m == 100 * (n - 1)
      IN  m \in Nat /\ m \div 100 + 1 = n /\ m % 100 = 0
          /\ Between(data, m) = 100 * data[n]
  BY <1>1 DEF Between
<1> HIDE DEF n, data, k
<1>7. Between(data, 0) <= Between(data, k(q))
  BY <1>1, <1>2, <1>5, BetweenAscends
<1>8. Between(data, k(q)) <= Between(data, 100 * (n - 1))
  <2>1. k(q) <= 100 * (n - 1)
    BY <1>1, <1>2
  <2> DEFINE m == 100 * (n - 1)
  <2>2. m \in Nat /\ m \div 100 + 1 <= n /\ m % 100 = 0
    BY <1>1, <1>6
  <2> HIDE DEF m
  <2>3. k(q) <= m
    BY <2>1 DEF m
  <2>4. Between(data, k(q)) <= Between(data, m)
    BY <1>1, <1>2, <2>2, <2>3, BetweenAscends
  <2>. QED
    BY <2>4 DEF m
<1>9. p <= q => Between(data, k(p)) <= Between(data, k(q))
  BY <1>1, <1>2, <1>4, BetweenAscends
<1>10. Between(data, k(q)) \in Nat
  BY <1>1, <1>2, BetweenBounds
<1>. QED
  BY <1>3, <1>5, <1>6, <1>7, <1>8, <1>9, <1>10 DEF n, data

\* The share of the other values that are less (greater) than the q-th
\* percentile is less than q (100 - q) percent and one value.
LEMMA PercentileShares ==
  ASSUME NEW values \in Seq(Nat), Len(values) # 0, NEW q \in Quantiles,
         NEW A \in SUBSET DOMAIN values
  PROVE  /\ (\A i \in A : 100 * values[i] < Percentile(values, q))
              => 100 * Cardinality(A) < q * (Len(values) - 1) + 100
         /\ (\A i \in A : 100 * values[i] > Percentile(values, q))
              => 100 * Cardinality(A) < (100 - q) * (Len(values) - 1) + 100
<1> DEFINE n == Len(values)
           data == Sorted(values)
           k == (n - 1) * q
           f == k \div 100
           s == k % 100
           x == Percentile(values, q)
<1>1. /\ n \in Nat /\ n # 0 /\ Ascending(data, n)
      /\ \A i \in DOMAIN values : values[i] \in Nat
      /\ Cardinality(A) \in Nat
  BY SortedIsAscending, PositionsFinite
<1>2. /\ k \in Nat /\ f \in Nat /\ s \in 0..99 /\ k = 100 * f + s
      /\ f + 1 <= n /\ (s # 0 => f + 2 <= n)
  BY <1>1, RankFacts
<1>3. /\ x \in Nat /\ 100 * data[f + 1] <= x
      /\ s = 0 => x = 100 * data[f + 1]
      /\ s # 0 => x <= 100 * data[f + 2]
  <2>1. x = Between(data, k)
    BY Percentiles
  <2>2. s = 0 => Between(data, k) = 100 * data[f + 1]
    BY DEF Between
  <2>3. /\ Between(data, k) \in Nat
        /\ 100 * data[f + 1] <= Between(data, k)
        /\ s # 0 => Between(data, k) <= 100 * data[f + 2]
    <3> HIDE DEF n, data, k
    <3>. QED
      BY <1>1, <1>2, BetweenBounds
  <2>. QED
    BY <2>1, <2>2, <2>3
<1>4. \A i \in 1..n :
        /\ data[i] \in Nat
        /\ Cardinality(Below(values, data[i])) < i
        /\ Cardinality(Upto(values, data[i])) >= i
  BY SortedDefined
<1>5. k = q * (n - 1) /\ 100 * (n - 1) - k = (100 - q) * (n - 1)
  BY <1>1 DEF Quantiles
<1>6. \A B \in SUBSET DOMAIN values :
        /\ IsFiniteSet(B) /\ Cardinality(B) \in Nat
        /\ A \subseteq B => Cardinality(A) <= Cardinality(B)
        /\ A \cap B = {} => Cardinality(A) + Cardinality(B) <= n
  <2> TAKE B \in SUBSET DOMAIN values
  <2>1. /\ IsFiniteSet(A) /\ IsFiniteSet(B) /\ IsFiniteSet(A \cup B)
        /\ Cardinality(A) \in Nat /\ Cardinality(B) \in Nat
        /\ Cardinality(A \cup B) <= n
    BY PositionsFinite
  <2>2. A \subseteq B => Cardinality(A) <= Cardinality(B)
    BY <2>1, FS_Subset
  <2>3. A \cap B = {} => Cardinality(A \cup B) = Cardinality(A) + Cardinality(B)
    BY <2>1, DisjointUnion
  <2>. QED
    BY <2>1, <2>2, <2>3
<1> HIDE DEF n, data, k, f, s, x
<1>7. ASSUME \A i \in A : 100 * values[i] < x
      PROVE  100 * Cardinality(A) < q * (n - 1) + 100
  <2> DEFINE r == IF s = 0 THEN f + 1 ELSE f + 2
  <2>1. r \in 1..n /\ x <= 100 * data[r] /\ 100 * (r - 1) < k + 100
    BY <1>2, <1>3, <1>4
  <2> HIDE DEF r
  <2>2. A \subseteq Below(values, data[r])
    <3>1. SUFFICES ASSUME NEW i \in A PROVE values[i] < data[r]
      BY DEF Below
    <3>2. 100 * values[i] < x /\ values[i] \in Nat /\ data[r] \in Nat
      BY <1>1, <1>4, <1>7, <2>1
    <3>. QED
      BY <1>3, <2>1, <3>2
  <2>3. Below(values, data[r]) \in SUBSET DOMAIN values
    BY DEF Below
  <2>4. Cardinality(A) < r
    BY <1>1, <1>4, <1>6, <2>1, <2>2, <2>3
  <2>5. 100 * Cardinality(A) < k + 100
    BY <1>1, <1>2, <2>1, <2>4
  <2>. QED
    BY <1>5, <2>5
<1>8. ASSUME \A i \in A : 100 * values[i] > x
      PROVE  100 * Cardinality(A) < (100 - q) * (n - 1) + 100
  <2>1. f + 1 \in 1..n
    BY <1>2
  <2>2. A \cap Upto(values, data[f + 1]) = {}
    <3>1. SUFFICES ASSUME NEW i \in A PROVE ~ (values[i] <= data[f + 1])
      BY DEF Upto
    <3>2. /\ 100 * values[i] > x /\ values[i] \in Nat
          /\ data[f + 1] \in Nat
      BY <1>1, <1>4, <1>8, <2>1
    <3>. QED
      BY <1>3, <3>2
  <2>3. Upto(values, data[f + 1]) \in SUBSET DOMAIN values
    BY DEF Upto
  <2>4. Cardinality(A) + (f + 1) <= n
    BY <1>1, <1>2, <1>4, <1>6, <2>1, <2>2, <2>3
  <2>5. 100 * Cardinality(A) < 100 * (n - 1) - k + 100
    BY <1>1, <1>2, <2>4
  <2>. QED
    BY <1>5, <2>5
<1>. QED
  BY <1>7, <1>8 DEF n, x

\* The median is the 50th percentile.
LEMMA MedianIsP50 ==
  ASSUME NEW values \in Seq(Nat), Len(values) # 0
  PROVE  Percentile(values, 50) = Median(values)
<1> DEFINE n == Len(values)
           data == Sorted(values)
           k == (n - 1) * 50
<1>1. n \in Nat /\ n # 0 /\ Ascending(data, n)
  BY SortedIsAscending
<1>2. Percentile(values, 50) = Between(data, k)
  BY Percentiles DEF Quantiles
<1>3. CASE n % 2 = 1
  <2>1. k % 100 = 0 /\ k \div 100 + 1 = (n + 1) \div 2
    BY <1>1, <1>3
  <2>2. Median(values) = 100 * data[(n + 1) \div 2]
    BY <1>1, <1>3 DEF Median
  <2>. QED
    BY <1>2, <2>1, <2>2 DEF Between
<1>4. CASE n % 2 # 1
  <2>1. k % 100 = 50 /\ k \div 100 + 1 = n \div 2 /\ k \div 100 + 2 = n \div 2 + 1
    BY <1>1, <1>4
  <2>2. Median(values) = 50 * (data[n \div 2] + data[n \div 2 + 1])
    BY <1>1, <1>4 DEF Median
  <2>3. data[n \div 2] \in Nat /\ data[n \div 2 + 1] \in Nat
    BY <1>1, <1>4 DEF Ascending
  <2>4. Between(data, k) = 50 * data[n \div 2] + 50 * data[n \div 2 + 1]
    BY <2>1 DEF Between
  <2>. QED
    BY <1>2, <2>2, <2>3, <2>4
<1>. QED
  BY <1>3, <1>4

-----------------------------------------------------------------------------
(***************************************************************************)
(* Snapshots.                                                              *)
(***************************************************************************)
LEMMA LatenciesTyped ==
  ASSUME NEW rs \in Seq(Result)
  PROVE  /\ Latencies(rs) \in Seq(Nat) /\ Len(Latencies(rs)) = Len(rs)
         /\ DOMAIN Latencies(rs) = DOMAIN rs /\ DOMAIN rs = 1..Len(rs)
         /\ Len(rs) \in Nat /\ IsFiniteSet(DOMAIN rs)
         /\ Cardinality(DOMAIN rs) = Len(rs)
         /\ \A i \in DOMAIN rs : Latencies(rs)[i] = rs[i].time /\ rs[i].time \in Nat
<1>1. \A r \in Result : r.time \in Nat
  BY TimesAssumption DEF Result, Responses, Errors
<1>2. DOMAIN rs = 1..Len(rs) /\ Len(rs) \in Nat /\ \A i \in DOMAIN rs : rs[i] \in Result
  OBVIOUS
<1>3. Latencies(rs) \in [1..Len(rs) -> Nat]
  BY <1>1, <1>2 DEF Latencies
<1>4. Latencies(rs) \in Seq(Nat) /\ Len(Latencies(rs)) = Len(rs)
  BY <1>2, <1>3
<1>. QED
  BY <1>1, <1>2, <1>3, <1>4, PositionsFinite DEF Latencies

LEMMA ExtremesOf ==
  ASSUME NEW V, V \subseteq Nat, IsFiniteSet(V), V # {}
  PROVE  /\ Min(V) \in V /\ \A v \in V : Min(V) <= v
         /\ Max(V) \in V /\ \A v \in V : v <= Max(V)
<1>1. \E x \in V : \A y \in V : x <= y
  BY Least
<1>2. \E x \in V : \A y \in V : x >= y
  <2>1. PICK x \in V : \A y \in V : y <= x
    BY Greatest
  <2>. QED
    BY <2>1
<1>. QED
  BY <1>1, <1>2 DEF Min, Max

\* Failures and their classes are sets of positions.
LEMMA FailuresFinite ==
  ASSUME NEW rs \in Seq(Result)
  PROVE  /\ Cardinality(Failures(rs)) \in Nat
         /\ Cardinality(DOMAIN rs \ Failures(rs)) \in Nat
         /\ Cardinality(DOMAIN rs \ Failures(rs)) + Cardinality(Failures(rs)) = Len(rs)
         /\ IsFiniteSet(MentionDns(rs)) /\ Cardinality(MentionDns(rs)) \in Nat
         /\ \A k : /\ IsFiniteSet(OfKind(rs, k))
                   /\ Cardinality(OfKind(rs, k)) \in Nat
<1> DEFINE F == Failures(rs)
           D == DOMAIN rs
<1>1. /\ IsFiniteSet(D) /\ Cardinality(D) = Len(rs) /\ Len(rs) \in Nat
      /\ \A P \in SUBSET D : IsFiniteSet(P) /\ Cardinality(P) \in Nat
  BY PositionsFinite
<1>2. /\ F \in SUBSET D /\ D \ F \in SUBSET D
      /\ MentionDns(rs) \in SUBSET D /\ \A k : OfKind(rs, k) \in SUBSET D
  BY DEF Failures, MentionDns, OfKind
<1> HIDE DEF F, D
<1>3. D \cap F = F
  BY <1>2
<1>4. Cardinality(D \ F) = Cardinality(D) - Cardinality(F)
  <2>1. Cardinality(D \ F) = Cardinality(D) - Cardinality(D \cap F)
    BY <1>1, FS_Difference
  <2>. QED
    BY <1>3, <2>1
<1>. QED
  BY <1>1, <1>2, <1>4 DEF F, D

LEMMA Extremes ==
  ASSUME NEW rs \in Seq(Result), rs # <<>>
  PROVE  LET s     == SnapshotOf(rs)
             range == {Latencies(rs)[i] : i \in DOMAIN rs}
         IN /\ s.latency_min \in range /\ s.latency_max \in range
            /\ s.latency_min \in Nat /\ s.latency_max \in Nat
            /\ \A i \in DOMAIN rs : /\ s.latency_min <= rs[i].time
                                    /\ rs[i].time <= s.latency_max
<1> DEFINE range == {Latencies(rs)[i] : i \in DOMAIN rs}
<1>1. /\ IsFiniteSet(DOMAIN rs) /\ 1 \in DOMAIN rs
      /\ \A i \in DOMAIN rs : Latencies(rs)[i] = rs[i].time /\ rs[i].time \in Nat
  <2>1. rs # <<>> => Len(rs) # 0
    OBVIOUS
  <2>. QED
    BY <2>1, LatenciesTyped
<1>2. range \subseteq Nat /\ range # {} /\ IsFiniteSet(range)
  BY <1>1, ValuesFinite
<1>3. /\ Min(range) \in range /\ \A v \in range : Min(range) <= v
      /\ Max(range) \in range /\ \A v \in range : v <= Max(range)
  <2> HIDE DEF range
  <2>. QED
    BY <1>2, ExtremesOf
<1>4. SnapshotOf(rs).latency_min = Min(range) /\ SnapshotOf(rs).latency_max = Max(range)
  BY DEF SnapshotOf
<1>5. \A i \in DOMAIN rs : rs[i].time \in range
  BY <1>1
<1>. QED
  BY <1>2, <1>3, <1>4, <1>5

LEMMA SnapshotTyped ==
  ASSUME NEW rs \in Seq(Result)
  PROVE  SnapshotOf(rs) \in SnapshotType
<1> DEFINE ls == Latencies(rs)
<1>1. /\ ls \in Seq(Nat) /\ Len(ls) = Len(rs) /\ Len(rs) \in Nat
      /\ IsFiniteSet(DOMAIN rs) /\ \A i \in DOMAIN rs : ls[i] \in Nat
  BY LatenciesTyped
<1>2. \A q \in Quantiles : Percentile(ls, q) \in Nat
  <2> TAKE q \in Quantiles
  <2>1. CASE Len(ls) = 0
    BY <2>1 DEF Percentile
  <2>2. CASE Len(ls) # 0
    BY <1>1, <2>2, PercentilesAscend
  <2>. QED
    BY <2>1, <2>2
<1>3. Median(ls) \in Nat
  <2>1. CASE Len(ls) = 0
    BY <2>1 DEF Median
  <2>2. CASE Len(ls) # 0
    BY <1>1, <1>2, <2>2, MedianIsP50 DEF Quantiles
  <2>. QED
    BY <2>1, <2>2
<1>4. SumOver(ls, DOMAIN rs) \in Nat
  BY <1>1, SumRecursion
<1>5. SnapshotOf(rs).latency_min \in Nat /\ SnapshotOf(rs).latency_max \in Nat
  <2>1. CASE rs = <<>>
    BY <2>1 DEF SnapshotOf
  <2>2. CASE rs # <<>>
    BY <2>2, Extremes
  <2>. QED
    BY <2>1, <2>2
<1>6. /\ Percentile(ls, 50) \in Nat /\ Percentile(ls, 90) \in Nat
      /\ Percentile(ls, 95) \in Nat /\ Percentile(ls, 99) \in Nat
  BY <1>2 DEF Quantiles
<1>. QED
  BY <1>1, <1>3, <1>4, <1>5, <1>6, FailuresFinite DEF SnapshotOf, SnapshotType

LEMMA PercentilesOfSnapshot ==
  ASSUME NEW rs \in Seq(Result), rs # <<>>
  PROVE  LET s == SnapshotOf(rs)
             n == Len(rs)
         IN /\ 100 * s.latency_min <= s.p50 /\ s.p50 <= s.p90 /\ s.p90 <= s.p95
            /\ s.p95 <= s.p99 /\ s.p99 <= 100 * s.latency_max
            /\ s.p50 = s.latency_median
            /\ n * s.latency_min <= s.latency_sum
            /\ s.latency_sum <= n * s.latency_max
<1> DEFINE ls == Latencies(rs)
           n == Len(rs)
           s == SnapshotOf(rs)
<1>1. /\ ls \in Seq(Nat) /\ Len(ls) = n /\ n \in Nat /\ n # 0
      /\ DOMAIN ls = 1..n /\ DOMAIN rs = 1..n
      /\ IsFiniteSet(DOMAIN rs) /\ Cardinality(DOMAIN rs) = n
      /\ \A i \in 1..n : ls[i] = rs[i].time /\ ls[i] \in Nat
  <2>1. Len(rs) # 0
    OBVIOUS
  <2>. QED
    BY <2>1, LatenciesTyped
<1>2. /\ s.p50 = Percentile(ls, 50) /\ s.p90 = Percentile(ls, 90)
      /\ s.p95 = Percentile(ls, 95) /\ s.p99 = Percentile(ls, 99)
      /\ s.latency_median = Median(ls) /\ s.latency_sum = SumOver(ls, DOMAIN rs)
  BY DEF SnapshotOf
<1>3. /\ s.latency_min \in Nat /\ s.latency_max \in Nat
      /\ \A i \in 1..n : s.latency_min <= ls[i] /\ ls[i] <= s.latency_max
  BY <1>1, Extremes
<1> HIDE DEF ls, n, s
<1>4. /\ s.p50 <= s.p90 /\ s.p90 <= s.p95 /\ s.p95 <= s.p99
      /\ s.p50 \in Nat /\ s.p99 \in Nat
      /\ 100 * Sorted(ls)[1] <= s.p50 /\ s.p99 <= 100 * Sorted(ls)[n]
  <2>1. /\ 50 \in Quantiles /\ 90 \in Quantiles /\ 95 \in Quantiles /\ 99 \in Quantiles
        /\ 50 <= 90 /\ 90 <= 95 /\ 95 <= 99
    BY DEF Quantiles
  <2>. QED
    BY <1>1, <1>2, <2>1, PercentilesAscend
<1>5. \A i \in 1..n : \E j \in 1..n : Sorted(ls)[i] = ls[j]
  BY <1>1, SortedIsAscending
<1>6. s.latency_min <= Sorted(ls)[1] /\ Sorted(ls)[n] <= s.latency_max
  <2>1. 1 \in 1..n /\ n \in 1..n
    BY <1>1
  <2>. QED
    BY <1>3, <1>5, <2>1
<1>7. Sorted(ls)[1] \in Nat /\ Sorted(ls)[n] \in Nat
  <2>1. 1 \in 1..n /\ n \in 1..n
    BY <1>1
  <2>. QED
    BY <1>1, <1>5, <2>1
<1>8. 100 * s.latency_min <= s.p50 /\ s.p99 <= 100 * s.latency_max
  BY <1>3, <1>4, <1>6, <1>7
<1>9. s.p50 = s.latency_median
  BY <1>1, <1>2, MedianIsP50
<1>10. n * s.latency_min <= s.latency_sum /\ s.latency_sum <= n * s.latency_max
  <2>1. \A i \in DOMAIN rs : ls[i] \in s.latency_min..s.latency_max
    BY <1>1, <1>3
  <2>2. /\ s.latency_min * n <= SumOver(ls, DOMAIN rs)
        /\ SumOver(ls, DOMAIN rs) <= s.latency_max * n
    BY <1>1, <1>3, <2>1, SumBounds
  <2>3. s.latency_min * n = n * s.latency_min /\ s.latency_max * n = n * s.latency_max
    BY <1>1, <1>3
  <2>. QED
    BY <1>2, <2>2, <2>3
<1>. QED
  BY <1>4, <1>8, <1>9, <1>10 DEF n, s

-----------------------------------------------------------------------------
(***************************************************************************)
(* Findings.                                                               *)
(***************************************************************************)
Findings == [category : Categories, severity : Severities]

Reported(fs, x) == \E k \in DOMAIN fs : fs[k] = x
Distinct(fs)    == \A j, k \in DOMAIN fs : fs[j] = fs[k] => j = k

\* What two lists joined report, and whether they repeat themselves.
LEMMA Joined ==
  ASSUME NEW S, NEW fs \in Seq(S), NEW gs \in Seq(S)
  PROVE  /\ fs \o gs \in Seq(S)
         /\ \A x : Reported(fs \o gs, x) <=> Reported(fs, x) \/ Reported(gs, x)
         /\ Distinct(fs) /\ Distinct(gs)
              /\ (\A x : ~ (Reported(fs, x) /\ Reported(gs, x)))
            => Distinct(fs \o gs)
<1> DEFINE m == Len(fs)
           n == Len(gs)
           hs == fs \o gs
<1>1. /\ m \in Nat /\ n \in Nat /\ hs \in Seq(S) /\ Len(hs) = m + n
      /\ DOMAIN fs = 1..m /\ DOMAIN gs = 1..n /\ DOMAIN hs = 1..(m + n)
      /\ \A k \in 1..m : hs[k] = fs[k]
      /\ \A k \in (m + 1)..(m + n) : hs[k] = gs[k - m]
  OBVIOUS
<1> HIDE DEF m, n, hs
<1>2. \A k \in 1..(m + n) : k \in 1..m \/ (k - m \in 1..n /\ k \in (m + 1)..(m + n))
  BY <1>1
<1>3. \A k \in 1..n : m + k \in (m + 1)..(m + n) /\ (m + k) - m = k
  BY <1>1
<1>4. \A k \in 1..m : k \in 1..(m + n)
  BY <1>1
<1>5. \A k \in 1..n : m + k \in 1..(m + n) /\ hs[m + k] = gs[k]
  BY <1>1, <1>3
<1>6. ASSUME NEW x
      PROVE  Reported(hs, x) <=> Reported(fs, x) \/ Reported(gs, x)
  <2>1. Reported(hs, x) => Reported(fs, x) \/ Reported(gs, x)
    BY <1>1, <1>2 DEF Reported
  <2>2. Reported(fs, x) => Reported(hs, x)
    BY <1>1, <1>4 DEF Reported
  <2>3. Reported(gs, x) => Reported(hs, x)
    BY <1>1, <1>5 DEF Reported
  <2>. QED
    BY <2>1, <2>2, <2>3
<1>7. ASSUME Distinct(fs), Distinct(gs), \A x : ~ (Reported(fs, x) /\ Reported(gs, x))
      PROVE  Distinct(hs)
  <2>1. SUFFICES ASSUME NEW j \in 1..(m + n), NEW k \in 1..(m + n), hs[j] = hs[k]
                 PROVE  j = k
    BY <1>1 DEF Distinct
  <2>2. \A i \in 1..m : Reported(fs, hs[i])
    BY <1>1 DEF Reported
  <2>3. \A i \in (m + 1)..(m + n) : i - m \in 1..n /\ Reported(gs, hs[i])
    <3>1. \A i \in (m + 1)..(m + n) : i - m \in 1..n
      BY <1>1
    <3>. QED
      BY <1>1, <3>1 DEF Reported
  <2>4. CASE j \in 1..m /\ k \in 1..m
    BY <1>1, <1>7, <2>1, <2>4 DEF Distinct
  <2>5. CASE j \in (m + 1)..(m + n) /\ k \in (m + 1)..(m + n)
    <3>1. j - m \in 1..n /\ k - m \in 1..n /\ gs[j - m] = gs[k - m]
      BY <1>1, <2>1, <2>3, <2>5
    <3>2. j - m = k - m
      BY <1>1, <1>7, <3>1 DEF Distinct
    <3>. QED
      BY <1>1, <3>2
  <2>6. ~ (j \in 1..m /\ k \in (m + 1)..(m + n))
        /\ ~ (k \in 1..m /\ j \in (m + 1)..(m + n))
    BY <1>7, <2>1, <2>2, <2>3
  <2>. QED
    BY <1>2, <2>4, <2>5, <2>6
<1>. QED
  BY <1>1, <1>6, <1>7 DEF hs

LEMMA WhenReports ==
  ASSUME NEW condition \in BOOLEAN, NEW c \in Categories, NEW v \in Severities
  PROVE  /\ When(condition, c, v) \in Seq(Findings)
         /\ Distinct(When(condition, c, v))
         /\ \A x : Reported(When(condition, c, v), x)
                     <=> condition /\ x = Finding(c, v)
<1>1. Finding(c, v) \in Findings
  BY DEF Finding, Findings
<1> DEFINE f == Finding(c, v)
<1> HIDE DEF f
<1>2. /\ <<f>> \in Seq(Findings) /\ DOMAIN <<f>> = {1} /\ <<f>>[1] = f
      /\ <<>> \in Seq(Findings) /\ DOMAIN <<>> = {}
  BY <1>1 DEF f
<1>3. When(condition, c, v) = IF condition THEN <<f>> ELSE <<>>
  BY DEF When, f
<1>. QED
  BY <1>2, <1>3 DEF Reported, Distinct, f

LEMMA NothingReported ==
  <<>> \in Seq(Findings) /\ Distinct(<<>>) /\ \A x : ~Reported(<<>>, x)
BY DEF Distinct, Reported

\* A finding is its category and its severity.
LEMMA FindingsDiffer ==
  \A c, v, d, w : Finding(c, v) = Finding(d, w) <=> c = d /\ v = w
BY DEF Finding

\* What is found in a snapshot.
LEMMA HttpFindingsReport ==
  ASSUME NEW s \in SnapshotType
  PROVE  LET n == s.total_requests
         IN /\ HttpFindings(s) \in Seq(Findings) /\ Distinct(HttpFindings(s))
            /\ \A x : Reported(HttpFindings(s), x) <=>
                 \/ s.p95 > 100 * SlowP95 /\ x = Finding("latency", "warning")
                 \/ s.p99 > 100 * SlowP99 /\ x = Finding("latency", "critical")
                 \/ /\ AtLeast(ErrorCritical, s.failed_requests, n)
                    /\ x = Finding("errors", "critical")
                 \/ /\ ~AtLeast(ErrorCritical, s.failed_requests, n)
                    /\ AtLeast(ErrorWarning, s.failed_requests, n)
                    /\ x = Finding("errors", "warning")
                 \/ /\ n # 0 /\ AtLeast(TimeoutWarning, s.timeout_count, n)
                    /\ x = Finding("timeouts", "warning")
                 \/ /\ n # 0 /\ s.connection_failures > 0
                    /\ x = Finding("connections", "warning")
                 \/ /\ n # 0 /\ s.dns_failures > 0
                    /\ x = Finding("dns", "warning")
<1> DEFINE n == s.total_requests
           slow95 == s.p95 > 100 * SlowP95
           slow99 == s.p99 > 100 * SlowP99
           bad  == AtLeast(ErrorCritical, s.failed_requests, n)
           poor == AtLeast(ErrorWarning, s.failed_requests, n)
           late == AtLeast(TimeoutWarning, s.timeout_count, n)
           refused == s.connection_failures > 0
           unknown == s.dns_failures > 0
           L1 == When(slow95, "latency", "warning")
           L2 == When(slow99, "latency", "critical")
           E1 == When(bad, "errors", "critical")
           E2 == When(poor, "errors", "warning")
           C1 == When(late, "timeouts", "warning")
           C2 == When(refused, "connections", "warning")
           C3 == When(unknown, "dns", "warning")
<1>1. /\ slow95 \in BOOLEAN /\ slow99 \in BOOLEAN /\ bad \in BOOLEAN /\ poor \in BOOLEAN
      /\ late \in BOOLEAN /\ refused \in BOOLEAN /\ unknown \in BOOLEAN
  <2>1. /\ s.p95 \in Nat /\ s.p99 \in Nat /\ n \in Nat /\ s.failed_requests \in Nat
        /\ s.timeout_count \in Nat /\ s.connection_failures \in Nat
        /\ s.dns_failures \in Nat
    BY DEF SnapshotType
  <2>2. \A percent, part \in Nat : AtLeast(percent, part, n) \in BOOLEAN
    <3> TAKE percent, part \in Nat
    <3>1. CASE n = 0
      BY <3>1 DEF AtLeast
    <3>2. CASE n # 0
      <4>1. percent * n \in Nat /\ 100 * part \in Nat
        BY <2>1
      <4>. QED
        BY <3>2, <4>1 DEF AtLeast
    <3>. QED
      BY <3>1, <3>2
  <2>3. slow95 \in BOOLEAN /\ slow99 \in BOOLEAN
    BY <2>1, HttpAnalysisAssumption
  <2>4. bad \in BOOLEAN /\ poor \in BOOLEAN /\ late \in BOOLEAN
    BY <2>1, <2>2, HttpAnalysisAssumption
  <2>5. refused \in BOOLEAN /\ unknown \in BOOLEAN
    BY <2>1
  <2>. QED
    BY <2>3, <2>4, <2>5
<1>2. /\ "latency" \in Categories /\ "errors" \in Categories /\ "timeouts" \in Categories
      /\ "connections" \in Categories /\ "dns" \in Categories
      /\ "warning" \in Severities /\ "critical" \in Severities
  BY DEF Categories, Severities
<1>3. /\ LatencyFindings(s) = L1 \o L2
      /\ ErrorFindings(s) = IF bad THEN E1 ELSE E2
      /\ CauseFindings(s) = IF n = 0 THEN <<>> ELSE C1 \o C2 \o C3
  BY DEF LatencyFindings, ErrorFindings, CauseFindings, When
<1> HIDE DEF n, slow95, slow99, bad, poor, late, refused, unknown
<1>4. /\ L1 \in Seq(Findings) /\ Distinct(L1)
      /\ \A x : Reported(L1, x) <=> slow95 /\ x = Finding("latency", "warning")
  BY <1>1, <1>2, WhenReports
<1>5. /\ L2 \in Seq(Findings) /\ Distinct(L2)
      /\ \A x : Reported(L2, x) <=> slow99 /\ x = Finding("latency", "critical")
  BY <1>1, <1>2, WhenReports
<1>6. /\ E1 \in Seq(Findings) /\ Distinct(E1)
      /\ \A x : Reported(E1, x) <=> bad /\ x = Finding("errors", "critical")
  BY <1>1, <1>2, WhenReports
<1>7. /\ E2 \in Seq(Findings) /\ Distinct(E2)
      /\ \A x : Reported(E2, x) <=> poor /\ x = Finding("errors", "warning")
  BY <1>1, <1>2, WhenReports
<1>8. /\ C1 \in Seq(Findings) /\ Distinct(C1)
      /\ \A x : Reported(C1, x) <=> late /\ x = Finding("timeouts", "warning")
  BY <1>1, <1>2, WhenReports
<1>9. /\ C2 \in Seq(Findings) /\ Distinct(C2)
      /\ \A x : Reported(C2, x) <=> refused /\ x = Finding("connections", "warning")
  BY <1>1, <1>2, WhenReports
<1>10. /\ C3 \in Seq(Findings) /\ Distinct(C3)
       /\ \A x : Reported(C3, x) <=> unknown /\ x = Finding("dns", "warning")
  BY <1>1, <1>2, WhenReports
<1> HIDE DEF L1, L2, E1, E2, C1, C2, C3
<1>11. /\ L1 \o L2 \in Seq(Findings) /\ Distinct(L1 \o L2)
       /\ \A x : Reported(L1 \o L2, x) <=>
            \/ slow95 /\ x = Finding("latency", "warning")
            \/ slow99 /\ x = Finding("latency", "critical")
  BY <1>4, <1>5, Joined, FindingsDiffer
<1>12. /\ C1 \o C2 \in Seq(Findings) /\ Distinct(C1 \o C2)
       /\ \A x : Reported(C1 \o C2, x) <=>
            \/ late /\ x = Finding("timeouts", "warning")
            \/ refused /\ x = Finding("connections", "warning")
  BY <1>8, <1>9, Joined, FindingsDiffer
<1>13. /\ C1 \o C2 \o C3 \in Seq(Findings) /\ Distinct(C1 \o C2 \o C3)
       /\ \A x : Reported(C1 \o C2 \o C3, x) <=>
            \/ late /\ x = Finding("timeouts", "warning")
            \/ refused /\ x = Finding("connections", "warning")
            \/ unknown /\ x = Finding("dns", "warning")
  <2>1. \A x : ~ (Reported(C1 \o C2, x) /\ Reported(C3, x))
    BY <1>10, <1>12, FindingsDiffer
  <2> DEFINE C12 == C1 \o C2
  <2> HIDE DEF C12
  <2>2. /\ C12 \o C3 \in Seq(Findings) /\ Distinct(C12 \o C3)
        /\ \A x : Reported(C12 \o C3, x) <=> Reported(C12, x) \/ Reported(C3, x)
    BY <1>10, <1>12, <2>1, Joined DEF C12
  <2>. QED
    BY <1>10, <1>12, <2>2 DEF C12
<1> DEFINE L == LatencyFindings(s)
           E == ErrorFindings(s)
           C == CauseFindings(s)
<1>14. /\ L \in Seq(Findings) /\ Distinct(L)
       /\ \A x : Reported(L, x) <=>
            \/ slow95 /\ x = Finding("latency", "warning")
            \/ slow99 /\ x = Finding("latency", "critical")
  BY <1>3, <1>11
<1>15. /\ E \in Seq(Findings) /\ Distinct(E)
       /\ \A x : Reported(E, x) <=>
            \/ bad /\ x = Finding("errors", "critical")
            \/ ~bad /\ poor /\ x = Finding("errors", "warning")
  <2>1. CASE bad
    BY <1>3, <1>6, <2>1
  <2>2. CASE ~bad
    BY <1>3, <1>7, <2>2
  <2>. QED
    BY <2>1, <2>2
<1>16. /\ C \in Seq(Findings) /\ Distinct(C)
       /\ \A x : Reported(C, x) <=>
            \/ n # 0 /\ late /\ x = Finding("timeouts", "warning")
            \/ n # 0 /\ refused /\ x = Finding("connections", "warning")
            \/ n # 0 /\ unknown /\ x = Finding("dns", "warning")
  <2>1. CASE n = 0
    BY <1>3, <2>1, NothingReported
  <2>2. CASE n # 0
    BY <1>3, <1>13, <2>2
  <2>. QED
    BY <2>1, <2>2
<1>17. HttpFindings(s) = (L \o E) \o C
  BY DEF HttpFindings
<1> HIDE DEF L, E, C
<1>18. /\ L \o E \in Seq(Findings) /\ Distinct(L \o E)
       /\ \A x : Reported(L \o E, x) <=>
            \/ slow95 /\ x = Finding("latency", "warning")
            \/ slow99 /\ x = Finding("latency", "critical")
            \/ bad /\ x = Finding("errors", "critical")
            \/ ~bad /\ poor /\ x = Finding("errors", "warning")
  BY <1>14, <1>15, Joined, FindingsDiffer
<1>19. /\ (L \o E) \o C \in Seq(Findings) /\ Distinct((L \o E) \o C)
       /\ \A x : Reported((L \o E) \o C, x) <=>
            \/ slow95 /\ x = Finding("latency", "warning")
            \/ slow99 /\ x = Finding("latency", "critical")
            \/ bad /\ x = Finding("errors", "critical")
            \/ ~bad /\ poor /\ x = Finding("errors", "warning")
            \/ n # 0 /\ late /\ x = Finding("timeouts", "warning")
            \/ n # 0 /\ refused /\ x = Finding("connections", "warning")
            \/ n # 0 /\ unknown /\ x = Finding("dns", "warning")
  <2>1. \A x : ~ (Reported(L \o E, x) /\ Reported(C, x))
    BY <1>16, <1>18, FindingsDiffer
  <2> DEFINE LE == L \o E
  <2> HIDE DEF LE
  <2>2. /\ LE \o C \in Seq(Findings) /\ Distinct(LE \o C)
        /\ \A x : Reported(LE \o C, x) <=> Reported(LE, x) \/ Reported(C, x)
    BY <1>16, <1>18, <2>1, Joined DEF LE
  <2>. QED
    BY <1>16, <1>18, <2>2 DEF LE
<1>. QED
  BY <1>17, <1>19 DEF n, slow95, slow99, bad, poor, late, refused, unknown

\* Every finding is counted under its severity.
LEMMA SummaryCounts ==
  ASSUME NEW fs \in Seq(Findings)
  PROVE  LET by == Summary(fs).by_severity
         IN Summary(fs).total_findings = by["critical"] + by["warning"] + by["info"]
<1> DEFINE Of(v) == {n \in DOMAIN fs : fs[n].severity = v}
           C == Of("critical")
           W == Of("warning")
           I == Of("info")
<1>1. /\ Cardinality(DOMAIN fs) = Len(fs) /\ Len(fs) \in Nat
      /\ \A P \in SUBSET DOMAIN fs : IsFiniteSet(P) /\ Cardinality(P) \in Nat
  BY PositionsFinite
<1>2. \A n \in DOMAIN fs : fs[n] \in Findings
  OBVIOUS
<1>3. /\ C \in SUBSET DOMAIN fs /\ W \in SUBSET DOMAIN fs /\ I \in SUBSET DOMAIN fs
      /\ C \cap W = {} /\ (C \cup W) \cap I = {} /\ C \cup W \in SUBSET DOMAIN fs
  OBVIOUS
<1>4. (C \cup W) \cup I = DOMAIN fs
  BY <1>2 DEF Findings, Severities
<1>5. /\ Summary(fs).total_findings = Len(fs)
      /\ Summary(fs).by_severity["critical"] = Cardinality(C)
      /\ Summary(fs).by_severity["warning"] = Cardinality(W)
      /\ Summary(fs).by_severity["info"] = Cardinality(I)
  BY DEF Summary, Severities
<1> HIDE DEF C, W, I
<1>6. Cardinality(C \cup W) = Cardinality(C) + Cardinality(W)
  BY <1>1, <1>3, DisjointUnion
<1>7. Cardinality((C \cup W) \cup I) = Cardinality(C \cup W) + Cardinality(I)
  BY <1>1, <1>3, DisjointUnion
<1>. QED
  BY <1>1, <1>3, <1>4, <1>5, <1>6, <1>7

\* Every result is in a bar of the histogram, whose bars are response times.
LEMMA HistogramCounts ==
  ASSUME NEW rs \in Seq(Result)
  PROVE  LET h == Histogram(Latencies(rs))
         IN /\ SumOver(h, DOMAIN h) = Len(rs)
            /\ DOMAIN h = {Latencies(rs)[i] : i \in DOMAIN rs}
<1> DEFINE ls == Latencies(rs)
           V  == {ls[i] : i \in DOMAIN ls}
           h  == Histogram(ls)
<1>1. /\ DOMAIN ls = DOMAIN rs /\ IsFiniteSet(DOMAIN ls)
      /\ Cardinality(DOMAIN ls) = Len(rs)
  BY LatenciesTyped
<1>2. DOMAIN h = V /\ \A v \in V : h[v] = Cardinality({i \in DOMAIN ls : ls[i] = v})
  BY DEF Histogram
<1>3. IsFiniteSet(V)
  BY <1>1, ValuesFinite
<1>4. \A i \in DOMAIN ls : ls[i] \in V
  OBVIOUS
<1> HIDE DEF ls, V, h
<1>5. SumOver(h, V) = Cardinality(DOMAIN ls)
  BY <1>1, <1>2, <1>3, <1>4, SumOfCounts
<1>. QED
  BY <1>1, <1>2, <1>5 DEF h, ls, V
=============================================================================
