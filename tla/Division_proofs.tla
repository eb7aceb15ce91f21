-------------------------- MODULE Division_proofs --------------------------
(***************************************************************************)
(* Theorems about the division of work among ranks: RankPartition, for     *)
(* every world size, all ratios and any number of datasets, and            *)
(* ReplicaBatches, for any number of replicas, ranks, samples and warmup   *)
(* passes.                                                                 *)
(*                                                                         *)
(* Both compute with recursive functions. What such a function is follows  *)
(* from the least number at which it would go wrong: LeastNat and          *)
(* Recursion stand for induction here, and every argument by induction     *)
(* below is the search for a least counterexample.                         *)
(***************************************************************************)
EXTENDS RankPartition, ReplicaBatches, WellFoundedInduction, FiniteSetTheorems, TLAPS

(***************************************************************************)
(* Numbers                                                                 *)
(***************************************************************************)

\* What \div and % of integers add up to.
LEMMA Quotient ==
    ASSUME NEW a \in Int, NEW b \in Int, b > 0
    PROVE  a = b * (a \div b) + (a % b)
<1>1. a \div b \in Int /\ a % b \in 0 .. b - 1
  OBVIOUS
<1> QED BY <1>1, SMTT(60)

\* The same of natural numbers, with the ranges of both.
LEMMA Remainders ==
    ASSUME NEW a \in Nat, NEW b \in Nat \ {0}
    PROVE  /\ a % b \in 0 .. b - 1 /\ a \div b \in Nat
           /\ a = b * (a \div b) + (a % b)
<1>1. a \in Int /\ b \in Int /\ b > 0
  OBVIOUS
<1>2. a \div b \in Int /\ a % b \in 0 .. b - 1
  BY <1>1
<1>3. a = b * (a \div b) + (a % b)
  BY <1>1, Quotient
<1>4. a \div b \in Nat
  <2>1. b * (a \div b) > -b
    BY <1>2, <1>3
  <2>2. a \div b > -1
    BY <1>1, <1>2, <2>1, SMTT(60)
  <2> QED BY <1>2, <2>2
<1> QED BY <1>2, <1>3, <1>4

\* A quotient rounded down is within one of the exact one.
LEMMA Floor ==
    ASSUME NEW T \in Nat \ {0}, NEW p \in Nat
    PROVE  /\ p \div T \in Nat
           /\ (p \div T) * T <= p
           /\ p < (p \div T) * T + T
<1>1. /\ p % T \in 0 .. T - 1 /\ p \div T \in Nat
      /\ p = T * (p \div T) + (p % T)
  BY Remainders
<1> DEFINE q == p \div T
           m == p % T
<1>2. T * q = q * T /\ q * T \in Int
  <2> HIDE DEF q
  <2> QED BY <1>1 DEF q
<1> QED BY <1>1, <1>2

\* Of two numbers, the greater has no smaller quotient.
LEMMA NoLess ==
    ASSUME NEW T \in Nat \ {0}, NEW p \in Int, NEW r \in Int, NEW a \in Int, NEW b \in Int,
           p < a * T + T, b * T <= r, r <= p
    PROVE  b <= a
<1>1. b * T < a * T + T
  OBVIOUS
<1>2. (b - a) * T < T
  BY <1>1
<1>3. ASSUME NEW d \in Int, d * T < T PROVE d < 1
  BY <1>3, SMTT(60)
<1>4. b - a \in Int /\ b - a < 1
  BY <1>2, <1>3
<1> QED BY <1>4

\* Products with a positive number are ordered as the factors are.
LEMMA MoreTimes ==
    ASSUME NEW T \in Nat \ {0}, NEW a \in Int, NEW b \in Int, a > b
    PROVE  a * T > b * T
BY SMTT(60)

\* One more and one less of a factor.
LEMMA OnceMore ==
    ASSUME NEW T \in Int, NEW a \in Int
    PROVE  (a + 1) * T = a * T + T /\ (a - 1) * T = a * T - T
OBVIOUS

(***************************************************************************)
(* Induction                                                               *)
(***************************************************************************)

\* The order of the natural numbers, as a relation.
LessNat == {p \in Nat \X Nat : p[1] < p[2]}

\* A set of natural numbers that is not empty has a least element.
LEMMA LeastNat ==
    ASSUME NEW T, T \subseteq Nat, T # {}
    PROVE  \E x \in T : \A y \in T : x <= y
<1>1. IsWellFoundedOn(LessNat, Nat)
  BY NatLessThanWellFounded DEF OpToRel, LessNat
<1>2. PICK x \in T : \A y \in T : <<y, x>> \notin LessNat
  BY <1>1, WFMin
<1>3. \A y \in T : ~(y < x)
  BY <1>2 DEF LessNat
<1> QED BY <1>3

\* f starts at base and proceeds by step, up to m.
IsSolution(f, m, S, base, step) ==
    /\ f \in [0 .. m -> S]
    /\ f[0] = base
    /\ \A n \in 1 .. m : f[n] = step[<<f[n - 1], n>>]

\* There is a function that starts at base and proceeds by step.
LEMMA Recursion ==
    ASSUME NEW S, NEW N \in Nat, NEW base \in S, NEW step \in [S \X (1 .. N) -> S]
    PROVE  \E f : IsSolution(f, N, S, base, step)
<1> DEFINE Bad == {m \in 0 .. N : ~ \E f : IsSolution(f, m, S, base, step)}
<1>2. SUFFICES ASSUME Bad # {} PROVE FALSE
  OBVIOUS
<1>3. PICK m \in Bad : \A y \in Bad : m <= y
  <2>1. Bad \subseteq Nat
    OBVIOUS
  <2> HIDE DEF Bad
  <2> QED BY <1>2, <2>1, LeastNat
<1>4. m # 0
  <2>1. IsSolution([n \in 0 .. 0 |-> base], 0, S, base, step)
    BY DEF IsSolution
  <2> QED BY <2>1
<1>5. m \in 1 .. N /\ m - 1 \in 0 .. N /\ m - 1 \in 0 .. m - 1
  BY <1>3, <1>4
<1>6. PICK f : IsSolution(f, m - 1, S, base, step)
  <2>1. m - 1 \notin Bad
    BY <1>3, <1>5
  <2> QED BY <2>1, <1>5
<1> DEFINE last == step[<<f[m - 1], m>>]
           g == [n \in 0 .. m |-> IF n = m THEN last ELSE f[n]]
<1>7. last \in S
  <2>1. f[m - 1] \in S
    BY <1>5, <1>6 DEF IsSolution
  <2> QED BY <2>1, <1>5
<1>8. IsSolution(g, m, S, base, step)
  <2>3. g \in [0 .. m -> S]
    <3> HIDE DEF last
    <3> QED BY <1>7, <1>5, <1>6 DEF IsSolution
  <2>4. g[0] = base
    BY <1>5, <1>6 DEF IsSolution
  <2>5. ASSUME NEW n \in 1 .. m PROVE g[n] = step[<<g[n - 1], n>>]
    <3>1. g[n - 1] = f[n - 1]
      BY <1>5
    <3>2. n - 1 \in 0 .. m /\ g[n] = IF n = m THEN last ELSE f[n]
      BY <1>5
    <3>3. n # m => f[n] = step[<<f[n - 1], n>>]
      BY <1>5, <1>6 DEF IsSolution
    <3>4. CASE n = m
      BY <3>1, <3>2, <3>4
    <3>5. CASE n # m
      BY <3>1, <3>2, <3>3, <3>5
    <3> QED BY <3>4, <3>5
  <2> QED BY <2>3, <2>4, <2>5 DEF IsSolution
<1> QED BY <1>3, <1>8

(***************************************************************************)
(* Sums                                                                    *)
(***************************************************************************)

\* Sums is what its recursive definition says.
LEMMA SumsAre ==
    ASSUME NEW s \in Seq(Int)
    PROVE  /\ Sums(s) \in [0 .. Len(s) -> Int]
           /\ Sums(s)[0] = 0
           /\ \A n \in 1 .. Len(s) : Sums(s)[n] = Sums(s)[n - 1] + s[n]
<1> DEFINE N == Len(s)
           step == [p \in Int \X (1 .. N) |-> p[1] + s[p[2]]]
           Is(f) == f = [n \in 0 .. Len(s) |-> IF n = 0 THEN 0 ELSE f[n - 1] + s[n]]
<1>1. N \in Nat /\ 0 \in Int
  OBVIOUS
<1>2. step \in [Int \X (1 .. N) -> Int]
  OBVIOUS
<1>3. PICK f : IsSolution(f, N, Int, 0, step)
  <2> HIDE DEF step, N
  <2> QED BY <1>1, <1>2, Recursion
<1>4. Is(f)
  <2>1. ASSUME NEW n \in 1 .. N PROVE f[n] = f[n - 1] + s[n]
    <3>1. n - 1 \in 0 .. N /\ f \in [0 .. N -> Int]
      BY <1>1, <1>3 DEF IsSolution
    <3>2. f[n - 1] \in Int
      <4> HIDE DEF N
      <4> QED BY <3>1
    <3>3. f[n] = step[<<f[n - 1], n>>]
      <4> HIDE DEF step
      <4> QED BY <1>3 DEF IsSolution
    <3> QED BY <3>2, <3>3
  <2> QED BY <1>1, <1>3, <2>1 DEF IsSolution
<1>5. Is(Sums(s))
  <2>1. Sums(s) = CHOOSE g : Is(g)
    BY DEF Sums
  <2> HIDE DEF Is
  <2> QED BY <1>4, <2>1
<1>6. /\ Sums(s) = [n \in 0 .. N |-> Sums(s)[n]]
      /\ Sums(s)[0] = 0
      /\ \A n \in 1 .. N : Sums(s)[n] = Sums(s)[n - 1] + s[n]
  BY <1>1, <1>5
<1>7. \A n \in 0 .. N : Sums(s)[n] \in Int
  <2> DEFINE Bad == {n \in 0 .. N : Sums(s)[n] \notin Int}
  <2>1. SUFFICES ASSUME Bad # {} PROVE FALSE
    OBVIOUS
  <2>2. PICK n \in Bad : \A y \in Bad : n <= y
    <3>1. Bad \subseteq Nat
      OBVIOUS
    <3> HIDE DEF Bad
    <3> QED BY <2>1, <3>1, LeastNat
  <2>3. n \in 1 .. N /\ n - 1 \in 0 .. N /\ n - 1 \notin Bad
    BY <1>1, <1>6, <2>2
  <2>4. Sums(s)[n] \in Int
    <3>1. Sums(s)[n - 1] \in Int
      BY <2>3
    <3>2. s[n] \in Int
      <4> HIDE DEF Bad
      <4> QED BY <2>3
    <3>3. Sums(s)[n] = Sums(s)[n - 1] + s[n]
      <4> HIDE DEF Bad
      <4> QED BY <1>6, <2>3
    <3> QED BY <3>1, <3>2, <3>3
  <2> QED BY <2>2, <2>4
<1> QED BY <1>6, <1>7

\* Sums of terms that are no greater are no greater.
LEMMA SumsCompare ==
    ASSUME NEW s \in Seq(Int), NEW t \in Seq(Int), Len(s) = Len(t),
           \A n \in 1 .. Len(s) : s[n] <= t[n]
    PROVE  \A n \in 0 .. Len(s) : Sums(s)[n] <= Sums(t)[n]
<1> DEFINE Bad == {n \in 0 .. Len(s) : ~(Sums(s)[n] <= Sums(t)[n])}
<1>1. SUFFICES ASSUME Bad # {} PROVE FALSE
  OBVIOUS
<1>2. PICK n \in Bad : \A y \in Bad : n <= y
  <2>1. Bad \subseteq Nat
    OBVIOUS
  <2> HIDE DEF Bad
  <2> QED BY <1>1, <2>1, LeastNat
<1>3. n \in 1 .. Len(s) /\ n - 1 \in 0 .. Len(s) /\ n - 1 \notin Bad
  BY <1>2, SumsAre
<1>4. /\ Sums(s)[n - 1] \in Int /\ Sums(t)[n - 1] \in Int
      /\ Sums(s)[n - 1] <= Sums(t)[n - 1]
      /\ Sums(s)[n] = Sums(s)[n - 1] + s[n]
      /\ Sums(t)[n] = Sums(t)[n - 1] + t[n]
      /\ s[n] <= t[n] /\ s[n] \in Int /\ t[n] \in Int
  BY <1>3, SumsAre
<1>5. Sums(s)[n] <= Sums(t)[n]
  BY <1>4
<1> QED BY <1>2, <1>5

\* The step of SumsLinear.
LEMMA Distributes ==
    ASSUME NEW a \in Int, NEW b \in Int, NEW x \in Int, NEW y \in Int, NEW p \in Int, NEW q \in Int
    PROVE  (a * x - b * y) + (a * p - b * q) = a * (x + p) - b * (y + q)
OBVIOUS

\* The terms of u are a times those of s minus b times those of t.
Combines(u, a, s, b, t) ==
    /\ Len(s) = Len(u) /\ Len(t) = Len(u)
    /\ \A n \in 1 .. Len(u) : u[n] = a * s[n] - b * t[n]

\* Sums are linear: of a * s - b * t.
LEMMA SumsLinear ==
    ASSUME NEW s \in Seq(Int), NEW t \in Seq(Int), NEW u \in Seq(Int), NEW a \in Int, NEW b \in Int,
           Combines(u, a, s, b, t)
    PROVE  \A n \in 0 .. Len(u) : Sums(u)[n] = a * Sums(s)[n] - b * Sums(t)[n]
<1>0. /\ Len(s) = Len(u) /\ Len(t) = Len(u)
      /\ \A n \in 1 .. Len(u) : u[n] = a * s[n] - b * t[n]
  BY DEF Combines
<1> DEFINE Bad == {n \in 0 .. Len(u) : ~(Sums(u)[n] = a * Sums(s)[n] - b * Sums(t)[n])}
<1>1. SUFFICES ASSUME Bad # {} PROVE FALSE
  OBVIOUS
<1>2. PICK n \in Bad : \A y \in Bad : n <= y
  <2>1. Bad \subseteq Nat
    OBVIOUS
  <2> HIDE DEF Bad
  <2> QED BY <1>1, <2>1, LeastNat
<1>3. n \in 1 .. Len(u) /\ n - 1 \in 0 .. Len(u) /\ n - 1 \notin Bad
  <2>1. 0 \notin Bad
    BY <1>0, SumsAre
  <2> QED BY <1>0, <1>2, <2>1
<1>4. /\ Sums(s)[n - 1] \in Int /\ Sums(s)[n] = Sums(s)[n - 1] + s[n]
      /\ s[n] \in Int
  <2>1. n \in 1 .. Len(s) /\ n - 1 \in 0 .. Len(s)
    BY <1>0, <1>3
  <2>2. s[n] \in Int
    <3> HIDE DEF Bad
    <3> QED BY <2>1
  <2> HIDE DEF Bad
  <2> QED BY <2>1, <2>2, SumsAre
<1>5. /\ Sums(t)[n - 1] \in Int /\ Sums(t)[n] = Sums(t)[n - 1] + t[n]
      /\ t[n] \in Int
  <2>1. n \in 1 .. Len(t) /\ n - 1 \in 0 .. Len(t)
    BY <1>0, <1>3
  <2>2. t[n] \in Int
    <3> HIDE DEF Bad
    <3> QED BY <2>1
  <2> HIDE DEF Bad
  <2> QED BY <2>1, <2>2, SumsAre
<1>6. Sums(u)[n] = Sums(u)[n - 1] + u[n]
  BY <1>0, <1>3, SumsAre
<1>7. Sums(u)[n - 1] = a * Sums(s)[n - 1] - b * Sums(t)[n - 1]
  BY <1>0, <1>3
<1>8. u[n] = a * s[n] - b * t[n]
  BY <1>0, <1>3
<1>9. Sums(u)[n] = a * Sums(s)[n] - b * Sums(t)[n]
  <2> DEFINE x == Sums(s)[n - 1]
             y == Sums(t)[n - 1]
             p == s[n]
             q == t[n]
  <2>1. x \in Int /\ y \in Int /\ p \in Int /\ q \in Int
    BY <1>4, <1>5
  <2>2. (a * x - b * y) + (a * p - b * q) = a * (x + p) - b * (y + q)
    <3> HIDE DEF x, y, p, q
    <3> QED BY <2>1, Distributes
  <2>3. Sums(u)[n] = (a * x - b * y) + (a * p - b * q)
    BY <1>6, <1>7, <1>8
  <2>4. Sums(s)[n] = x + p /\ Sums(t)[n] = y + q
    BY <1>4, <1>5
  <2> HIDE DEF x, y, p, q
  <2> QED BY <2>2, <2>3, <2>4
<1> QED BY <1>2, <1>9

\* The sums of positive terms grow with every term.
LEMMA SumsGrow ==
    ASSUME NEW s \in Seq(Int), \A i \in 1 .. Len(s) : s[i] >= 1,
           NEW m \in 0 .. Len(s)
    PROVE  \A n \in 0 .. Len(s) : m <= n => Sums(s)[m] + (n - m) <= Sums(s)[n]
<1> DEFINE Bad == {n \in 0 .. Len(s) : m <= n /\ ~(Sums(s)[m] + (n - m) <= Sums(s)[n])}
<1>1. SUFFICES ASSUME Bad # {} PROVE FALSE
  OBVIOUS
<1>2. PICK n \in Bad : \A y \in Bad : n <= y
  <2>1. Bad \subseteq Nat
    OBVIOUS
  <2> HIDE DEF Bad
  <2> QED BY <1>1, <2>1, LeastNat
<1>3. n # m
  <2>1. Sums(s)[m] \in Int
    BY SumsAre
  <2> QED BY <2>1, <1>2
<1>4. n \in 1 .. Len(s) /\ n - 1 \in 0 .. Len(s) /\ n - 1 \notin Bad /\ m <= n - 1
  BY <1>2, <1>3
<1>5. Sums(s)[m] \in Int /\ Sums(s)[n - 1] \in Int
  <2> HIDE DEF Bad
  <2> QED BY <1>4, SumsAre
<1>6. s[n] \in Int /\ s[n] >= 1
  <2> HIDE DEF Bad
  <2> QED BY <1>4
<1>7. Sums(s)[n] = Sums(s)[n - 1] + s[n]
  <2> HIDE DEF Bad
  <2> QED BY <1>4, SumsAre
<1>8. Sums(s)[m] + ((n - 1) - m) <= Sums(s)[n - 1]
  BY <1>4
<1>9. Sums(s)[m] + (n - m) <= Sums(s)[n]
  BY <1>4, <1>5, <1>6, <1>7, <1>8
<1> QED BY <1>2, <1>9

\* The sequence of n terms that is 1 where P holds.
Indicator(P, N) == [n \in 1 .. N |-> IF n \in P THEN 1 ELSE 0]

\* Its sum counts P.
LEMMA SumsCount ==
    ASSUME NEW N \in Nat, NEW P, P \subseteq 1 .. N
    PROVE  /\ Indicator(P, N) \in Seq(Int) /\ Len(Indicator(P, N)) = N
           /\ SumOf(Indicator(P, N)) = Cardinality(P)
<1> DEFINE s == Indicator(P, N)
           Bad == {n \in 0 .. N : Sums(s)[n] # Cardinality(P \cap (1 .. n))}
<1>1. s \in Seq(Int) /\ Len(s) = N
  BY DEF Indicator
<1>2. \A n \in 0 .. N : IsFiniteSet(P \cap (1 .. n))
  <2> TAKE n \in 0 .. N
  <2>1. IsFiniteSet(1 .. n)
    BY FS_Interval
  <2>2. P \cap (1 .. n) \subseteq 1 .. n
    OBVIOUS
  <2> QED BY <2>1, <2>2, FS_Subset
<1>3. Bad = {}
  <2>1. SUFFICES ASSUME Bad # {} PROVE FALSE
    OBVIOUS
  <2>2. PICK n \in Bad : \A y \in Bad : n <= y
    <3>1. Bad \subseteq Nat
      OBVIOUS
    <3> HIDE DEF Bad
    <3> QED BY <2>1, <3>1, LeastNat
  <2>3. n # 0
    <3>1. P \cap (1 .. 0) = {}
      OBVIOUS
    <3>2. Sums(s)[0] = 0
      <4> HIDE DEF s
      <4> QED BY <1>1, SumsAre
    <3>3. 0 \notin Bad
      <4> HIDE DEF s
      <4> QED BY <3>1, <3>2, FS_EmptySet
    <3> QED BY <3>3, <2>2
  <2>4. n \in 1 .. N /\ n - 1 \in 0 .. N /\ n - 1 \notin Bad
    BY <2>2, <2>3
  <2>5. Sums(s)[n - 1] = Cardinality(P \cap (1 .. n - 1))
    BY <2>4
  <2>6. Sums(s)[n] = Sums(s)[n - 1] + s[n]
    <3> HIDE DEF s, Bad
    <3> QED BY <1>1, <2>4, SumsAre
  <2>7. s[n] = IF n \in P THEN 1 ELSE 0
    BY <2>4 DEF Indicator
  <2>8. Cardinality(P \cap (1 .. n)) = Cardinality(P \cap (1 .. n - 1)) + s[n]
    <3>1. n \notin P \cap (1 .. n - 1) /\ IsFiniteSet(P \cap (1 .. n - 1))
      BY <1>2, <2>4
    <3>2. CASE n \in P
      <4>1. P \cap (1 .. n) = (P \cap (1 .. n - 1)) \cup {n}
        BY <2>4, <3>2
      <4> HIDE DEF s
      <4> QED BY <4>1, <3>1, <3>2, <2>7, FS_AddElement
    <3>3. CASE n \notin P
      <4>1. P \cap (1 .. n) = P \cap (1 .. n - 1)
        BY <2>4, <3>3
      <4>2. Cardinality(P \cap (1 .. n - 1)) \in Nat
        BY <3>1, FS_CardinalityType
      <4> HIDE DEF s
      <4> QED BY <4>1, <4>2, <3>3, <2>7
    <3> QED BY <3>2, <3>3
  <2>9. Sums(s)[n] = Cardinality(P \cap (1 .. n))
    <3> HIDE DEF s
    <3> QED BY <2>5, <2>6, <2>8
  <2> QED BY <2>2, <2>9
<1>4. Sums(s)[N] = Cardinality(P \cap (1 .. N))
  BY <1>3
<1>5. P \cap (1 .. N) = P
  OBVIOUS
<1> HIDE DEF s
<1> QED BY <1>1, <1>4, <1>5 DEF SumOf, s

\* Sequence u has one more than s in each place of P.
OneMore(s, u, P) ==
    /\ Len(s) = Len(u) /\ P \subseteq 1 .. Len(u)
    /\ \A n \in 1 .. Len(u) : u[n] = IF n \in P THEN s[n] + 1 ELSE s[n]

\* One more for each term of P adds the size of P to the sum.
LEMMA SumMore ==
    ASSUME NEW s \in Seq(Int), NEW u \in Seq(Int), NEW P, OneMore(s, u, P)
    PROVE  SumOf(s) = SumOf(u) - Cardinality(P)
<1>0. /\ Len(s) = Len(u) /\ P \subseteq 1 .. Len(u)
      /\ \A n \in 1 .. Len(u) : u[n] = IF n \in P THEN s[n] + 1 ELSE s[n]
  BY DEF OneMore
<1> DEFINE t == Indicator(P, Len(u))
<1>1. Len(u) \in Nat /\ Len(s) \in 0 .. Len(s) /\ Len(s) = Len(u)
  BY <1>0
<1>2. t \in Seq(Int) /\ Len(t) = Len(u) /\ SumOf(t) = Cardinality(P)
  BY <1>0, <1>1, SumsCount
<1>3. \A n \in 1 .. Len(u) : s[n] \in Int /\ u[n] \in Int /\ s[n] = u[n] - t[n]
  BY <1>0 DEF Indicator
<1> HIDE DEF t
<1>4. PICK a \in Int : a = 1
  OBVIOUS
<1>5. Combines(s, a, u, a, t)
  <2>1. \A n \in 1 .. Len(s) : s[n] = a * u[n] - a * t[n]
    <3> TAKE n \in 1 .. Len(s)
    <3>1. n \in 1 .. Len(t) /\ n \in 1 .. Len(u)
      BY <1>1, <1>2
    <3>2. t[n] \in Int
      BY <1>2, <3>1
    <3> QED BY <1>3, <1>4, <3>1, <3>2
  <2> QED BY <1>1, <1>2, <2>1 DEF Combines
<1>6. \A n \in 0 .. Len(s) : Sums(s)[n] = a * Sums(u)[n] - a * Sums(t)[n]
  BY <1>2, <1>4, <1>5, SumsLinear
<1>7. /\ SumOf(s) = a * SumOf(u) - a * SumOf(t)
      /\ SumOf(u) \in Int /\ SumOf(t) \in Int
  <2>1. Len(t) \in 0 .. Len(t) /\ Len(u) \in 0 .. Len(u)
    BY <1>1, <1>2
  <2> QED BY <1>1, <1>2, <1>6, <2>1, SumsAre DEF SumOf
<1> QED BY <1>2, <1>4, <1>7

\* A sum of positive terms is at least their number.
LEMMA SumOfPositive ==
    ASSUME NEW s \in Seq(Nat \ {0}), Len(s) # 0
    PROVE  SumOf(s) \in Nat /\ SumOf(s) >= Len(s)
<1>1. s \in Seq(Int) /\ Len(s) \in 0 .. Len(s) /\ 0 \in 0 .. Len(s)
  OBVIOUS
<1>2. \A i \in 1 .. Len(s) : s[i] >= 1
  OBVIOUS
<1>3. Sums(s)[0] = 0 /\ Sums(s)[Len(s)] \in Int
  BY <1>1, SumsAre
<1>4. Sums(s)[0] + (Len(s) - 0) <= Sums(s)[Len(s)]
  BY <1>1, <1>2, SumsGrow
<1> QED BY <1>1, <1>3, <1>4 DEF SumOf

(***************************************************************************)
(* The allocation of ranks to datasets                                     *)
(***************************************************************************)

\* What the constructor has chosen: every dataset has a rank, and there are ranks for all.
Planned ==
    /\ worldSize \in WorldSizes
    /\ ratios \in Seq(RatioValues) /\ Len(ratios) \in 1 .. worldSize
    /\ allocations \in Seq(Nat \ {0}) /\ Len(allocations) = Len(ratios)

\* A dataset never gets fewer ranks than one of a smaller ratio.
RatiosOrdered == \A i, j \in DOMAIN ratios : ratios[i] > ratios[j] => allocations[i] >= allocations[j]

\* No dataset has a whole rank more than its share, unless that is its only one.
NotOver == \A i \in DOMAIN ratios : allocations[i] = 1 \/ Short(i) > -SumOf(ratios)

\* While ranks remain, no dataset lacks a whole rank.
NotUnder == Remaining > 0 => \A i \in DOMAIN ratios : Short(i) < SumOf(ratios)

\* The inductive invariant: SharesFair does not survive the repair by itself. That a
\* dataset which is given a rank lacks a part of one follows from NotUnder, and that
\* a rank is taken in the order of the ratios from RatiosOrdered.
PartInv ==
    /\ PartTypeOK
    /\ partPc # "start" => Planned /\ RatiosOrdered /\ NotOver /\ NotUnder
    /\ partPc = "done" => Remaining = 0

\* The types of all that is computed from the ratios and the allocations.
LEMMA PlannedFacts ==
    ASSUME Planned, PartitionAssumption
    PROVE  /\ worldSize \in Nat \ {0}
           /\ Len(ratios) \in Nat \ {0} /\ DOMAIN ratios = 1 .. Len(ratios)
           /\ DOMAIN allocations = 1 .. Len(ratios)
           /\ SumOf(ratios) \in Nat \ {0} /\ SumOf(allocations) \in Nat
           /\ \A i \in 1 .. Len(ratios) : ratios[i] \in Nat \ {0} /\ allocations[i] \in Nat \ {0}
           /\ \A i \in 1 .. Len(ratios) : /\ ratios[i] * worldSize \in Nat
                                          /\ allocations[i] * SumOf(ratios) \in Nat
                                          /\ Short(i) = ratios[i] * worldSize - allocations[i] * SumOf(ratios)
                                          /\ Short(i) \in Int
           /\ Remaining \in Int
<1>1. worldSize \in Nat \ {0}
  BY DEF Planned, PartitionAssumption
<1>2. /\ Len(ratios) \in Nat \ {0} /\ DOMAIN ratios = 1 .. Len(ratios)
      /\ DOMAIN allocations = 1 .. Len(ratios)
  BY DEF Planned
<1>3. ratios \in Seq(Nat \ {0}) /\ allocations \in Seq(Nat \ {0})
  <2>2. ratios \in Seq(RatioValues) /\ Len(ratios) \in Nat
    BY DEF Planned
  <2>1. \A i \in 1 .. Len(ratios) : ratios[i] \in Nat \ {0}
    <3> TAKE i \in 1 .. Len(ratios)
    <3>1. ratios[i] \in RatioValues
      BY <2>2
    <3>2. RatioValues \subseteq Nat \ {0}
      BY DEF PartitionAssumption
    <3> QED BY <3>1, <3>2
  <2>3. ratios \in Seq(Nat \ {0})
    BY <2>1, <2>2
  <2> QED BY <2>3 DEF Planned
<1>4. SumOf(ratios) \in Nat \ {0} /\ SumOf(allocations) \in Nat
  BY <1>2, <1>3, SumOfPositive DEF Planned
<1>5. \A i \in 1 .. Len(ratios) : ratios[i] \in Nat \ {0} /\ allocations[i] \in Nat \ {0}
  BY <1>2, <1>3
<1>6. ASSUME NEW a \in Nat, NEW b \in Nat PROVE a * b \in Nat
  OBVIOUS
<1>7. \A i \in 1 .. Len(ratios) : /\ ratios[i] * worldSize \in Nat
                                  /\ allocations[i] * SumOf(ratios) \in Nat
  BY <1>1, <1>4, <1>5, <1>6
<1>8. \A i \in 1 .. Len(ratios) : Short(i) = ratios[i] * worldSize - allocations[i] * SumOf(ratios)
  BY DEF Short, Ideal
<1>9. Remaining \in Int
  BY <1>1, <1>4 DEF Remaining
<1> QED BY <1>1, <1>2, <1>4, <1>5, <1>7, <1>8, <1>9

\* Rounding down, and up to one, establishes the invariant.
LEMMA ConstructKeepsPart ==
    ASSUME PartInv, Construct, PartitionAssumption
    PROVE  PartInv'
<1>1. PICK k \in 1 .. MaxDatasets : k <= worldSize' /\ ratios' \in [1 .. k -> RatioValues]
  BY DEF Construct
<1>2. /\ worldSize' \in WorldSizes /\ worldSize' \in Nat \ {0} /\ k \in Nat \ {0}
      /\ partPc' = "repair"
  BY <1>1 DEF Construct, PartitionAssumption
<1> DEFINE rs == ratios'
           n == worldSize'
           T == SumOf(ratios')
<1>3. rs \in Seq(RatioValues) /\ Len(rs) = k /\ DOMAIN rs = 1 .. k
  BY <1>1, <1>2
<1>4. \A i \in 1 .. k : rs[i] \in Nat \ {0}
  <2> TAKE i \in 1 .. k
  <2>1. rs[i] \in RatioValues
    BY <1>1
  <2> QED BY <2>1 DEF PartitionAssumption
<1>5. T \in Nat \ {0}
  <2>1. rs \in Seq(Nat \ {0}) /\ Len(rs) # 0
    BY <1>2, <1>3, <1>4
  <2> QED BY <2>1, SumOfPositive, <1>2, <1>3
<1>6. allocations' = [i \in 1 .. k |-> Rounded(rs, n, i)]
  BY <1>3 DEF Construct
<1> HIDE DEF rs, n, T
<1>7. \A i \in 1 .. k : rs[i] * n \in Nat
  <2>1. ASSUME NEW a \in Nat, NEW b \in Nat PROVE a * b \in Nat
    OBVIOUS
  <2> QED BY <2>1, <1>2, <1>4 DEF n
<1> DEFINE q(i) == (rs[i] * n) \div T
<1>8. \A i \in 1 .. k : /\ q(i) \in Nat /\ q(i) * T <= rs[i] * n
                        /\ rs[i] * n < q(i) * T + T
  BY <1>5, <1>7, Floor
<1>9. \A i \in 1 .. k : allocations'[i] = IF q(i) = 0 THEN 1 ELSE q(i)
  BY <1>6 DEF Rounded, Ideal, rs, n, T
<1>10. \A i \in 1 .. k : allocations'[i] \in Nat \ {0}
  <2> HIDE DEF q
  <2> QED BY <1>8, <1>9
<1>11. allocations' \in Seq(Nat \ {0}) /\ Len(allocations') = k
  BY <1>6, <1>10, <1>2
<1>12. Planned'
  BY <1>1, <1>2, <1>3, <1>11 DEF Planned, rs
<1>13. PartTypeOK'
  <2>1. allocations' \in Seq(Nat)
    BY <1>11
  <2> QED BY <1>2, <1>3, <1>11, <2>1 DEF PartTypeOK, rs
<1>14. RatiosOrdered'
  <2> SUFFICES ASSUME NEW i \in 1 .. k, NEW j \in 1 .. k, rs[i] > rs[j]
               PROVE  allocations'[i] >= allocations'[j]
    BY <1>3 DEF RatiosOrdered, rs
  <2>1. rs[j] * n <= rs[i] * n
    <3>1. n \in Nat \ {0} /\ rs[i] \in Int /\ rs[j] \in Int
      BY <1>2, <1>4 DEF n
    <3>2. rs[i] * n > rs[j] * n
      BY <3>1, MoreTimes
    <3> QED BY <3>1, <3>2
  <2>2. q(j) <= q(i)
    <3>1. /\ rs[i] * n \in Int /\ rs[j] * n \in Int /\ q(i) \in Int /\ q(j) \in Int
          /\ rs[i] * n < q(i) * T + T /\ q(j) * T <= rs[j] * n
      <4> HIDE DEF q
      <4> QED BY <1>7, <1>8
    <3> DEFINE p == rs[i] * n
               r == rs[j] * n
    <3> HIDE DEF q, p, r
    <3> QED BY <2>1, <3>1, <1>5, NoLess DEF p, r
  <2> HIDE DEF q
  <2> QED BY <2>2, <1>8, <1>9
<1>15. \A i \in 1 .. k : Short(i)' = rs[i] * n - allocations'[i] * T
  BY DEF Short, Ideal, rs, n, T
<1>16. \A i \in 1 .. k : allocations'[i] * T \in Nat /\ q(i) * T \in Nat
  <2>1. ASSUME NEW a \in Nat, NEW b \in Nat PROVE a * b \in Nat
    OBVIOUS
  <2> HIDE DEF q
  <2> QED BY <2>1, <1>5, <1>8, <1>10
<1>17. NotOver'
  <2> SUFFICES ASSUME NEW i \in 1 .. k, allocations'[i] # 1 PROVE Short(i)' > -T
    BY <1>3 DEF NotOver, rs, T
  <2>1. allocations'[i] = q(i)
    BY <1>9
  <2> HIDE DEF q
  <2> QED BY <2>1, <1>5, <1>7, <1>8, <1>15, <1>16
<1>18. NotUnder'
  <2> SUFFICES ASSUME NEW i \in 1 .. k PROVE Short(i)' < T
    BY <1>3 DEF NotUnder, rs, T
  <2>1. CASE q(i) = 0
    <3>1. allocations'[i] * T = T
      BY <2>1, <1>9, <1>5
    <3>2. q(i) * T = 0
      <4> HIDE DEF q
      <4> QED BY <2>1, <1>5
    <3>3. /\ rs[i] * n \in Int /\ rs[i] * n < q(i) * T + T
          /\ Short(i)' = rs[i] * n - allocations'[i] * T
      <4> HIDE DEF q
      <4> QED BY <1>7, <1>8, <1>15
    <3>4. rs[i] * n < T /\ Short(i)' = rs[i] * n - T
      <4> HIDE DEF q
      <4> QED BY <3>1, <3>2, <3>3, <1>5
    <3> DEFINE p == rs[i] * n
    <3>5. p \in Int /\ p < T /\ Short(i)' = p - T
      BY <3>3, <3>4
    <3> HIDE DEF p
    <3> QED BY <3>5, <1>5
  <2>2. CASE q(i) # 0
    <3>1. allocations'[i] = q(i)
      BY <2>2, <1>9
    <3> HIDE DEF q
    <3> QED BY <3>1, <1>5, <1>7, <1>8, <1>15, <1>16
  <2> QED BY <2>1, <2>2
<1> QED BY <1>2, <1>12, <1>13, <1>14, <1>17, <1>18 DEF PartInv

\* How much of a rank each dataset lacks.
Shorts == [i \in 1 .. Len(ratios) |-> Short(i)]

\* Together the datasets lack what remains.
LEMMA SumOfShorts ==
    ASSUME Planned, PartitionAssumption
    PROVE  /\ Shorts \in Seq(Int) /\ Len(Shorts) = Len(ratios)
           /\ SumOf(Shorts) = SumOf(ratios) * Remaining
<1> DEFINE k == Len(ratios)
           T == SumOf(ratios)
<1>1. /\ k \in Nat \ {0} /\ T \in Int /\ worldSize \in Int /\ SumOf(allocations) \in Int
      /\ \A i \in 1 .. k : ratios[i] \in Int /\ allocations[i] \in Int /\ Short(i) \in Int
  BY PlannedFacts
<1>2. Shorts \in Seq(Int) /\ Len(Shorts) = k
  BY <1>1 DEF Shorts
<1>3. /\ ratios \in Seq(Int) /\ allocations \in Seq(Int)
      /\ Len(ratios) = Len(Shorts) /\ Len(allocations) = Len(Shorts)
  <2>1. ratios \in Seq(RatioValues) /\ allocations \in Seq(Nat \ {0}) /\ Len(allocations) = k
    BY DEF Planned
  <2>2. ratios \in Seq(Int)
    BY <2>1, <1>1
  <2>3. allocations \in Seq(Int)
    BY <2>1
  <2> QED BY <2>1, <2>2, <2>3, <1>2
<1> HIDE DEF T
<1>4. \A i \in 1 .. Len(Shorts) : Shorts[i] = worldSize * ratios[i] - T * allocations[i]
  <2> TAKE i \in 1 .. Len(Shorts)
  <2>1. Shorts[i] = ratios[i] * worldSize - allocations[i] * T
    BY <1>2, PlannedFacts DEF Shorts, T
  <2>2. ASSUME NEW a \in Int, NEW b \in Int PROVE a * b = b * a
    OBVIOUS
  <2>3. ratios[i] \in Int /\ allocations[i] \in Int
    BY <1>1, <1>2
  <2> QED BY <2>1, <2>2, <2>3, <1>1
<1>5. \A m \in 0 .. Len(Shorts) :
         Sums(Shorts)[m] = worldSize * Sums(ratios)[m] - T * Sums(allocations)[m]
  <2>1. Len(ratios) = Len(Shorts) /\ Len(allocations) = Len(Shorts)
    BY <1>3
  <2>2. Shorts \in Seq(Int) /\ worldSize \in Int /\ T \in Int
    BY <1>1, <1>2 DEF T
  <2>3. ratios \in Seq(Int) /\ allocations \in Seq(Int)
    BY <1>3
  <2>4. Combines(Shorts, worldSize, ratios, T, allocations)
    BY <2>1, <1>4 DEF Combines
  <2> QED BY <2>2, <2>3, <2>4, SumsLinear
<1>6. SumOf(Shorts) = worldSize * T - T * SumOf(allocations)
  <2>1. Len(Shorts) \in 0 .. Len(Shorts)
    BY <1>1, <1>2
  <2> QED BY <2>1, <1>3, <1>5 DEF SumOf, T
<1>7. SumOf(Shorts) = T * (worldSize - SumOf(allocations))
  <2>1. ASSUME NEW a \in Int, NEW b \in Int, NEW c \in Int PROVE b * a - a * c = a * (b - c)
    OBVIOUS
  <2> QED BY <2>1, <1>1, <1>6
<1> QED BY <1>2, <1>7 DEF Remaining, T

\* A dataset that is given one of the remaining ranks lacks a part of it: otherwise
\* those in front of it would have to lack more than a rank each.
LEMMA GivenAreShort ==
    ASSUME Planned, PartitionAssumption, NotUnder, Remaining > 0, NEW i \in 1 .. Len(ratios),
           Cardinality({j \in DOMAIN ratios : Ahead(j, i)}) < Remaining
    PROVE  Short(i) > 0
<1> DEFINE k == Len(ratios)
           T == SumOf(ratios)
           P == {j \in DOMAIN ratios : Ahead(j, i)}
           c == Cardinality(P)
           ind == Indicator(P, k)
           top == [j \in 1 .. k |-> T * ind[j]]
<1>1. /\ k \in Nat \ {0} /\ DOMAIN ratios = 1 .. k /\ T \in Nat \ {0} /\ Remaining \in Int
      /\ \A j \in 1 .. k : Short(j) \in Int
  BY PlannedFacts
<1>2. SUFFICES ASSUME Short(i) <= 0 PROVE FALSE
  BY <1>1
<1>3. P \subseteq 1 .. k
  BY <1>1
<1>4. ind \in Seq(Int) /\ Len(ind) = k /\ SumOf(ind) = c
  <2> HIDE DEF P
  <2> QED BY <1>1, <1>3, SumsCount
<1>5. \A j \in 1 .. k : ind[j] = IF j \in P THEN 1 ELSE 0
  <2> HIDE DEF P
  <2> QED BY DEF Indicator
<1>6. c \in Int
  <2>1. IsFiniteSet(1 .. k)
    BY <1>1, FS_Interval
  <2>2. IsFiniteSet(P)
    BY <2>1, <1>3, FS_Subset
  <2> HIDE DEF P
  <2> QED BY <2>2, FS_CardinalityType
<1> HIDE DEF ind, c
<1>7. top \in Seq(Int) /\ Len(top) = k /\ \A j \in 1 .. k : top[j] = IF j \in P THEN T ELSE 0
  <2> HIDE DEF P
  <2>1. \A j \in 1 .. k : T * ind[j] = IF j \in P THEN T ELSE 0
    BY <1>1, <1>5
  <2> QED BY <2>1, <1>1
<1>8. \A j \in 1 .. k : top[j] = T * ind[j]
  OBVIOUS
<1> HIDE DEF top
<1>9. SumOf(top) = T * c
  <2>1. PICK z \in Int : z = 0
    OBVIOUS
  <2>2. \A j \in 1 .. Len(top) : top[j] = T * ind[j] - z * ind[j]
    <3> TAKE j \in 1 .. Len(top)
    <3>1. ind[j] \in Int /\ T * ind[j] \in Int /\ top[j] = T * ind[j]
      BY <1>1, <1>4, <1>7, <1>8
    <3>2. z * ind[j] = 0
      BY <3>1, <2>1
    <3> QED BY <3>1, <3>2
  <2>3. \A m \in 0 .. Len(top) : Sums(top)[m] = T * Sums(ind)[m] - z * Sums(ind)[m]
    <3>1. Len(ind) = Len(top) /\ T \in Int
      BY <1>1, <1>4, <1>7
    <3>2. T \in Int /\ z \in Int /\ ind \in Seq(Int) /\ top \in Seq(Int)
      BY <1>1, <1>4, <1>7, <2>1
    <3> HIDE DEF T
    <3>3. Combines(top, T, ind, z, ind)
      BY <3>1, <2>2 DEF Combines
    <3> QED BY <3>2, <3>3, SumsLinear
  <2>4. Len(top) \in 0 .. Len(top)
    BY <1>1, <1>7
  <2>5. SumOf(top) = T * c - z * c
    BY <2>3, <2>4, <1>4, <1>7 DEF SumOf
  <2>6. z * c = 0 /\ T * c \in Int
    BY <2>1, <1>1, <1>6
  <2> QED BY <2>5, <2>6
<1>10. \A j \in 1 .. k : Shorts[j] <= top[j]
  <2> TAKE j \in 1 .. k
  <2>1. Shorts[j] = Short(j)
    BY DEF Shorts
  <2>2. CASE j \in P
    <3>1. Short(j) < T
      BY <1>1 DEF NotUnder
    <3>2. top[j] = T
      <4> HIDE DEF P
      <4> QED BY <2>2, <1>7
    <3> QED BY <3>1, <3>2, <2>1, <1>1
  <2>3. CASE j \notin P
    <3>1. ~Ahead(j, i)
      BY <2>3, <1>1
    <3>2. Short(j) <= Short(i)
      BY <3>1, <1>1 DEF Ahead
    <3>3. top[j] = 0
      <4> HIDE DEF P
      <4> QED BY <2>3, <1>7
    <3> QED BY <3>2, <3>3, <2>1, <1>1, <1>2
  <2> QED BY <2>2, <2>3
<1>11. SumOf(Shorts) <= SumOf(top)
  <2>1. Shorts \in Seq(Int) /\ Len(Shorts) = k /\ Len(Shorts) \in 0 .. Len(Shorts)
    BY <1>1, SumOfShorts
  <2>2. \A m \in 0 .. Len(Shorts) : Sums(Shorts)[m] <= Sums(top)[m]
    BY <2>1, <1>7, <1>10, SumsCompare
  <2> QED BY <2>1, <2>2, <1>7 DEF SumOf
<1>12. T * Remaining <= T * c
  BY <1>9, <1>11, SumOfShorts
<1>13. Remaining * T > c * T
  BY <1>1, <1>6, MoreTimes DEF c
<1>14. Remaining * T = T * Remaining /\ c * T = T * c /\ T * Remaining \in Int /\ T * c \in Int
  BY <1>1, <1>6
<1> QED BY <1>12, <1>13, <1>14

\* There is a dataset for each of the remaining ranks: remainders[j] exists.
LEMMA FewRemain ==
    ASSUME Planned, PartitionAssumption, NotUnder, Remaining > 0
    PROVE  Remaining < Len(ratios)
<1> DEFINE k == Len(ratios)
           T == SumOf(ratios)
           ones == Indicator(1 .. k, k)
           top == [j \in 1 .. k |-> T - 1]
<1>1. /\ k \in Nat \ {0} /\ DOMAIN ratios = 1 .. k /\ T \in Nat \ {0} /\ Remaining \in Int
      /\ \A j \in 1 .. k : Short(j) \in Int
  BY PlannedFacts
<1>2. ones \in Seq(Int) /\ Len(ones) = k /\ SumOf(ones) = k
  <2>1. ones \in Seq(Int) /\ Len(ones) = k /\ SumOf(ones) = Cardinality(1 .. k)
    BY <1>1, SumsCount
  <2>2. Cardinality(1 .. k) = k
    BY <1>1, FS_Interval
  <2> HIDE DEF ones
  <2> QED BY <2>1, <2>2
<1>3. \A j \in 1 .. k : ones[j] = 1
  BY DEF Indicator
<1> HIDE DEF T, ones
<1>4. top \in Seq(Int) /\ Len(top) = k /\ \A j \in 1 .. k : top[j] = T - 1
  BY <1>1
<1> HIDE DEF top
<1>5. PICK z \in Int : z = 1
  OBVIOUS
<1>6. Combines(top, T, ones, z, ones)
  BY <1>1, <1>2, <1>3, <1>4, <1>5 DEF Combines
<1>7. SumOf(top) = T * k - k
  <2>1. \A m \in 0 .. Len(top) : Sums(top)[m] = T * Sums(ones)[m] - z * Sums(ones)[m]
    BY <1>1, <1>2, <1>4, <1>5, <1>6, SumsLinear
  <2>2. k \in 0 .. Len(top)
    BY <1>1, <1>4
  <2>3. SumOf(top) = T * k - z * k
    BY <2>1, <2>2, <1>2, <1>4 DEF SumOf
  <2> QED BY <2>3, <1>1, <1>5
<1>8. SumOf(Shorts) <= SumOf(top)
  <2>1. Shorts \in Seq(Int) /\ Len(Shorts) = k /\ Len(Shorts) \in 0 .. Len(Shorts)
    BY <1>1, SumOfShorts
  <2>2. \A j \in 1 .. Len(Shorts) : Shorts[j] <= top[j]
    <3> TAKE j \in 1 .. Len(Shorts)
    <3>1. Short(j) < T /\ Short(j) \in Int /\ Shorts[j] = Short(j)
      BY <1>1, <2>1 DEF NotUnder, Shorts, T
    <3> QED BY <3>1, <1>1, <1>4, <2>1
  <2>3. \A m \in 0 .. Len(Shorts) : Sums(Shorts)[m] <= Sums(top)[m]
    BY <2>1, <2>2, <1>4, SumsCompare
  <2> QED BY <2>1, <2>3, <1>4 DEF SumOf
<1>9. T * Remaining <= T * k - k
  BY <1>7, <1>8, SumOfShorts DEF T
<1>10. SUFFICES ASSUME ~(Remaining < k) PROVE FALSE
  OBVIOUS
<1>11. T \in Nat \ {0} /\ k \in Nat \ {0} /\ Remaining \in Int
  BY <1>1
<1> HIDE DEF k
<1>12. T * Remaining >= T * k /\ T * k \in Int /\ T * Remaining \in Int
  <2>1. Remaining = k \/ Remaining > k
    BY <1>10, <1>11
  <2>2. Remaining > k => Remaining * T > k * T
    BY <1>11, MoreTimes
  <2> QED BY <2>1, <2>2, <1>11
<1> QED BY <1>9, <1>11, <1>12

\* The datasets that are given a rank.
Given == {i \in DOMAIN ratios : Cardinality({j \in DOMAIN ratios : Ahead(j, i)}) < Remaining}

\* Every place in remainders is that of one dataset, so the first ones are as many as
\* there are ranks.
LEMMA GivenAreMany ==
    ASSUME Planned, PartitionAssumption, Remaining > 0, Remaining < Len(ratios)
    PROVE  Given \subseteq 1 .. Len(ratios) /\ Cardinality(Given) = Remaining
<1> DEFINE k == Len(ratios)
           ahead(i) == {j \in 1 .. k : Ahead(j, i)}
           place == [i \in 1 .. k |-> Cardinality(ahead(i))]
           front == [i \in Given |-> place[i]]
<1>1. /\ k \in Nat \ {0} /\ DOMAIN ratios = 1 .. k /\ Remaining \in Int
      /\ \A j \in 1 .. k : Short(j) \in Int
  BY PlannedFacts
<1>2. /\ IsFiniteSet(1 .. k) /\ Cardinality(1 .. k) = k
      /\ IsFiniteSet(0 .. k - 1) /\ Cardinality(0 .. k - 1) = k
      /\ IsFiniteSet(0 .. Remaining - 1) /\ Cardinality(0 .. Remaining - 1) = Remaining
  <2>1. k - 1 \in Int /\ Remaining - 1 \in Int /\ 0 \in Int /\ 1 \in Int /\ k \in Int
    BY <1>1
  <2>2. IsFiniteSet(0 .. k - 1) /\ Cardinality(0 .. k - 1) = IF 0 > k - 1 THEN 0 ELSE (k - 1) - 0 + 1
    BY <2>1, FS_Interval
  <2>3. /\ IsFiniteSet(0 .. Remaining - 1)
        /\ Cardinality(0 .. Remaining - 1) = IF 0 > Remaining - 1 THEN 0 ELSE (Remaining - 1) - 0 + 1
    BY <2>1, FS_Interval
  <2>4. IsFiniteSet(1 .. k) /\ Cardinality(1 .. k) = IF 1 > k THEN 0 ELSE k - 1 + 1
    BY <2>1, FS_Interval
  <2> QED BY <1>1, <2>2, <2>3, <2>4
<1>3. \A i \in 1 .. k : IsFiniteSet(ahead(i)) /\ Cardinality(ahead(i)) \in Nat
  <2> TAKE i \in 1 .. k
  <2>1. ahead(i) \subseteq 1 .. k
    OBVIOUS
  <2> HIDE DEF ahead
  <2> QED BY <2>1, <1>2, FS_Subset, FS_CardinalityType
<1>4. ASSUME NEW i \in 1 .. k, NEW j \in 1 .. k, Ahead(i, j)
      PROVE  Cardinality(ahead(i)) < Cardinality(ahead(j))
  <2>1. ahead(i) \subseteq ahead(j)
    <3> SUFFICES ASSUME NEW l \in 1 .. k, Ahead(l, i) PROVE Ahead(l, j)
      OBVIOUS
    <3> QED BY <1>1, <1>4 DEF Ahead
  <2>2. i \in ahead(j) /\ i \notin ahead(i)
    BY <1>1, <1>4 DEF Ahead
  <2> HIDE DEF ahead
  <2>3. /\ Cardinality(ahead(i)) <= Cardinality(ahead(j))
        /\ Cardinality(ahead(i)) = Cardinality(ahead(j)) => ahead(i) = ahead(j)
    BY <2>1, <1>3, FS_Subset
  <2> QED BY <2>2, <2>3, <1>3
<1>5. \A i \in 1 .. k : Cardinality(ahead(i)) \in 0 .. k - 1
  <2> TAKE i \in 1 .. k
  <2>1. ahead(i) \subseteq 1 .. k /\ i \notin ahead(i)
    BY <1>1 DEF Ahead
  <2> HIDE DEF ahead
  <2>2. /\ Cardinality(ahead(i)) <= k
        /\ Cardinality(ahead(i)) = k => ahead(i) = 1 .. k
    BY <2>1, <1>2, FS_Subset
  <2> QED BY <2>1, <2>2, <1>1, <1>3
<1>6. place \in Injection(1 .. k, 0 .. k - 1)
  <2>1. place \in [1 .. k -> 0 .. k - 1]
    <3> HIDE DEF ahead
    <3> QED BY <1>5
  <2>2. ASSUME NEW i \in 1 .. k, NEW j \in 1 .. k, place[i] = place[j] PROVE i = j
    <3>1. Cardinality(ahead(i)) = Cardinality(ahead(j))
      BY <2>2
    <3>2. ~Ahead(i, j) /\ ~Ahead(j, i)
      <4> HIDE DEF ahead
      <4> QED BY <3>1, <1>3, <1>4
    <3> QED BY <3>2, <1>1 DEF Ahead
  <2> HIDE DEF place
  <2> QED BY <2>1, <2>2 DEF Injection, IsInjective
<1>7. \A n \in 0 .. k - 1 : \E i \in 1 .. k : place[i] = n
  <2> HIDE DEF place
  <2>1. place \in Surjection(1 .. k, 0 .. k - 1)
    BY <1>2, <1>6, FS_Injection
  <2> QED BY <2>1 DEF Surjection
<1>8. Given \subseteq 1 .. k /\ Given = {i \in 1 .. k : place[i] < Remaining}
  BY <1>1 DEF Given
<1>9. /\ place \in [1 .. k -> 0 .. k - 1]
      /\ \A i, j \in 1 .. k : place[i] = place[j] => i = j
  <2> HIDE DEF place
  <2> QED BY <1>6 DEF Injection, IsInjective
<1> HIDE DEF place
<1>10. front \in Injection(Given, 0 .. Remaining - 1)
  <2>1. front \in [Given -> 0 .. Remaining - 1]
    <3>1. \A i \in Given : place[i] \in 0 .. Remaining - 1
      BY <1>1, <1>8, <1>9
    <3> QED BY <3>1
  <2>2. \A i, j \in Given : front[i] = front[j] => i = j
    BY <1>8, <1>9
  <2> HIDE DEF front
  <2> QED BY <2>1, <2>2 DEF Injection, IsInjective
<1>11. front \in Surjection(Given, 0 .. Remaining - 1)
  <2>1. \A n \in 0 .. Remaining - 1 : \E i \in Given : front[i] = n
    <3> TAKE n \in 0 .. Remaining - 1
    <3>1. n \in 0 .. k - 1 /\ n < Remaining
      BY <1>1
    <3>2. PICK i \in 1 .. k : place[i] = n
      BY <3>1, <1>7
    <3> QED BY <3>1, <3>2, <1>8
  <2>2. front \in [Given -> 0 .. Remaining - 1]
    BY <1>10 DEF Injection
  <2> HIDE DEF front
  <2> QED BY <2>1, <2>2 DEF Surjection
<1> HIDE DEF front
<1>12. Cardinality(Given) = Cardinality(0 .. Remaining - 1)
  BY <1>2, <1>10, <1>11, FS_Injection
<1> QED BY <1>2, <1>8, <1>12

\* Giving away the remaining ranks keeps the invariant, and leaves none.
LEMMA GiveRemainingKeepsPart ==
    ASSUME PartInv, GiveRemaining, PartitionAssumption
    PROVE  PartInv'
<1> DEFINE k == Len(ratios)
           T == SumOf(ratios)
           ahead(i) == {j \in DOMAIN ratios : Ahead(j, i)}
           given == {i \in 1 .. k : Cardinality(ahead(i)) < Remaining}
<1>1. /\ Planned /\ RatiosOrdered /\ NotOver /\ NotUnder /\ PartTypeOK
      /\ partPc = "repair" /\ Remaining > 0
  BY DEF PartInv, GiveRemaining
<1>2. /\ k \in Nat \ {0} /\ DOMAIN ratios = 1 .. k /\ DOMAIN allocations = 1 .. k
      /\ T \in Nat \ {0} /\ worldSize \in Nat \ {0} /\ Remaining \in Int
  BY <1>1, PlannedFacts
<1>3. \A i \in 1 .. k : /\ ratios[i] \in Nat \ {0} /\ allocations[i] \in Nat \ {0}
                        /\ ratios[i] * worldSize \in Nat /\ allocations[i] * T \in Nat
                        /\ Short(i) = ratios[i] * worldSize - allocations[i] * T
                        /\ Short(i) \in Int
  BY <1>1, PlannedFacts
<1>4. UNCHANGED <<worldSize, ratios>> /\ partPc' = "done"
  BY DEF GiveRemaining
<1>5. /\ allocations' \in Seq(Nat \ {0}) /\ Len(allocations') = k
      /\ \A i \in 1 .. k : allocations'[i] = IF i \in given THEN allocations[i] + 1
                                             ELSE allocations[i]
  <2>1. allocations' = [i \in 1 .. k |-> IF i \in given THEN allocations[i] + 1 ELSE allocations[i]]
    BY <1>2 DEF GiveRemaining
  <2> HIDE DEF given
  <2>2. \A i \in 1 .. k : (IF i \in given THEN allocations[i] + 1 ELSE allocations[i]) \in Nat \ {0}
    BY <1>3
  <2> QED BY <2>1, <2>2, <1>2
<1>5a. \A i \in 1 .. k : allocations[i] \in Int /\ allocations'[i] \in Int
  BY <1>3, <1>5
<1>5b. \A i \in 1 .. k : i \in given => allocations'[i] = allocations[i] + 1
  <2> HIDE DEF given
  <2> QED BY <1>5
<1>5c. \A i \in 1 .. k : i \notin given => allocations'[i] = allocations[i]
  <2> HIDE DEF given
  <2> QED BY <1>5
<1>6. Planned'
  BY <1>1, <1>4, <1>5 DEF Planned
<1>7. PartTypeOK'
  <2>1. allocations' \in Seq(Nat)
    BY <1>5
  <2> QED BY <2>1, <1>1, <1>4, <1>5 DEF PartTypeOK
<1>8. \A i \in 1 .. k : /\ allocations'[i] * T \in Int
                        /\ Short(i)' = ratios[i] * worldSize - allocations'[i] * T
  <2> TAKE i \in 1 .. k
  <2>1. allocations'[i] \in Int
    BY <1>5
  <2>2. Short(i)' = ratios[i] * worldSize - allocations'[i] * T
    BY <1>4 DEF Short, Ideal
  <2> HIDE DEF T
  <2> QED BY <2>1, <2>2, <1>2
<1>9. \A i \in 1 .. k : Short(i)' = IF i \in given THEN Short(i) - T ELSE Short(i)
  <2> TAKE i \in 1 .. k
  <2>1. CASE i \in given
    <3>1. allocations'[i] * T = allocations[i] * T + T
      <4>1. allocations'[i] = allocations[i] + 1 /\ allocations[i] \in Int /\ T \in Int
        <5> HIDE DEF given
        <5> QED BY <2>1, <1>2, <1>5a, <1>5b
      <4> HIDE DEF T
      <4> QED BY <4>1, OnceMore
    <3> HIDE DEF given
    <3> QED BY <2>1, <3>1, <1>2, <1>3, <1>8
  <2>2. CASE i \notin given
    <3>1. allocations'[i] = allocations[i]
      <4> HIDE DEF given
      <4> QED BY <2>2, <1>5
    <3> HIDE DEF given
    <3> QED BY <2>2, <3>1, <1>3, <1>8
  <2> QED BY <2>1, <2>2
<1>10. NotOver'
  <2> SUFFICES ASSUME NEW i \in 1 .. k, allocations'[i] # 1 PROVE Short(i)' > -T
    BY <1>2, <1>4 DEF NotOver
  <2>1. CASE i \in given
    <3>1. Cardinality(ahead(i)) < Remaining
      BY <2>1
    <3>2. Short(i) > 0
      BY <3>1, <1>1, GivenAreShort
    <3> HIDE DEF given
    <3> QED BY <3>2, <2>1, <1>2, <1>3, <1>9
  <2>2. CASE i \notin given
    <3>1. allocations'[i] = allocations[i] /\ Short(i)' = Short(i)
      <4> HIDE DEF given
      <4> QED BY <2>2, <1>5, <1>9
    <3> QED BY <3>1, <1>1, <1>2 DEF NotOver
  <2> QED BY <2>1, <2>2
<1>11. Remaining' = 0
  <2>1. Remaining < k
    BY <1>1, FewRemain
  <2>2. given = Given
    BY <1>2 DEF Given
  <2>3. Given \subseteq 1 .. k /\ Cardinality(Given) = Remaining
    BY <1>1, <2>1, GivenAreMany
  <2>4. /\ allocations \in Seq(Int) /\ allocations' \in Seq(Int)
        /\ Len(allocations) = k /\ Len(allocations') = k
    <3>1. allocations \in Seq(Nat \ {0}) /\ Len(allocations) = k
      BY <1>1 DEF Planned
    <3> QED BY <3>1, <1>5
  <2>5. \A i \in 1 .. k : allocations'[i] = IF i \in Given THEN allocations[i] + 1 ELSE allocations[i]
    <3> HIDE DEF given
    <3> QED BY <1>5, <2>2
  <2>6. SumOf(allocations) = SumOf(allocations') - Cardinality(Given)
    <3> DEFINE u == allocations'
    <3>1. /\ allocations \in Seq(Int) /\ u \in Seq(Int)
          /\ OneMore(allocations, u, Given)
      BY <2>3, <2>4, <2>5 DEF OneMore
    <3> HIDE DEF u
    <3>2. SumOf(allocations) = SumOf(u) - Cardinality(Given)
      BY <3>1, SumMore
    <3> QED BY <3>2 DEF u
  <2>7. SumOf(allocations) \in Int /\ SumOf(allocations') \in Int
    <3> DEFINE u == allocations'
    <3>1. u \in Seq(Int) /\ Len(u) \in 0 .. Len(u)
      BY <2>4, <1>2
    <3>2. Sums(u)[Len(u)] \in Int
      <4> HIDE DEF u
      <4> QED BY <3>1, SumsAre
    <3> QED BY <3>2, <1>1, PlannedFacts DEF SumOf
  <2>8. Remaining = worldSize - SumOf(allocations) /\ Remaining' = worldSize - SumOf(allocations')
    BY <1>4 DEF Remaining
  <2> QED BY <2>3, <2>6, <2>7, <2>8, <1>2
<1>12. RatiosOrdered'
  <2> SUFFICES ASSUME NEW i \in 1 .. k, NEW j \in 1 .. k, ratios[i] > ratios[j]
               PROVE  allocations'[i] >= allocations'[j]
    BY <1>2, <1>4 DEF RatiosOrdered
  <2>1. allocations[i] >= allocations[j]
    BY <1>1, <1>2 DEF RatiosOrdered
  <2>2. CASE allocations[i] > allocations[j] \/ j \notin given
    <3>1. /\ allocations[i] \in Int /\ allocations[j] \in Int
          /\ allocations'[i] = allocations[i] + 1 \/ allocations'[i] = allocations[i]
          /\ allocations'[j] = allocations[j] + 1 \/ allocations'[j] = allocations[j]
      BY <1>5a, <1>5b, <1>5c
    <3>2. j \notin given => allocations'[j] = allocations[j]
      BY <1>5c
    <3> HIDE DEF given
    <3> QED BY <2>1, <2>2, <3>1, <3>2
  <2>3. CASE allocations[i] = allocations[j] /\ j \in given
    <3>1. Short(i) > Short(j)
      <4>1. ratios[i] * worldSize > ratios[j] * worldSize
        <5>1. worldSize \in Nat \ {0} /\ ratios[i] \in Int /\ ratios[j] \in Int
          BY <1>2, <1>3
        <5> QED BY <5>1, MoreTimes
      <4> QED BY <4>1, <2>3, <1>3
    <3>2. ahead(i) \subseteq ahead(j)
      <4> SUFFICES ASSUME NEW l \in 1 .. k, Ahead(l, i) PROVE Ahead(l, j)
        BY <1>2
      <4>1. Short(l) >= Short(i)
        BY <1>3 DEF Ahead
      <4> QED BY <4>1, <3>1, <1>3 DEF Ahead
    <3>3. Cardinality(ahead(i)) <= Cardinality(ahead(j)) /\ Cardinality(ahead(i)) \in Nat
          /\ Cardinality(ahead(j)) \in Nat
      <4>1. IsFiniteSet(ahead(j))
        <5>1. ahead(j) \subseteq 1 .. k /\ IsFiniteSet(1 .. k)
          BY <1>2, FS_Interval
        <5> HIDE DEF ahead
        <5> QED BY <5>1, FS_Subset
      <4> HIDE DEF ahead
      <4> QED BY <4>1, <3>2, FS_Subset, FS_CardinalityType
    <3>4. i \in given
      <4>1. Cardinality(ahead(j)) < Remaining
        BY <2>3
      <4>2. Cardinality(ahead(i)) < Remaining
        <5> HIDE DEF ahead
        <5> QED BY <4>1, <3>3, <1>2
      <4> QED BY <4>2
    <3>5. allocations'[i] = allocations[i] + 1 /\ allocations'[j] = allocations[j] + 1
      BY <3>4, <2>3, <1>5b
    <3> QED BY <3>5, <2>1, <1>5a
  <2>4. (allocations[i] > allocations[j] \/ j \notin given) \/ (allocations[i] = allocations[j] /\ j \in given)
    <3> HIDE DEF given
    <3> QED BY <2>1, <1>3
  <2> QED BY <2>2, <2>3, <2>4
<1>13. NotUnder'
  BY <1>11 DEF NotUnder
<1> QED BY <1>4, <1>6, <1>7, <1>10, <1>11, <1>12, <1>13 DEF PartInv

\* While ranks are missing, there is a dataset that can give up one, and a first among
\* them: max is not called with nothing.
LEMMA SomeIsTaken ==
    ASSUME Planned, PartitionAssumption, Remaining < 0
    PROVE  \E i \in Givers : \A j \in Givers : TakenRather(i, j)
<1> DEFINE k == Len(ratios)
           first(m) == {i \in Givers : i <= m}
           Bad == {m \in 0 .. k : first(m) # {} /\ ~ \E i \in first(m) : \A j \in first(m) : TakenRather(i, j)}
<1>1. /\ k \in Nat \ {0} /\ DOMAIN allocations = 1 .. k /\ Remaining \in Int
      /\ \A i \in 1 .. k : Short(i) \in Int /\ allocations[i] \in Nat \ {0}
  BY PlannedFacts
<1>2. Givers \subseteq 1 .. k
  BY <1>1 DEF Givers
<1>2a. \A i \in Givers : i \in Nat /\ 1 <= i /\ i <= k
  <2> HIDE DEF k
  <2> QED BY <1>1, <1>2 DEF k
<1>3. Givers # {}
  <2> SUFFICES ASSUME Givers = {} PROVE FALSE
    OBVIOUS
  <2>1. \A i \in 1 .. k : allocations[i] <= 1
    BY <1>1 DEF Givers
  <2> DEFINE ones == Indicator(1 .. k, k)
  <2>2. ones \in Seq(Int) /\ Len(ones) = k /\ SumOf(ones) = Cardinality(1 .. k)
    BY <1>1, SumsCount
  <2>3. Cardinality(1 .. k) = k
    BY <1>1, FS_Interval
  <2>4. \A i \in 1 .. k : ones[i] = 1
    BY DEF Indicator
  <2>5. allocations \in Seq(Int) /\ Len(allocations) = k
    <3>1. allocations \in Seq(Nat \ {0}) /\ Len(allocations) = k
      BY DEF Planned
    <3> QED BY <3>1
  <2> HIDE DEF ones
  <2>6. \A m \in 0 .. k : Sums(allocations)[m] <= Sums(ones)[m]
    <3>1. Len(allocations) = Len(ones) /\ \A i \in 1 .. Len(allocations) : allocations[i] <= ones[i]
      BY <2>1, <2>2, <2>4, <2>5
    <3> QED BY <3>1, <2>2, <2>5, SumsCompare
  <2>7. SumOf(allocations) <= k
    <3>1. k \in 0 .. k
      BY <1>1
    <3> QED BY <3>1, <2>2, <2>3, <2>5, <2>6 DEF SumOf
  <2>8. k <= worldSize /\ worldSize \in Int /\ SumOf(allocations) \in Int
    BY PlannedFacts DEF Planned
  <2> QED BY <2>7, <2>8, <1>1 DEF Remaining
<1>4. Bad = {}
  <2>1. SUFFICES ASSUME Bad # {} PROVE FALSE
    OBVIOUS
  <2>2. PICK m \in Bad : \A y \in Bad : m <= y
    <3>1. Bad \subseteq Nat
      OBVIOUS
    <3> HIDE DEF Bad
    <3> QED BY <2>1, <3>1, LeastNat
  <2>3. m \in 1 .. k
    <3>1. first(0) = {}
      BY <1>2a
    <3> QED BY <3>1, <2>2
  <2>4. m - 1 \in 0 .. k /\ m - 1 \notin Bad
    BY <2>2, <2>3
  <2>5. first(m) = IF m \in Givers THEN first(m - 1) \cup {m} ELSE first(m - 1)
    BY <2>3, <1>2a
  <2>6. \A i \in 1 .. k : TakenRather(i, i)
    BY <1>1 DEF TakenRather
  <2>7. first(m - 1) # {} => \E i \in first(m - 1) : \A j \in first(m - 1) : TakenRather(i, j)
    BY <2>4
  <2>8. first(m - 1) \subseteq 1 .. k
    BY <1>2
  <2>9. first(m) # {} /\ ~ \E i \in first(m) : \A j \in first(m) : TakenRather(i, j)
    BY <2>2
  <2> HIDE DEF first, Bad
  <2>10. m \in Givers
    BY <2>5, <2>7, <2>9
  <2>11. first(m - 1) # {}
    <3> SUFFICES ASSUME first(m - 1) = {} PROVE FALSE
      OBVIOUS
    <3>1. first(m) = {m}
      BY <2>5, <2>10
    <3> QED BY <3>1, <2>3, <2>6, <2>9
  <2>12. PICK i \in first(m - 1) : \A j \in first(m - 1) : TakenRather(i, j)
    BY <2>7, <2>11
  <2>13. CASE TakenRather(i, m)
    BY <2>13, <2>5, <2>9, <2>10, <2>12
  <2>14. CASE ~TakenRather(i, m)
    <3>1. \A j \in first(m - 1) : TakenRather(m, j)
      <4> TAKE j \in first(m - 1)
      <4>1. /\ i \in 1 .. k /\ j \in 1 .. k /\ m \in 1 .. k /\ TakenRather(i, j)
        BY <2>3, <2>8, <2>12
      <4>2. j < m
        BY <4>1, <2>3 DEF first
      <4> QED BY <4>1, <4>2, <2>14, <1>1 DEF TakenRather
    <3>2. TakenRather(m, m)
      BY <2>3, <2>6
    <3> QED BY <3>1, <3>2, <2>5, <2>9, <2>10
  <2> QED BY <2>13, <2>14
<1>5. first(k) = Givers
  BY <1>2a
<1>6. k \in 0 .. k
  BY <1>1
<1> QED BY <1>3, <1>4, <1>5, <1>6

\* Taking back a rank keeps the invariant.
LEMMA TakeBackKeepsPart ==
    ASSUME PartInv, TakeBack, PartitionAssumption
    PROVE  PartInv'
<1> DEFINE k == Len(ratios)
           T == SumOf(ratios)
<1>1. /\ Planned /\ RatiosOrdered /\ NotOver /\ NotUnder /\ PartTypeOK
      /\ partPc = "repair" /\ Remaining < 0
  BY DEF PartInv, TakeBack
<1>2. /\ k \in Nat \ {0} /\ DOMAIN ratios = 1 .. k /\ DOMAIN allocations = 1 .. k
      /\ T \in Nat \ {0} /\ worldSize \in Nat \ {0} /\ Remaining \in Int
      /\ SumOf(allocations) \in Nat
  BY <1>1, PlannedFacts
<1>3. \A i \in 1 .. k : /\ ratios[i] \in Nat \ {0} /\ allocations[i] \in Nat \ {0}
                        /\ ratios[i] * worldSize \in Nat /\ allocations[i] * T \in Nat
                        /\ Short(i) = ratios[i] * worldSize - allocations[i] * T
                        /\ Short(i) \in Int
  BY <1>1, PlannedFacts
<1>4. UNCHANGED <<worldSize, ratios, partPc>>
  BY DEF TakeBack
<1>5. PICK b \in Givers : /\ \A j \in Givers : TakenRather(b, j)
                          /\ allocations' = [allocations EXCEPT ![b] = @ - 1]
  <2>1. \E i \in Givers : \A j \in Givers : TakenRather(i, j)
    BY <1>1, SomeIsTaken
  <2> QED BY <2>1 DEF TakeBack
<1>6. b \in 1 .. k /\ allocations[b] > 1
  BY <1>2, <1>5 DEF Givers
<1>7. allocations \in Seq(Nat \ {0}) /\ Len(allocations) = k
  BY <1>1 DEF Planned
<1>8. \A i \in 1 .. k : allocations'[i] = IF i = b THEN allocations[i] - 1 ELSE allocations[i]
  BY <1>2, <1>5, <1>6
<1>9. allocations' \in Seq(Nat \ {0}) /\ Len(allocations') = k
  <2>1. allocations[b] - 1 \in Nat \ {0}
    BY <1>3, <1>6
  <2> QED BY <2>1, <1>5, <1>6, <1>7
<1>10. Planned'
  BY <1>1, <1>4, <1>9 DEF Planned
<1>11. PartTypeOK'
  <2>1. allocations' \in Seq(Nat)
    BY <1>9
  <2> QED BY <2>1, <1>1, <1>4, <1>9 DEF PartTypeOK
<1>12. \A i \in 1 .. k : Short(i)' = ratios[i] * worldSize - allocations'[i] * T
  BY <1>4 DEF Short, Ideal
<1>13. \A i \in 1 .. k : Short(i)' = IF i = b THEN Short(i) + T ELSE Short(i)
  <2> TAKE i \in 1 .. k
  <2>1. CASE i = b
    <3>1. allocations'[i] = allocations[i] - 1 /\ allocations[i] \in Int /\ T \in Int
      BY <2>1, <1>2, <1>3, <1>8
    <3>2. allocations'[i] * T = allocations[i] * T - T
      <4> HIDE DEF T
      <4> QED BY <3>1, OnceMore
    <3> QED BY <2>1, <3>2, <1>2, <1>3, <1>12
  <2>2. CASE i # b
    BY <2>2, <1>3, <1>8, <1>12
  <2> QED BY <2>1, <2>2
<1>14. NotOver'
  <2> SUFFICES ASSUME NEW i \in 1 .. k, allocations'[i] # 1 PROVE Short(i)' > -T
    BY <1>2, <1>4 DEF NotOver
  <2>1. allocations[i] # 1
    BY <1>6, <1>8
  <2>2. Short(i) > -T
    BY <2>1, <1>1, <1>2 DEF NotOver
  <2>3. /\ Short(i) \in Int /\ T \in Nat \ {0}
        /\ Short(i)' = Short(i) + T \/ Short(i)' = Short(i)
    BY <1>2, <1>3, <1>13
  <2> HIDE DEF T
  <2> QED BY <2>2, <2>3
<1>15. NotUnder'
  <2>1. SumOf(allocations') = SumOf(allocations) - 1
    <3> DEFINE u == allocations'
    <3>1. allocations \in Seq(Int) /\ u \in Seq(Int) /\ Len(u) = k
      BY <1>7, <1>9
    <3>3. \A n \in 1 .. k : allocations[n] = IF n \in {b} THEN u[n] + 1 ELSE u[n]
      <4> TAKE n \in 1 .. k
      <4>1. allocations[n] \in Int /\ u[n] = IF n = b THEN allocations[n] - 1 ELSE allocations[n]
        BY <1>3, <1>8
      <4> QED BY <4>1
    <3>4. OneMore(u, allocations, {b})
      BY <3>1, <3>3, <1>6, <1>7 DEF OneMore
    <3> HIDE DEF u
    <3>2. SumOf(u) = SumOf(allocations) - Cardinality({b})
      BY <3>1, <3>4, SumMore
    <3> QED BY <3>2, FS_Singleton DEF u
  <2>2. Remaining' = Remaining + 1
    BY <2>1, <1>2, <1>4 DEF Remaining
  <2> QED BY <2>2, <1>1, <1>2 DEF NotUnder
<1>16. RatiosOrdered'
  <2> SUFFICES ASSUME NEW i \in 1 .. k, NEW j \in 1 .. k, ratios[i] > ratios[j]
               PROVE  allocations'[i] >= allocations'[j]
    BY <1>2, <1>4 DEF RatiosOrdered
  <2>1. allocations[i] >= allocations[j]
    BY <1>1, <1>2 DEF RatiosOrdered
  <2>a. i # j
    <3>1. ratios[i] \in Int /\ ratios[j] \in Int
      BY <1>3
    <3> QED BY <3>1
  <2>b. /\ allocations[i] \in Int /\ allocations[j] \in Int
        /\ i # b => allocations'[i] = allocations[i]
        /\ i = b => allocations'[i] = allocations[i] - 1
        /\ allocations'[j] = allocations[j] \/ allocations'[j] = allocations[j] - 1
        /\ j # b => allocations'[j] = allocations[j]
    BY <1>3, <1>8
  <2>2. CASE i # b
    BY <2>1, <2>2, <2>b
  <2>3. CASE i = b /\ allocations[i] > allocations[j]
    BY <2>a, <2>b, <2>3
  <2>4. CASE i = b /\ allocations[i] = allocations[j]
    <3>1. j \in Givers
      BY <2>4, <1>2, <1>6 DEF Givers
    <3>2. Short(i) <= Short(j)
      <4>1. TakenRather(i, j)
        BY <2>4, <3>1, <1>5
      <4> QED BY <4>1, <1>3 DEF TakenRather
    <3>3. Short(i) > Short(j)
      <4>1. ratios[i] * worldSize > ratios[j] * worldSize
        <5>1. worldSize \in Nat \ {0} /\ ratios[i] \in Int /\ ratios[j] \in Int
          BY <1>2, <1>3
        <5> QED BY <5>1, MoreTimes
      <4> QED BY <4>1, <2>4, <1>3
    <3> QED BY <3>2, <3>3, <1>3
  <2> QED BY <2>1, <2>2, <2>3, <2>4, <2>b
<1> QED BY <1>1, <1>4, <1>10, <1>11, <1>14, <1>15, <1>16 DEF PartInv

\* The repair of the rounded allocations keeps them near the shares and in the order of
\* the ratios, whichever way it goes and however often it takes a rank back.
THEOREM PartInvariance == PartSpec => []PartInv
<1>1. ASSUME PartInit PROVE PartInv
  BY <1>1 DEF PartInit, PartInv, PartTypeOK
<1>2. ASSUME PartInv, [PartNext]_partVars PROVE PartInv'
  <2> USE PartitionAssumption
  <2>1. CASE Construct
    BY <1>2, <2>1, ConstructKeepsPart
  <2>2. CASE GiveRemaining
    BY <1>2, <2>2, GiveRemainingKeepsPart
  <2>3. CASE TakeBack
    BY <1>2, <2>3, TakeBackKeepsPart
  <2>4. CASE Allocated
    BY <1>2, <2>4 DEF Allocated, PartInv, PartTypeOK, Planned, RatiosOrdered, NotOver, NotUnder, Remaining,
       Short, Ideal
  <2>5. CASE PartDone \/ UNCHANGED partVars
    BY <1>2, <2>5 DEF PartDone, partVars, PartInv, PartTypeOK, Planned, RatiosOrdered, NotOver, NotUnder,
       Remaining, Short, Ideal
  <2> QED BY <1>2, <2>1, <2>2, <2>3, <2>4, <2>5 DEF PartNext
<1> QED BY <1>1, <1>2, PTL DEF PartSpec

\* The allocations that the constructor ends with are fair.
THEOREM SharesAlwaysFair == PartSpec => []SharesFair
<1>1. ASSUME PartInv, PartitionAssumption PROVE SharesFair
  <2> SUFFICES ASSUME partPc = "done", NEW i \in DOMAIN ratios, NEW j \in DOMAIN ratios
               PROVE  /\ ratios[i] >= ratios[j] + 1 => allocations[i] >= allocations[j]
                      /\ allocations[i] = 1 \/ Short(i) > -SumOf(ratios)
    BY DEF SharesFair
  <2>1. Planned /\ RatiosOrdered /\ NotOver
    BY <1>1 DEF PartInv
  <2>2. ratios[i] \in Int /\ ratios[j] \in Int
    BY <2>1, <1>1, PlannedFacts
  <2> QED BY <2>1, <2>2 DEF RatiosOrdered, NotOver
<1> QED BY <1>1, PartInvariance, PartitionAssumption, PTL

\* The first rank behind those of dataset i.
Ends(i) == Sums(allocations)[i]

\* The ranges of the datasets follow each other, from 0 to the world size.
LEMMA EndsFacts ==
    ASSUME Planned, PartitionAssumption, Remaining = 0
    PROVE  /\ Ends(0) = 0 /\ Ends(Len(ratios)) = worldSize
           /\ \A i \in 0 .. Len(ratios) : Ends(i) \in Int
           /\ \A i \in 1 .. Len(ratios) : /\ Cumulative(i) = Ends(i - 1)
                                          /\ Ends(i) = Ends(i - 1) + allocations[i]
           /\ \A i, j \in 0 .. Len(ratios) : i < j => Ends(i) < Ends(j)
<1> DEFINE k == Len(ratios)
<1>1. allocations \in Seq(Int) /\ Len(allocations) = k /\ k \in Nat \ {0}
  <2>1. allocations \in Seq(Nat \ {0}) /\ Len(allocations) = k
    BY DEF Planned
  <2> QED BY <2>1, PlannedFacts
<1>2. \A i \in 1 .. k : allocations[i] >= 1 /\ allocations[i] \in Int
  BY PlannedFacts
<1>3. /\ Ends(0) = 0 /\ \A i \in 0 .. k : Ends(i) \in Int
      /\ \A i \in 1 .. k : Ends(i) = Ends(i - 1) + allocations[i]
  BY <1>1, SumsAre DEF Ends
<1>4. Ends(k) = worldSize
  <2>1. worldSize \in Int /\ SumOf(allocations) \in Int
    BY PlannedFacts
  <2> QED BY <2>1, <1>1 DEF Remaining, Ends, SumOf
<1>5. ASSUME NEW i \in 0 .. k, NEW j \in 0 .. k, i < j PROVE Ends(i) < Ends(j)
  <2>1. Ends(i) + (j - i) <= Ends(j)
    BY <1>1, <1>2, <1>5, SumsGrow DEF Ends
  <2> QED BY <2>1, <1>3, <1>5
<1> QED BY <1>3, <1>4, <1>5 DEF Cumulative, Ends

\* A rank finds the dataset whose range it is in.
LEMMA MyDatasetIs ==
    ASSUME Planned, PartitionAssumption, Remaining = 0, NEW r \in 0 .. worldSize - 1
    PROVE  \A i \in 1 .. Len(ratios) : MyDataset(r) = i <=> Ends(i - 1) <= r /\ r < Ends(i)
<1> DEFINE k == Len(ratios)
           Mine(i) == /\ r < Cumulative(i) + allocations[i]
                      /\ \A j \in 1 .. i - 1 : r >= Cumulative(j) + allocations[j]
           After == {i \in 1 .. k : r < Ends(i)}
<1>1. /\ k \in Nat \ {0} /\ worldSize \in Int /\ r \in Int /\ 0 <= r /\ r < worldSize
      /\ DOMAIN allocations = 1 .. k
  BY PlannedFacts
<1>2. /\ Ends(0) = 0 /\ Ends(k) = worldSize
      /\ \A i \in 0 .. k : Ends(i) \in Int
      /\ \A i \in 1 .. k : Cumulative(i) + allocations[i] = Ends(i)
      /\ \A i, j \in 0 .. k : i < j => Ends(i) < Ends(j)
  BY EndsFacts
<1>3. \A i \in 1 .. k : Mine(i) <=> r < Ends(i) /\ \A j \in 1 .. i - 1 : r >= Ends(j)
  BY <1>2
<1>4. \A i \in 1 .. k : Mine(i) <=> Ends(i - 1) <= r /\ r < Ends(i)
  <2> TAKE i \in 1 .. k
  <2>1. i - 1 \in 0 .. k /\ Ends(i - 1) \in Int
    BY <1>2
  <2>2. CASE i = 1
    BY <2>2, <1>1, <1>2, <1>3
  <2>3. ASSUME i # 1, \A j \in 1 .. i - 1 : r >= Ends(j) PROVE Ends(i - 1) <= r
    BY <2>1, <2>3, <1>1
  <2>4. ASSUME Ends(i - 1) <= r, NEW j \in 1 .. i - 1 PROVE r >= Ends(j)
    <3>1. j = i - 1 \/ (j < i - 1 /\ j \in 0 .. k)
      BY <1>1
    <3>2. Ends(j) \in Int /\ (j = i - 1 \/ Ends(j) < Ends(i - 1))
      BY <3>1, <2>1, <1>2
    <3> QED BY <3>2, <2>1, <2>4, <1>1
  <2> QED BY <2>2, <2>3, <2>4, <1>3
<1>5. \E i \in 1 .. k : Mine(i)
  <2>1. After # {}
    <3>1. k \in 1 .. k /\ r < Ends(k)
      BY <1>1, <1>2
    <3> QED BY <3>1
  <2>2. PICK i \in After : \A y \in After : i <= y
    <3>1. After \subseteq Nat
      OBVIOUS
    <3> HIDE DEF After
    <3> QED BY <2>1, <3>1, LeastNat
  <2>3. ASSUME NEW j \in 1 .. i - 1 PROVE r >= Ends(j)
    <3>1. j \in 1 .. k /\ j \notin After
      BY <2>2, <1>1
    <3>2. Ends(j) \in Int
      BY <3>1, <1>2
    <3> QED BY <3>1, <3>2, <1>1
  <2>4. Mine(i)
    BY <2>2, <2>3, <1>3
  <2> QED BY <2>4
<1>6. ASSUME NEW i \in 1 .. k, NEW j \in 1 .. k, Mine(i), Mine(j) PROVE i = j
  <2>1. ASSUME NEW a \in 1 .. k, NEW b \in 1 .. k, Mine(a), Mine(b), a < b PROVE FALSE
    <3>1. a \in 1 .. b - 1 /\ a \in 0 .. k
      BY <2>1
    <3>2. r < Ends(a) /\ r >= Ends(a) /\ Ends(a) \in Int
      BY <3>1, <2>1, <1>2, <1>3
    <3> QED BY <3>2, <1>1
  <2> HIDE DEF Mine
  <2> QED BY <2>1, <1>6, <1>1
<1>7. MyDataset(r) = CHOOSE i \in 1 .. k : Mine(i)
  BY <1>1 DEF MyDataset
<1> HIDE DEF Mine
<1>8. MyDataset(r) \in 1 .. k /\ Mine(MyDataset(r))
  BY <1>5, <1>7
<1> QED BY <1>4, <1>6, <1>8

\* When the constructor ends, each shard of each dataset is read by one rank.
THEOREM EveryShardIsRead == PartSpec => []ShardsCovered
<1>1. ASSUME PartInv, PartitionAssumption PROVE ShardsCovered
  <2> DEFINE k == Len(ratios)
             readers(i) == {r \in 0 .. worldSize - 1 : MyDataset(r) = i}
  <2> SUFFICES ASSUME partPc = "done", NEW i \in 1 .. k
               PROVE  /\ readers(i) # {}
                      /\ Cardinality(readers(i)) = allocations[i]
                      /\ {ShardRank(r) : r \in readers(i)} = 0 .. allocations[i] - 1
    <3>1. partPc = "done" => DOMAIN ratios = 1 .. k
      BY <1>1, PlannedFacts DEF PartInv
    <3> QED BY <3>1 DEF ShardsCovered
  <2>1. Planned /\ Remaining = 0
    BY <1>1 DEF PartInv
  <2>2. /\ k \in Nat \ {0} /\ worldSize \in Int /\ allocations[i] \in Nat \ {0}
        /\ Ends(i - 1) \in Int /\ Ends(i) \in Int /\ Ends(i) = Ends(i - 1) + allocations[i]
        /\ Cumulative(i) = Ends(i - 1)
    <3>1. i - 1 \in 0 .. k /\ i \in 0 .. k
      BY PlannedFacts, <2>1, <1>1
    <3> QED BY <3>1, <2>1, <1>1, PlannedFacts, EndsFacts
  <2>3. 0 <= Ends(i - 1) /\ Ends(i) <= worldSize
    <3>1. /\ Ends(0) = 0 /\ Ends(k) = worldSize
          /\ \A a, b \in 0 .. k : a < b => Ends(a) < Ends(b)
      BY <2>1, <1>1, EndsFacts
    <3>2. i - 1 = 0 \/ Ends(0) < Ends(i - 1)
      BY <3>1, <2>2
    <3>3. i = k \/ Ends(i) < Ends(k)
      BY <3>1, <2>2
    <3> QED BY <3>1, <3>2, <3>3, <2>2
  <2>4. readers(i) = Ends(i - 1) .. Ends(i) - 1
    <3>1. \A r \in 0 .. worldSize - 1 : MyDataset(r) = i <=> Ends(i - 1) <= r /\ r < Ends(i)
      BY <2>1, <1>1, MyDatasetIs
    <3> QED BY <3>1, <2>2, <2>3
  <2>5. \A r \in readers(i) : ShardRank(r) = r - Ends(i - 1)
    BY <2>2 DEF ShardRank
  <2> HIDE DEF readers
  <2>6. readers(i) # {}
    <3>1. Ends(i - 1) \in Ends(i - 1) .. Ends(i) - 1
      BY <2>2
    <3> QED BY <3>1, <2>4
  <2>7. Cardinality(readers(i)) = allocations[i]
    <3> DEFINE a == Ends(i - 1)
               b == Ends(i) - 1
    <3>1. a \in Int /\ b \in Int /\ a <= b /\ (b - a) + 1 = allocations[i]
      BY <2>2
    <3>2. readers(i) = a .. b
      BY <2>4
    <3> HIDE DEF a, b
    <3>3. Cardinality(a .. b) = (b - a) + 1
      BY <3>1, FS_Interval
    <3> QED BY <3>1, <3>2, <3>3
  <2>8. {ShardRank(r) : r \in readers(i)} = 0 .. allocations[i] - 1
    <3>1. {ShardRank(r) : r \in readers(i)} = {r - Ends(i - 1) : r \in readers(i)}
      BY <2>5
    <3>2. ASSUME NEW x \in 0 .. allocations[i] - 1
          PROVE  \E r \in readers(i) : x = r - Ends(i - 1)
      <4>1. x + Ends(i - 1) \in readers(i) /\ x = (x + Ends(i - 1)) - Ends(i - 1)
        BY <2>2, <2>4
      <4> QED BY <4>1
    <3>3. \A r \in readers(i) : r - Ends(i - 1) \in 0 .. allocations[i] - 1
      BY <2>2, <2>4
    <3> QED BY <3>1, <3>2, <3>3
  <2> QED BY <2>6, <2>7, <2>8
<1> QED BY <1>1, PartInvariance, PartitionAssumption, PTL

(***************************************************************************)
(* The replicas stay together                                              *)
(***************************************************************************)

\* The types of what the ranks do.
RankTypeOK ==
    /\ costs \in Seq(Costs)
    /\ stage \in [World -> Stages]
    /\ round \in [World -> Nat]
    /\ pass \in [World -> 0 .. Warmup]
    /\ raised \in [World -> BOOLEAN]
    /\ globalMax \in Nat

\* The next collective of the world that a rank enters, and the pass it is then in.
NextCollective(r) ==
    IF stage[r] = "create" THEN "create"
    ELSE IF stage[r] \in {"plan", "count"} THEN "count"
    ELSE IF stage[r] \in {"saving", "outputs"} \/ (stage[r] = "generate" /\ ~InWarmup(r))
         THEN "outputs"
    ELSE "inputs"
NextPass(r) == IF stage[r] = "generate" /\ InWarmup(r) THEN pass[r] + 1 ELSE pass[r]

\* What a stage says of the counters of the rank.
Position(r) ==
    /\ stage[r] \in {"create", "plan", "count"} => round[r] = 0
    /\ stage[r] \in {"create", "plan", "count", "next", "done"} => pass[r] = 0
    /\ stage[r] \in {"ready", "inputs", "generate", "saving", "outputs"} => round[r] < globalMax
    /\ stage[r] \in {"saving", "outputs"} => ~InWarmup(r)
    /\ stage[r] = "done" => ~(round[r] < globalMax)

\* Two ranks that have not failed are heading for the same collective of the world.
Together(r, q) ==
    stage[r] # "failed" /\ stage[q] # "failed" =>
        /\ NextCollective(r) = NextCollective(q)
        /\ round[r] = round[q]
        /\ NextPass(r) = NextPass(q)

\* The inductive form of CollectivesMeet: it speaks of every rank that has not failed,
\* whatever it does until it enters the next collective of the world.
RInv ==
    /\ RankTypeOK
    /\ \A r \in World : Position(r)
    /\ \A r, q \in World : Together(r, q)

\* A step of one rank that leaves its counters alone and does not change what
\* collective it is heading for.
LEMMA LocalStep ==
    ASSUME RInv, NEW r \in World, NEW s \in Stages, Goto(r, s),
           UNCHANGED <<costs, round, pass, globalMax>>,
           raised' \in [World -> BOOLEAN],
           s # "failed" => /\ stage[r] # "failed"
                           /\ NextCollective(r)' = NextCollective(r)
                           /\ NextPass(r)' = NextPass(r)
                           /\ Position(r)'
    PROVE  RInv'
<1>1. RankTypeOK' BY DEF RInv, RankTypeOK, Goto
<1>2. /\ stage'[r] = s
      /\ \A q \in World \ {r} : stage'[q] = stage[q]
    BY DEF RInv, RankTypeOK, Goto
<1>3. ASSUME NEW q \in World \ {r}
      PROVE  /\ NextCollective(q)' = NextCollective(q) /\ NextPass(q)' = NextPass(q)
             /\ Position(q)' = Position(q)
    BY <1>2 DEF NextCollective, NextPass, Position, InWarmup
<1>4. \A q \in World : Position(q)'
    <2>1. Position(r)'
        <3>1. CASE s # "failed" BY <3>1
        <3>2. CASE s = "failed" BY <3>2, <1>2 DEF Position
        <3> QED BY <3>1, <3>2
    <2> QED BY <2>1, <1>3 DEF RInv
<1>5. ASSUME NEW p \in World, NEW q \in World PROVE Together(p, q)'
    <2>1. Together(p, q) BY DEF RInv
    <2>2. ASSUME NEW x \in World, stage'[x] # "failed"
          PROVE  /\ stage[x] # "failed" /\ round'[x] = round[x]
                 /\ NextCollective(x)' = NextCollective(x) /\ NextPass(x)' = NextPass(x)
        BY <1>2, <1>3, <2>2
    <2> QED BY <2>1, <2>2 DEF Together
<1> QED BY <1>1, <1>4, <1>5 DEF RInv
-----------------------------------------------------------------------------
\* The ranks start together.
LEMMA InitRInv == ReplicaInit => RInv
<1> SUFFICES ASSUME ReplicaInit PROVE RInv
  OBVIOUS
<1>1. costs \in Seq(Costs)
  <2>1. PICK n \in 1 .. MaxSamples : costs \in [1 .. n -> Costs]
    BY DEF ReplicaInit
  <2> QED BY <2>1, ReplicaAssumption
<1>2. RankTypeOK
  BY <1>1, ReplicaAssumption DEF ReplicaInit, RankTypeOK, Stages, WorldStages
<1> QED
  BY <1>2 DEF ReplicaInit, RInv, Position, Together, NextCollective, NextPass

\* The steps of one rank.
LEMMA RankSteps ==
    ASSUME RInv, NEW r \in World,
           Plan(r) \/ Take(r) \/ NoMoreBatches(r) \/ Raises(r) \/ ProcessInputs(r) \/ SaveOutputs(r)
    PROVE  RInv'
<1> USE DEF RInv, RankTypeOK, Stages, WorldStages
<1>0. Position(r) /\ stage[r] \in Stages /\ pass[r] \in 0 .. Warmup /\ round[r] \in Nat
  OBVIOUS
<1>a. ASSUME NEW s \in Stages, Goto(r, s) PROVE stage'[r] = s
  BY <1>a DEF Goto
<1> HIDE DEF RInv, RankTypeOK, Stages
<1> DEFINE Heading ==
      /\ NextCollective(r)' = NextCollective(r)
      /\ NextPass(r)' = NextPass(r)
      /\ Position(r)'
<1>1. CASE Plan(r)
  <2>1. Goto(r, "count") /\ "count" \in Stages /\ stage'[r] = "count"
    BY <1>1, <1>a DEF Plan, Stages, WorldStages
  <2>2. Heading
    BY <1>1, <2>1, <1>0 DEF Plan, NextCollective, NextPass, Position, InWarmup
  <2> QED BY <1>1, <2>1, <2>2, LocalStep DEF Plan, RInv, RankTypeOK
<1>2. CASE Take(r)
  <2>1. Goto(r, "ready") /\ "ready" \in Stages /\ stage'[r] = "ready"
    BY <1>2, <1>a DEF Take, Stages
  <2>2. Heading
    BY <1>2, <2>1, <1>0 DEF Take, More, NextCollective, NextPass, Position, InWarmup
  <2> QED BY <1>2, <2>1, <2>2, LocalStep DEF Take, RInv, RankTypeOK
<1>3. CASE NoMoreBatches(r)
  <2>1. Goto(r, "done") /\ "done" \in Stages /\ stage'[r] = "done"
    BY <1>3, <1>a DEF NoMoreBatches, Stages
  <2>2. Heading
    BY <1>3, <2>1, <1>0 DEF NoMoreBatches, More, NextCollective, NextPass, Position, InWarmup
  <2> QED BY <1>3, <2>1, <2>2, LocalStep DEF NoMoreBatches, RInv, RankTypeOK
<1>4. CASE Raises(r)
  <2>1. Goto(r, "failed") /\ "failed" \in Stages
    BY <1>4 DEF Raises, Stages
  <2> QED BY <1>4, <2>1, LocalStep DEF Raises, RInv, RankTypeOK
<1>5. CASE ProcessInputs(r)
  <2>1. Goto(r, "inputs") /\ "inputs" \in Stages /\ stage'[r] = "inputs"
    BY <1>5, <1>a DEF ProcessInputs, Stages, WorldStages
  <2>2. Heading
    BY <1>5, <2>1, <1>0 DEF ProcessInputs, NextCollective, NextPass, Position, InWarmup
  <2>3. raised' \in [World -> BOOLEAN]
    BY <1>5 DEF ProcessInputs, Flag, RInv, RankTypeOK
  <2> QED BY <1>5, <2>1, <2>2, <2>3, LocalStep DEF ProcessInputs
<1>6. CASE SaveOutputs(r)
  <2>1. Goto(r, "outputs") /\ "outputs" \in Stages /\ stage'[r] = "outputs"
    BY <1>6, <1>a DEF SaveOutputs, Stages, WorldStages
  <2>2. Heading
    BY <1>6, <2>1, <1>0 DEF SaveOutputs, NextCollective, NextPass, Position, InWarmup
  <2>3. raised' \in [World -> BOOLEAN]
    BY <1>6 DEF SaveOutputs, Flag, RInv, RankTypeOK
  <2> QED BY <1>6, <2>1, <2>2, <2>3, LocalStep DEF SaveOutputs
<1> QED BY <1>1, <1>2, <1>3, <1>4, <1>5, <1>6

\* All ranks leave a collective of the world in which they were together.
LEMMA AllReturn ==
    ASSUME RInv, NEW c \in {"inputs", "outputs"}, AllAt(World, c),
           NEW others, Return(World, others), UNCHANGED <<costs, globalMax>>
    PROVE  RInv'
<1>1. ASSUME NEW r \in World
      PROVE  /\ round[r] \in Nat /\ pass[r] \in 0 .. Warmup
             /\ round[r] < globalMax /\ globalMax \in Nat
             /\ c = "outputs" => ~InWarmup(r)
  BY DEF RInv, RankTypeOK, AllAt, Position
<1>2. ASSUME NEW r \in World, NEW q \in World
      PROVE  round[r] = round[q] /\ pass[r] = pass[q]
  BY DEF RInv, AllAt, Together, NextPass
<1>3. RankTypeOK'
  <2>1. stage' \in [World -> Stages]
    BY DEF Return, Stages
  <2>2. round' \in [World -> Nat]
    BY <1>1 DEF Return
  <2>3. pass' \in [World -> 0 .. Warmup]
    BY <1>1, ReplicaAssumption DEF Return, InWarmup
  <2> QED BY <2>1, <2>2, <2>3 DEF Return, RInv, RankTypeOK
<1>4. ASSUME NEW r \in World
      PROVE  \/ stage'[r] = "failed"
             \/ InWarmup(r) /\ stage'[r] = "ready" /\ round'[r] = round[r] /\ pass'[r] = pass[r] + 1
             \/ ~InWarmup(r) /\ stage'[r] = "next" /\ round'[r] = round[r] + 1 /\ pass'[r] = 0
  BY DEF Return
<1>5. ASSUME NEW r \in World PROVE Position(r)'
  BY <1>1, <1>4 DEF Position
<1>6. ASSUME NEW r \in World, NEW q \in World PROVE Together(r, q)'
  BY <1>2, <1>4 DEF Together, NextCollective, NextPass, InWarmup
<1> QED BY <1>3, <1>5, <1>6 DEF RInv

\* The ranks of a replica leave a collective of theirs.
LEMMA ReplicaSteps ==
    ASSUME RInv, NEW rep \in Replicas, WarmedUp(rep) \/ Generated(rep)
    PROVE  RInv'
<1>1. ASSUME NEW r \in World
      PROVE  /\ round[r] \in Nat /\ pass[r] \in 0 .. Warmup /\ globalMax \in Nat
             /\ Position(r)
  BY DEF RInv, RankTypeOK
<1>2. RankTypeOK'
  <2>1. CASE WarmedUp(rep)
    <3>1. stage' \in [World -> Stages]
      BY <2>1 DEF WarmedUp, Return, Stages, RInv, RankTypeOK
    <3>2. round' \in [World -> Nat]
      BY <2>1, <1>1 DEF WarmedUp, Return
    <3>3. pass' \in [World -> 0 .. Warmup]
      BY <2>1, <1>1, ReplicaAssumption DEF WarmedUp, Return, InWarmup
    <3>4. raised' \in [World -> BOOLEAN]
      BY <2>1 DEF WarmedUp, Return, RInv, RankTypeOK
    <3> QED BY <2>1, <3>1, <3>2, <3>3, <3>4 DEF WarmedUp, RInv, RankTypeOK
  <2>2. CASE Generated(rep)
    BY <2>2 DEF Generated, Stages, RInv, RankTypeOK
  <2> QED BY <2>1, <2>2
<1>3. ASSUME NEW r \in World
      PROVE  \/ UNCHANGED <<stage[r], round[r], pass[r]>>
             \/ /\ stage[r] = "generate" /\ InWarmup(r)
                /\ stage'[r] = "ready" /\ round'[r] = round[r] /\ pass'[r] = pass[r] + 1
             \/ /\ stage[r] = "generate" /\ ~InWarmup(r)
                /\ stage'[r] = "saving" /\ round'[r] = round[r] /\ pass'[r] = pass[r]
  <2>1. CASE WarmedUp(rep)
    <3>1. CASE r \in Team(rep)
      BY <2>1, <3>1 DEF WarmedUp, Return, AllAt, Aborts, ProfileFails
    <3>2. CASE r \notin Team(rep)
      <4>1. stage'[r] = stage[r] /\ round'[r] = round[r] /\ pass'[r] = pass[r]
        BY <2>1, <3>2 DEF WarmedUp, Return
      <4> QED BY <4>1
    <3> QED BY <3>1, <3>2
  <2>2. CASE Generated(rep)
    BY <2>2 DEF Generated, AllAt
  <2> QED BY <2>1, <2>2
<1>4. globalMax' = globalMax
  BY DEF WarmedUp, Generated
<1>5. ASSUME NEW r \in World
      PROVE  /\ Position(r)'
             /\ stage'[r] = "failed" <=> stage[r] = "failed"
             /\ NextCollective(r)' = NextCollective(r)
             /\ round'[r] = round[r]
             /\ NextPass(r)' = NextPass(r)
  BY <1>1, <1>3, <1>4 DEF Position, NextCollective, NextPass, InWarmup
<1>6. ASSUME NEW r \in World, NEW q \in World PROVE Together(r, q)'
  <2>1. Together(r, q) BY DEF RInv
  <2> QED BY <2>1, <1>5 DEF Together
<1> QED BY <1>2, <1>5, <1>6 DEF RInv

\* No step takes the ranks apart.
LEMMA NextRInv == RInv /\ [ReplicaNext]_replicaVars => RInv'
<1> SUFFICES ASSUME RInv, [ReplicaNext]_replicaVars PROVE RInv'
  OBVIOUS
<1> USE DEF AllAt
<1>1. ASSUME UNCHANGED replicaVars PROVE RInv'
  BY <1>1 DEF replicaVars, rankVars, RInv, RankTypeOK, Position, Together,
              NextCollective, NextPass, InWarmup
<1>2. ASSUME Created PROVE RInv'
  <2>1. RankTypeOK'
    BY <1>2 DEF Created, RInv, RankTypeOK, Stages
  <2>2. \A r \in World : stage[r] = "create" /\ stage'[r] = "plan"
    BY <1>2 DEF Created
  <2> QED
    BY <1>2, <2>1, <2>2 DEF Created, RInv, Position, Together, NextCollective, NextPass
<1>3. ASSUME Counted PROVE RInv'
  <2>1. RankTypeOK'
    BY <1>3 DEF Counted, RInv, RankTypeOK, Stages
  <2>2. \A r \in World : stage[r] = "count" /\ stage'[r] = "next"
    BY <1>3 DEF Counted
  <2> QED
    BY <1>3, <2>1, <2>2 DEF Counted, RInv, Position, Together, NextCollective, NextPass
<1>4. ASSUME InputsMet PROVE RInv'
  <2> DEFINE bad == {r \in World : SomeError(r)}
  <2>1. CASE \E q \in World : raised[q]
    <3>1. bad = World
      BY <2>1 DEF SomeError
    <3> QED BY <1>4, <3>1, AllReturn DEF InputsMet
  <2>2. CASE ~ \E q \in World : raised[q]
    <3>1. bad = {}
      BY <2>2 DEF SomeError
    <3>2. Return({}, [r \in World |-> "generate"]) /\ globalMax' = globalMax /\ costs' = costs
      BY <1>4, <3>1 DEF InputsMet
    <3>3. /\ stage' = [r \in World |-> "generate"]
          /\ round' = round /\ pass' = pass
          /\ \A r \in World : stage[r] = "inputs"
      BY <1>4, <3>2 DEF InputsMet, Return, RInv, RankTypeOK
    <3>4. RankTypeOK'
      BY <3>2, <3>3 DEF Return, RInv, RankTypeOK, Stages
    <3>5. \A r \in World : Position(r)'
      BY <3>2, <3>3 DEF RInv, Position
    <3>6. ASSUME NEW r \in World, NEW q \in World PROVE Together(r, q)'
      <4>1. round[r] = round[q] /\ pass[r] = pass[q]
        BY <3>3 DEF RInv, Together, NextPass
      <4> QED BY <4>1, <3>3 DEF Together, NextCollective, NextPass, InWarmup
    <3> QED BY <3>4, <3>5, <3>6 DEF RInv
  <2> QED BY <2>1, <2>2
<1>5. ASSUME OutputsMet PROVE RInv'
  BY <1>5, AllReturn DEF OutputsMet, Saved
<1>6. ASSUME Stopped PROVE RInv'
  BY <1>6, <1>1 DEF Stopped
<1> QED
  BY <1>1, <1>2, <1>3, <1>4, <1>5, <1>6, RankSteps, ReplicaSteps DEF ReplicaNext
-----------------------------------------------------------------------------
\* What RInv says of the ranks that wait.
LEMMA RInvMeets == RInv => CollectivesMeet
<1> SUFFICES ASSUME RInv, NEW r \in World, NEW q \in World
             PROVE  /\ stage[r] \in WorldStages /\ stage[q] \in WorldStages =>
                         <<stage[r], round[r], pass[r]>> = <<stage[q], round[q], pass[q]>>
                    /\ stage[r] \in WorldStages \cup {"generate"} => stage[q] # "done"
  BY DEF CollectivesMeet
<1>1. Position(r) /\ Position(q) /\ Together(r, q)
  BY DEF RInv
<1>2. round[r] \in Nat /\ round[q] \in Nat /\ globalMax \in Nat
  BY DEF RInv, RankTypeOK
<1>3. stage[r] \in WorldStages /\ stage[q] \in WorldStages =>
          stage[r] = stage[q] /\ round[r] = round[q] /\ pass[r] = pass[q]
  BY <1>1 DEF Together, NextCollective, NextPass, WorldStages
<1>4. stage[r] \in WorldStages \cup {"generate"} => stage[q] # "done"
  BY <1>1, <1>2 DEF Together, Position, NextCollective, WorldStages
<1> QED BY <1>3, <1>4

\* The ranks that have not failed are always on their way to the same collective of
\* the world, in the same pass over their batch of the same number.
THEOREM ReplicasTogether == ReplicaSpec => []RInv
BY InitRInv, NextRInv, PTL DEF ReplicaSpec

\* Padding and synchronised errors keep the replicas from waiting in different
\* collectives, and for a rank that has ended.
THEOREM ReplicasMeet == ReplicaSpec => []CollectivesMeet
BY ReplicasTogether, RInvMeets, PTL

(***************************************************************************)
(* The batches divide the samples of a replica                             *)
(***************************************************************************)

\* Sequences of batches, a batch being a sequence of sample numbers.
BatchSeqs == Seq(Seq(Nat))

\* A sample that is batched is put in a batch of its own or added to the last one.
LEMMA BatchedFacts ==
    ASSUME NEW bs \in BatchSeqs, NEW i \in Nat
    PROVE  LET new == Batched(bs, i) IN
           /\ new \in BatchSeqs
           /\ \/ /\ Len(new) = Len(bs) + 1
                 /\ \A k \in 1 .. Len(bs) : new[k] = bs[k]
                 /\ Range(new[Len(bs) + 1]) = {i}
              \/ /\ Len(new) = Len(bs) /\ Len(bs) # 0
                 /\ \A k \in 1 .. Len(bs) - 1 : new[k] = bs[k]
                 /\ Range(new[Len(bs)]) = Range(bs[Len(bs)]) \cup {i}
<1>1. CASE bs = <<>> \/ Full(bs, i)
  <2>1. Batched(bs, i) = Append(bs, <<i>>)
    BY <1>1 DEF Batched
  <2>2. <<i>> \in Seq(Nat) /\ Range(<<i>>) = {i}
    BY DEF Range
  <2> QED BY <2>1, <2>2 DEF BatchSeqs
<1>2. CASE ~(bs = <<>> \/ Full(bs, i))
  <2> DEFINE last == Append(bs[Len(bs)], i)
  <2>1. Batched(bs, i) = [bs EXCEPT ![Len(bs)] = last]
    BY <1>2 DEF Batched
  <2>2. Len(bs) \in Nat /\ Len(bs) # 0 /\ bs[Len(bs)] \in Seq(Nat)
    BY <1>2 DEF BatchSeqs
  <2>3. last \in Seq(Nat)
    BY <2>2
  <2>4. Range(last) = Range(bs[Len(bs)]) \cup {i}
    <3>1. /\ Len(last) = Len(bs[Len(bs)]) + 1 /\ last[Len(last)] = i
          /\ \A k \in 1 .. Len(bs[Len(bs)]) : last[k] = bs[Len(bs)][k]
      BY <2>2
    <3>2. /\ DOMAIN last = 1 .. Len(bs[Len(bs)]) + 1
          /\ DOMAIN bs[Len(bs)] = 1 .. Len(bs[Len(bs)])
          /\ Len(bs[Len(bs)]) \in Nat
      BY <2>2
    <3> HIDE DEF last
    <3> QED BY <3>1, <3>2 DEF Range
  <2> HIDE DEF last
  <2> QED BY <2>1, <2>2, <2>3, <2>4 DEF BatchSeqs
<1> QED BY <1>1, <1>2

\* Dividing is what its recursive definition says.
LEMMA DividingIs ==
    ASSUME costs \in Seq(Costs), NEW rep \in Replicas
    PROVE  /\ Dividing(rep) \in [0 .. Len(costs) -> BatchSeqs]
           /\ Dividing(rep)[0] = <<>>
           /\ \A n \in 1 .. Len(costs) :
                 Dividing(rep)[n] = IF n \in Shard(rep) THEN Batched(Dividing(rep)[n - 1], n)
                                    ELSE Dividing(rep)[n - 1]
<1> DEFINE N == Len(costs)
           step == [p \in BatchSeqs \X (1 .. N) |->
                       IF p[2] \in Shard(rep) THEN Batched(p[1], p[2]) ELSE p[1]]
           Is(f) == f = [n \in 0 .. Len(costs) |->
                           IF n = 0 THEN <<>>
                           ELSE IF n \in Shard(rep) THEN Batched(f[n - 1], n) ELSE f[n - 1]]
<1>1. N \in Nat /\ <<>> \in BatchSeqs
  BY DEF BatchSeqs
<1>2. step \in [BatchSeqs \X (1 .. N) -> BatchSeqs]
  BY BatchedFacts
<1>3. PICK f : IsSolution(f, N, BatchSeqs, <<>>, step)
  <2> HIDE DEF step, N
  <2> QED BY <1>1, <1>2, Recursion
<1>4. Is(f)
  <2>1. ASSUME NEW n \in 1 .. N
        PROVE  f[n] = IF n \in Shard(rep) THEN Batched(f[n - 1], n) ELSE f[n - 1]
    <3>1. f[n - 1] \in BatchSeqs /\ f[n] = step[<<f[n - 1], n>>]
      <4> HIDE DEF step
      <4> QED BY <1>1, <1>3 DEF IsSolution
    <3> QED BY <3>1
  <2> QED BY <1>1, <1>3, <2>1 DEF IsSolution
<1>5. Is(Dividing(rep))
  <2>1. Dividing(rep) = CHOOSE g : Is(g)
    BY DEF Dividing
  <2> HIDE DEF Is
  <2> QED BY <1>4, <2>1
<1>6. /\ DOMAIN Dividing(rep) = 0 .. N
      /\ Dividing(rep) = [n \in 0 .. N |-> Dividing(rep)[n]]
      /\ Dividing(rep)[0] = <<>>
      /\ \A n \in 1 .. N :
            Dividing(rep)[n] = IF n \in Shard(rep) THEN Batched(Dividing(rep)[n - 1], n)
                               ELSE Dividing(rep)[n - 1]
  BY <1>1, <1>5
<1>7. \A n \in 0 .. N : Dividing(rep)[n] \in BatchSeqs
  <2> DEFINE Bad == {n \in 0 .. N : Dividing(rep)[n] \notin BatchSeqs}
  <2>1. SUFFICES ASSUME Bad # {} PROVE FALSE
    OBVIOUS
  <2>2. PICK n \in Bad : \A y \in Bad : n <= y
    <3>1. Bad \subseteq Nat
      OBVIOUS
    <3> HIDE DEF Bad
    <3> QED BY <2>1, <3>1, LeastNat
  <2>3. n \in 1 .. N /\ n \in Nat /\ n - 1 \in 0 .. N /\ n - 1 \notin Bad
    BY <1>1, <1>6, <2>2
  <2>4. Dividing(rep)[n - 1] \in BatchSeqs
    BY <2>3
  <2>5. Dividing(rep)[n] \in BatchSeqs
    BY <1>6, <2>3, <2>4, BatchedFacts
  <2> QED BY <2>2, <2>5
<1> QED BY <1>6, <1>7

\* The batches bs hold the samples of the shard up to n, each in one batch.
Divided(bs, rep, n) ==
    /\ \A k \in 1 .. Len(bs) : \A i \in Range(bs[k]) : i \in Shard(rep) /\ i <= n
    /\ \A i \in Shard(rep) : i <= n => \E k \in 1 .. Len(bs) : i \in Range(bs[k])
    /\ \A k, l \in 1 .. Len(bs) : k # l => Range(bs[k]) \cap Range(bs[l]) = {}

\* One more sample is divided.
LEMMA DividedStep ==
    ASSUME costs \in Seq(Costs), NEW rep \in Replicas, NEW n \in 1 .. Len(costs),
           NEW bs \in BatchSeqs, Divided(bs, rep, n - 1)
    PROVE  Divided(IF n \in Shard(rep) THEN Batched(bs, n) ELSE bs, rep, n)
<1>1. \A i \in Shard(rep) : i \in Nat
  BY DEF Shard
<1>a. \A k \in 1 .. Len(bs) : \A i \in Range(bs[k]) : i \in Shard(rep) /\ i \in Nat /\ i <= n - 1
  BY <1>1 DEF Divided
<1>b. \A i \in Shard(rep) : i <= n - 1 => \E k \in 1 .. Len(bs) : i \in Range(bs[k])
  BY DEF Divided
<1>c. \A k, l \in 1 .. Len(bs) : k # l => Range(bs[k]) \cap Range(bs[l]) = {}
  BY DEF Divided
<1>d. n \in Nat /\ Len(bs) \in Nat
  BY DEF BatchSeqs
<1>2. CASE n \notin Shard(rep)
  <2>1. \A k \in 1 .. Len(bs) : \A i \in Range(bs[k]) : i \in Shard(rep) /\ i <= n
    BY <1>a, <1>d
  <2>2. \A i \in Shard(rep) : i <= n => \E k \in 1 .. Len(bs) : i \in Range(bs[k])
    <3> TAKE i \in Shard(rep)
    <3>1. i \in Nat /\ i # n
      BY <1>1, <1>2
    <3> QED BY <3>1, <1>b, <1>d
  <2> QED BY <1>2, <2>1, <2>2, <1>c DEF Divided
<1>3. CASE n \in Shard(rep)
  <2> DEFINE new == Batched(bs, n)
  <2>1. Len(new) \in Nat /\ 1 <= Len(new) /\ (Len(new) = Len(bs) + 1 \/ Len(new) = Len(bs))
    BY <1>d, BatchedFacts DEF BatchSeqs
  <2>2. \A k \in 1 .. Len(new) - 1 : k \in 1 .. Len(bs) /\ Range(new[k]) = Range(bs[k])
    <3> TAKE k \in 1 .. Len(new) - 1
    <3>1. k \in 1 .. Len(bs) /\ k # Len(new)
      BY <1>d, <2>1
    <3>2. new[k] = bs[k]
      BY <1>d, <2>1, <3>1, BatchedFacts
    <3> QED BY <3>1, <3>2
  <2>3. \/ Range(new[Len(new)]) = {n} /\ Len(new) = Len(bs) + 1
        \/ Range(new[Len(new)]) = Range(bs[Len(new)]) \cup {n} /\ Len(new) = Len(bs)
    BY <1>d, BatchedFacts DEF BatchSeqs
  <2> HIDE DEF new
  <2>4. \A k \in 1 .. Len(bs) : n \notin Range(bs[k])
    <3> SUFFICES ASSUME NEW k \in 1 .. Len(bs), n \in Range(bs[k]) PROVE FALSE
      OBVIOUS
    <3>1. n <= n - 1
      BY <1>a
    <3> QED BY <3>1, <1>d
  <2>5. \A k \in 1 .. Len(new) : \A i \in Range(new[k]) : i \in Shard(rep) /\ i <= n
    <3> TAKE k \in 1 .. Len(new)
    <3>1. CASE k = Len(new)
      BY <3>1, <1>d, <2>1, <2>3, <1>a, <1>3
    <3>2. CASE k # Len(new)
      <4>1. k \in 1 .. Len(new) - 1
        BY <3>2, <2>1
      <4>2. k \in 1 .. Len(bs) /\ Range(new[k]) = Range(bs[k])
        BY <4>1, <2>2
      <4>3. \A i \in Range(new[k]) : i \in Shard(rep) /\ i \in Nat /\ i <= n - 1
        BY <4>2, <1>a
      <4> QED BY <4>3, <1>d
    <3> QED BY <3>1, <3>2
  <2>6. ASSUME NEW i \in Shard(rep), i <= n
        PROVE  \E k \in 1 .. Len(new) : i \in Range(new[k])
    <3>1. CASE i = n
      BY <3>1, <2>1, <2>3
    <3>2. CASE i # n
      <4>1. PICK k \in 1 .. Len(bs) : i \in Range(bs[k])
        BY <3>2, <2>6, <1>d, <1>1, <1>b
      <4> QED BY <4>1, <1>d, <2>1, <2>2, <2>3
    <3> QED BY <3>1, <3>2
  <2>7. ASSUME NEW k \in 1 .. Len(new), NEW l \in 1 .. Len(new), k < l
        PROVE  Range(new[k]) \cap Range(new[l]) = {}
    <3>1. k \in 1 .. Len(new) - 1 /\ k \in 1 .. Len(bs) /\ Range(new[k]) = Range(bs[k])
      BY <2>1, <2>2, <2>7
    <3>2. CASE l = Len(new)
      BY <3>1, <3>2, <1>d, <2>3, <2>4, <2>7, <1>c
    <3>3. CASE l # Len(new)
      <4>1. l \in 1 .. Len(new) - 1
        BY <3>3, <2>1
      <4>2. l \in 1 .. Len(bs) /\ Range(new[l]) = Range(bs[l])
        BY <4>1, <2>2
      <4>3. k # l
        BY <2>7, <2>1
      <4> QED BY <4>2, <4>3, <3>1, <1>c
    <3> QED BY <3>2, <3>3
  <2>8. \A k, l \in 1 .. Len(new) : k # l => Range(new[k]) \cap Range(new[l]) = {}
    <3> TAKE k, l \in 1 .. Len(new)
    <3>1. CASE k < l
      BY <3>1, <2>7
    <3>2. CASE l < k
      BY <3>2, <2>7
    <3> QED BY <3>1, <3>2, <2>1
  <2>9. Divided(new, rep, n)
    BY <2>5, <2>6, <2>8 DEF Divided
  <2> QED BY <2>9, <1>3 DEF new
<1> QED BY <1>2, <1>3

\* _iter_batch_ranges puts every sample of the shard in one batch.
LEMMA BatchesDivide ==
    ASSUME costs \in Seq(Costs), NEW rep \in Replicas
    PROVE  Batches(rep) \in BatchSeqs /\ Divided(Batches(rep), rep, Len(costs))
<1> DEFINE N == Len(costs)
           Bad == {n \in 0 .. N : ~Divided(Dividing(rep)[n], rep, n)}
<1>1. N \in Nat
  OBVIOUS
<1>2. SUFFICES Bad = {}
  BY <1>1, DividingIs DEF Batches
<1>3. SUFFICES ASSUME Bad # {} PROVE FALSE
  OBVIOUS
<1>4. PICK n \in Bad : \A y \in Bad : n <= y
  <2>1. Bad \subseteq Nat
    OBVIOUS
  <2> HIDE DEF Bad
  <2> QED BY <1>3, <2>1, LeastNat
<1>5. n # 0
  <2>1. Dividing(rep)[0] = <<>>
    BY DividingIs
  <2>2. Divided(<<>>, rep, 0)
    BY DEF Divided, Shard
  <2> QED BY <2>1, <2>2
<1>6. n \in 1 .. N /\ n - 1 \in 0 .. N /\ n - 1 \notin Bad
  BY <1>1, <1>4, <1>5
<1>7. Dividing(rep)[n - 1] \in BatchSeqs /\ Divided(Dividing(rep)[n - 1], rep, n - 1)
  BY <1>6, DividingIs
<1>8. Divided(Dividing(rep)[n], rep, n)
  BY <1>6, <1>7, DividingIs, DividedStep
<1> QED BY <1>4, <1>8

(***************************************************************************)
(* Every sample is reported once                                           *)
(***************************************************************************)

\* What was reported of a sample.
Reports(i) == answered[i]["success"] + answered[i]["error"]

\* The first rank of a replica has reported the samples of a batch when it is past
\* that batch, unless it failed there.
Told(p) ==
    \A n \in 1 .. NumLocalBatches(p) : \A i \in Range(Batches(ReplicaId(p))[n]) :
        /\ round[p] < n => Reports(i) = 0
        /\ Reports(i) \in {0, 1}
        /\ round[p] >= n /\ stage[p] # "failed" => Reports(i) = 1

\* The samples of the batches of one number are reported alike.
Alike(p, q) ==
    \A n \in 1 .. NumLocalBatches(p) : n <= NumLocalBatches(q) =>
        \A i \in Range(Batches(ReplicaId(p))[n]), j \in Range(Batches(ReplicaId(q))[n]) :
            ~(answered[i]["success"] > 0 /\ answered[j]["error"] > 0)

\* Behind the all-reduce, no rank has more batches than it said.
Known(r) ==
    stage[r] \notin {"create", "plan", "count", "failed"} => NumLocalBatches(r) <= globalMax

\* The inductive invariant of what is reported, beside RInv.
TellInv ==
    /\ answered \in [DOMAIN costs -> [Statuses -> Nat]]
    /\ \A r \in World : Known(r)
    /\ \A p \in World : Primary(p) => Told(p)
    /\ \A p, q \in World : Primary(p) /\ Primary(q) => Alike(p, q)

\* Every rank belongs to a replica, which has one first rank.
LEMMA Teams ==
    /\ \A r \in World : ReplicaId(r) \in Replicas
    /\ \A r, q \in World : Primary(r) /\ Primary(q) /\ ReplicaId(r) = ReplicaId(q) => r = q
    /\ \A rep \in Replicas : \E r \in World : Primary(r) /\ ReplicaId(r) = rep
<1> DEFINE S == ReplicaSize
           R == NumReplicas
<1>0. S \in Nat \ {0} /\ R \in Nat \ {0} /\ R * S \in Nat
  BY ReplicaAssumption
<1>1. ASSUME NEW r \in World
      PROVE  /\ r \in Nat /\ r < R * S /\ r \div S \in Nat /\ r % S \in 0 .. S - 1
             /\ r = S * (r \div S) + (r % S)
  <2>1. r \in Nat /\ r < R * S
    BY <1>0 DEF World
  <2> HIDE DEF S, R
  <2> QED BY <1>0, <2>1, Remainders
<1>2. ASSUME NEW r \in World PROVE ReplicaId(r) \in Replicas
  <2> DEFINE k == r \div S
             o == r % S
  <2>0. k \in Nat /\ o \in Nat /\ r = S * k + o /\ r < S * R
    BY <1>0, <1>1
  <2>1. S * k < S * R
    <3> HIDE DEF k, o
    <3> QED BY <1>0, <2>0
  <2>2. r \div S < R
    BY <1>0, <1>1, <2>1
  <2> QED BY <1>0, <1>1, <2>2 DEF ReplicaId, Replicas
<1>3. ASSUME NEW r \in World, NEW q \in World, Primary(r), Primary(q), ReplicaId(r) = ReplicaId(q)
      PROVE  r = q
  <2>1. r % S = 0 /\ q % S = 0 /\ r \div S = q \div S
    BY <1>3 DEF Primary, ReplicaId
  <2>2. r = S * (r \div S) + (r % S) /\ q = S * (q \div S) + (q % S)
    BY <1>1
  <2>3. r = S * (q \div S) + 0 /\ q = S * (q \div S) + 0
    BY <2>1, <2>2, Zenon
  <2> QED BY <2>3
<1>4. ASSUME NEW rep \in Replicas
      PROVE  \E r \in World : Primary(r) /\ ReplicaId(r) = rep
  <2>1. rep \in Nat /\ rep <= R - 1
    BY <1>0 DEF Replicas
  <2> DEFINE r == S * rep
  <2>2. r \in Nat /\ r <= S * (R - 1)
    BY <1>0, <2>1
  <2>3. r \in World
    BY <1>0, <2>2 DEF World
  <2>4. r % S = 0 /\ r \div S = rep
    <3>1. /\ r \div S \in Nat /\ r % S \in 0 .. S - 1
          /\ r = S * (r \div S) + (r % S)
      BY <1>0, <2>2, Remainders
    <3> HIDE DEF S
    <3>2. S * (rep - (r \div S)) = r % S
      BY <1>0, <2>1, <3>1
    <3>3. rep - (r \div S) = 0
      BY <1>0, <2>1, <3>1, <3>2
    <3> QED BY <1>0, <2>1, <3>1, <3>2, <3>3
  <2> QED BY <2>3, <2>4 DEF Primary, ReplicaId
<1> QED BY <1>2, <1>3, <1>4

\* The first ranks of replicas report different samples.
LEMMA OwnSamples ==
    ASSUME RInv, NEW p \in World, NEW q \in World, Primary(p), Primary(q),
           NEW n \in 1 .. NumLocalBatches(p), NEW m \in 1 .. NumLocalBatches(q),
           NEW i, i \in Range(Batches(ReplicaId(p))[n]), i \in Range(Batches(ReplicaId(q))[m])
    PROVE  p = q /\ n = m
<1>0. costs \in Seq(Costs) /\ ReplicaId(p) \in Replicas /\ ReplicaId(q) \in Replicas
  BY Teams DEF RInv, RankTypeOK
<1>1. /\ Divided(Batches(ReplicaId(p)), ReplicaId(p), Len(costs))
      /\ Divided(Batches(ReplicaId(q)), ReplicaId(q), Len(costs))
  BY <1>0, BatchesDivide
<1>2. i \in Shard(ReplicaId(p)) /\ i \in Shard(ReplicaId(q))
  BY <1>1 DEF Divided, NumLocalBatches
<1>3. ReplicaId(p) = ReplicaId(q)
  BY <1>2 DEF Shard
<1>4. p = q
  BY <1>3, Teams
<1> QED BY <1>1, <1>4 DEF Divided, NumLocalBatches

\* The batch of a rank holds samples of its shard.
LEMMA BatchSamples ==
    ASSUME RInv, NEW p \in World, NEW n \in 1 .. NumLocalBatches(p),
           NEW i \in Range(Batches(ReplicaId(p))[n])
    PROVE  i \in DOMAIN costs
<1>0. costs \in Seq(Costs) /\ ReplicaId(p) \in Replicas
  BY Teams DEF RInv, RankTypeOK
<1>1. Divided(Batches(ReplicaId(p)), ReplicaId(p), Len(costs))
  BY <1>0, BatchesDivide
<1> QED BY <1>1 DEF Divided, NumLocalBatches, Shard

\* Rank p reports its batch when the ranks of rs return.
Tells(p, rs) == p \in rs /\ Processes(p) /\ ~InWarmup(p) /\ ~Aborts(p)

\* Each sample of a batch is reported by the first rank of its replica alone.
LEMMA AnswerFacts ==
    ASSUME RInv, answered \in [DOMAIN costs -> [Statuses -> Nat]], NEW bad, NEW rs,
           rs \subseteq World, Answer(bad, rs),
           NEW p \in World, Primary(p), NEW n \in 1 .. NumLocalBatches(p),
           NEW i \in Range(Batches(ReplicaId(p))[n]), NEW s \in Statuses
    PROVE  /\ answered[i][s] \in Nat
           /\ answered'[i][s] =
                IF Tells(p, rs) /\ round[p] + 1 = n /\ s = IF p \in bad THEN "error" ELSE "success"
                THEN answered[i][s] + 1 ELSE answered[i][s]
<1> DEFINE told == {r \in rs : /\ Processes(r) /\ ~InWarmup(r) /\ ~Aborts(r)
                               /\ i \in Range(Batch(r))
                               /\ s = IF r \in bad THEN "error" ELSE "success"}
           Told1 == Tells(p, rs) /\ round[p] + 1 = n /\ s = IF p \in bad THEN "error" ELSE "success"
<1>1. i \in DOMAIN costs /\ i \in DOMAIN answered /\ answered[i][s] \in Nat
  BY BatchSamples
<1>2. answered'[i][s] = answered[i][s] + Cardinality(told)
  BY <1>1 DEF Answer
<1>3. ASSUME NEW r \in told PROVE r = p /\ round[p] + 1 = n
  <2>1. r \in World /\ Primary(r) /\ ~IsPadding(r) /\ i \in Range(Batch(r))
    BY DEF Processes
  <2>2. round[r] + 1 \in 1 .. NumLocalBatches(r) /\ round[r] \in Nat
    <3>1. costs \in Seq(Costs) /\ ReplicaId(r) \in Replicas /\ round[r] \in Nat
      BY <2>1, Teams DEF RInv, RankTypeOK
    <3>2. NumLocalBatches(r) \in Nat
      BY <3>1, BatchesDivide DEF NumLocalBatches, BatchSeqs
    <3> QED BY <2>1, <3>1, <3>2 DEF IsPadding
  <2>3. i \in Range(Batches(ReplicaId(r))[round[r] + 1])
    BY <2>1 DEF Batch
  <2>4. PICK m \in 1 .. NumLocalBatches(r) : m = round[r] + 1
    BY <2>2
  <2>5. i \in Range(Batches(ReplicaId(r))[m])
    BY <2>3, <2>4
  <2>6. p = r /\ n = m
    <3> HIDE DEF told
    <3> QED BY <2>1, <2>5, OwnSamples
  <2> QED BY <2>4, <2>6
<1>4. CASE Told1
  <2>1. i \in Range(Batch(p))
    BY <1>4 DEF Batch
  <2>2. told = {p}
    BY <1>3, <1>4, <2>1 DEF Tells
  <2>3. Cardinality(told) = 1
    BY <2>2, FS_Singleton
  <2> HIDE DEF told
  <2> QED BY <1>1, <1>2, <1>4, <2>3
<1>5. CASE ~Told1
  <2>1. told = {}
    BY <1>3, <1>5 DEF Tells
  <2>2. Cardinality(told) = 0
    BY <2>1, FS_EmptySet
  <2> HIDE DEF told
  <2> QED BY <1>1, <1>2, <1>5, <2>2
<1> QED BY <1>4, <1>5

\* The numbers of reports stay numbers.
LEMMA AnswerType ==
    ASSUME RInv, answered \in [DOMAIN costs -> [Statuses -> Nat]], NEW bad, NEW rs,
           rs \subseteq World, Answer(bad, rs)
    PROVE  answered' \in [DOMAIN costs -> [Statuses -> Nat]]
<1> DEFINE told(i, s) == {r \in rs : /\ Processes(r) /\ ~InWarmup(r) /\ ~Aborts(r)
                                     /\ i \in Range(Batch(r))
                                     /\ s = IF r \in bad THEN "error" ELSE "success"}
<1>1. IsFiniteSet(World)
  BY ReplicaAssumption, FS_Interval DEF World
<1>2. ASSUME NEW i, NEW s PROVE Cardinality(told(i, s)) \in Nat
  <2>1. told(i, s) \in SUBSET World
    OBVIOUS
  <2> HIDE DEF told
  <2> QED BY <1>1, <2>1, FS_Subset, FS_CardinalityType
<1>3. answered' = [i \in DOMAIN costs |->
                     [s \in Statuses |-> answered[i][s] + Cardinality(told(i, s))]]
  BY DEF Answer
<1> HIDE DEF told
<1> QED BY <1>2, <1>3

\* A step in which nobody reports, and nobody comes back from an error.
LEMMA QuietTells ==
    ASSUME RInv, TellInv, UNCHANGED <<costs, round, answered>>,
           \A r \in World : stage[r] = "failed" => stage'[r] = "failed",
           \A r \in World : Known(r)'
    PROVE  TellInv'
<1>1. \A rep \in Replicas : Batches(rep)' = Batches(rep)
  BY DEF Batches, Dividing, Batched, Full, Shard, FoldLeft, MapThenFoldSet
<1>2. \A r \in World : NumLocalBatches(r)' = NumLocalBatches(r)
  BY <1>1, Teams DEF NumLocalBatches
<1>3. \A i : Reports(i)' = Reports(i)
  BY DEF Reports
<1>4. ASSUME NEW p \in World, Told(p) PROVE Told(p)'
  <2>1. ReplicaId(p) \in Replicas
    BY Teams
  <2> QED BY <1>1, <1>2, <1>3, <1>4, <2>1 DEF Told
<1>5. ASSUME NEW p \in World, NEW q \in World, Alike(p, q) PROVE Alike(p, q)'
  <2>1. ReplicaId(p) \in Replicas /\ ReplicaId(q) \in Replicas
    BY Teams
  <2> QED BY <1>1, <1>2, <1>5, <2>1 DEF Alike
<1>6. \A p \in World : Primary(p)' = Primary(p)
  BY DEF Primary
<1> QED BY <1>4, <1>5 DEF TellInv, Primary

\* All ranks report their batch, of one number, and all know the same of it.
LEMMA RoundTells ==
    ASSUME RInv, TellInv, NEW m \in Nat, NEW st \in Statuses, NEW bad, NEW others,
           \A r \in World : round[r] = m /\ ~InWarmup(r) /\ stage[r] # "failed",
           \A r \in World : st = IF r \in bad THEN "error" ELSE "success",
           Return(World, others), Answer(bad, World),
           costs' = costs, \A r \in World : Known(r)'
    PROVE  TellInv'
<1>1. \A rep \in Replicas : Batches(rep)' = Batches(rep)
  BY DEF Batches, Dividing, Batched, Full, Shard, FoldLeft, MapThenFoldSet
<1>2. \A r \in World : NumLocalBatches(r)' = NumLocalBatches(r)
  BY <1>1, Teams DEF NumLocalBatches
<1>3. \A r \in World : /\ round'[r] = m + 1
                       /\ Aborts(r) => stage'[r] = "failed"
  BY DEF Return
<1>4. answered' \in [DOMAIN costs -> [Statuses -> Nat]]
  BY AnswerType DEF TellInv
<1>5. ASSUME NEW p \in World, Primary(p), NEW n \in 1 .. NumLocalBatches(p),
             NEW i \in Range(Batches(ReplicaId(p))[n]), NEW s \in Statuses
      PROVE  /\ answered[i][s] \in Nat
             /\ n # m + 1 => answered'[i][s] = answered[i][s]
             /\ n = m + 1 => /\ answered[i][s] = 0
                             /\ answered'[i][s] = IF s = st /\ ~Aborts(p) THEN 1 ELSE 0
  <2>0. answered[i][s] \in Nat /\ NumLocalBatches(p) \in Nat
    <3>1. costs \in Seq(Costs) /\ ReplicaId(p) \in Replicas
      BY Teams DEF RInv, RankTypeOK
    <3> QED BY <3>1, <1>5, BatchesDivide, BatchSamples DEF NumLocalBatches, BatchSeqs, TellInv
  <2>1. answered'[i][s] =
          IF Tells(p, World) /\ round[p] + 1 = n /\ s = IF p \in bad THEN "error" ELSE "success"
          THEN answered[i][s] + 1 ELSE answered[i][s]
    BY <1>5, AnswerFacts DEF TellInv
  <2>2. CASE n # m + 1
    BY <2>0, <2>1, <2>2
  <2>3. CASE n = m + 1
    <3>1. Tells(p, World) <=> ~Aborts(p)
      BY <1>5, <2>0, <2>3 DEF Tells, Processes, IsPadding
    <3>2. Reports(i) = 0
      BY <1>5, <2>3 DEF TellInv, Told
    <3>3. answered[i]["success"] \in Nat /\ answered[i]["error"] \in Nat
      BY <1>5, BatchSamples DEF TellInv, Statuses
    <3>4. answered[i][s] = 0
      BY <3>2, <3>3 DEF Reports, Statuses
    <3> QED BY <2>1, <2>3, <3>1, <3>4
  <2> QED BY <2>2, <2>3
<1>6. ASSUME NEW p \in World, Primary(p) PROVE Told(p)'
  <2>1. Told(p) /\ ReplicaId(p) \in Replicas
    BY <1>6, Teams DEF TellInv
  <2>2. SUFFICES ASSUME NEW n \in 1 .. NumLocalBatches(p),
                        NEW i \in Range(Batches(ReplicaId(p))[n])
                 PROVE  /\ m + 1 < n => Reports(i)' = 0
                        /\ Reports(i)' \in {0, 1}
                        /\ m + 1 >= n /\ stage'[p] # "failed" => Reports(i)' = 1
    BY <1>1, <1>2, <1>3, <2>1 DEF Told
  <2>3. "success" \in Statuses /\ "error" \in Statuses /\ st \in {"success", "error"} /\ n \in Int
    BY DEF Statuses
  <2>4. CASE n # m + 1
    <3>1. Reports(i)' = Reports(i)
      BY <1>5, <1>6, <2>3, <2>4 DEF Reports
    <3> QED BY <2>1, <2>3, <2>4, <3>1 DEF Told
  <2>5. CASE n = m + 1
    <3>1. Reports(i)' = IF Aborts(p) THEN 0 ELSE 1
      BY <1>5, <1>6, <2>3, <2>5 DEF Reports
    <3> QED BY <1>3, <2>5, <3>1
  <2> QED BY <2>4, <2>5
<1>7. ASSUME NEW p \in World, NEW q \in World, Primary(p), Primary(q) PROVE Alike(p, q)'
  <2>1. Alike(p, q) /\ ReplicaId(p) \in Replicas /\ ReplicaId(q) \in Replicas
    BY <1>7, Teams DEF TellInv
  <2>2. SUFFICES ASSUME NEW n \in 1 .. NumLocalBatches(p), n <= NumLocalBatches(q),
                        NEW i \in Range(Batches(ReplicaId(p))[n]),
                        NEW j \in Range(Batches(ReplicaId(q))[n])
                 PROVE  ~(answered'[i]["success"] > 0 /\ answered'[j]["error"] > 0)
    BY <1>1, <1>2, <2>1 DEF Alike
  <2>3. "success" \in Statuses /\ "error" \in Statuses /\ n \in 1 .. NumLocalBatches(q)
    BY <2>2 DEF Statuses
  <2>4. CASE n # m + 1
    <3>1. /\ answered'[i]["success"] = answered[i]["success"]
          /\ answered'[j]["error"] = answered[j]["error"]
      BY <1>5, <1>7, <2>3, <2>4
    <3> QED BY <2>1, <2>2, <3>1 DEF Alike
  <2>5. CASE n = m + 1
    <3>1. /\ answered'[i]["success"] = IF "success" = st /\ ~Aborts(p) THEN 1 ELSE 0
          /\ answered'[j]["error"] = IF "error" = st /\ ~Aborts(q) THEN 1 ELSE 0
      BY <1>5, <1>7, <2>3, <2>5
    <3> QED BY <3>1
  <2> QED BY <2>4, <2>5
<1> QED BY <1>4, <1>6, <1>7 DEF TellInv, Primary

\* Where no all-reduce is involved, a rank that is behind it was so before.
LEMMA KnownStays ==
    ASSUME RInv, TellInv, UNCHANGED <<costs, globalMax>>,
           \A r \in World : stage'[r] \notin {"create", "plan", "count", "failed"} =>
               stage[r] \notin {"create", "plan", "count", "failed"}
    PROVE  \A r \in World : Known(r)'
<1>1. \A rep \in Replicas : Batches(rep)' = Batches(rep)
  BY DEF Batches, Dividing, Batched, Full, Shard, FoldLeft, MapThenFoldSet
<1>2. \A r \in World : NumLocalBatches(r)' = NumLocalBatches(r)
  BY <1>1, Teams DEF NumLocalBatches
<1> QED BY <1>2 DEF Known, TellInv

\* At the start nothing is reported.
LEMMA InitTells == ReplicaInit => TellInv
<1> SUFFICES ASSUME ReplicaInit PROVE TellInv
  OBVIOUS
<1>1. RInv
  BY InitRInv
<1>2. answered \in [DOMAIN costs -> [Statuses -> Nat]]
  BY DEF ReplicaInit
<1>3. \A r \in World : Known(r)
  BY DEF ReplicaInit, Known
<1>4. ASSUME NEW p \in World, NEW n \in 1 .. NumLocalBatches(p),
             NEW i \in Range(Batches(ReplicaId(p))[n])
      PROVE  answered[i]["success"] = 0 /\ answered[i]["error"] = 0
  BY <1>1, <1>4, BatchSamples DEF ReplicaInit, Statuses
<1>5. ASSUME NEW p \in World PROVE Told(p)
  <2>1. costs \in Seq(Costs) /\ ReplicaId(p) \in Replicas
    BY <1>1, Teams DEF RInv, RankTypeOK
  <2>2. \A n \in 1 .. NumLocalBatches(p) : round[p] < n /\ ~(round[p] >= n)
    BY <2>1, BatchesDivide DEF ReplicaInit, NumLocalBatches, BatchSeqs
  <2> QED BY <1>4, <2>2 DEF Told, Reports
<1>6. ASSUME NEW p \in World, NEW q \in World PROVE Alike(p, q)
  BY <1>4 DEF Alike
<1> QED BY <1>2, <1>3, <1>5, <1>6 DEF TellInv

\* Every step keeps the invariant.
LEMMA NextTells ==
    ASSUME RInv, TellInv, [ReplicaNext]_replicaVars
    PROVE  TellInv'
<1> DEFINE Back == \A r \in World : stage[r] = "failed" => stage'[r] = "failed"
           Late == \A r \in World : stage'[r] \notin {"create", "plan", "count", "failed"} =>
                       stage[r] \notin {"create", "plan", "count", "failed"}
<1>1. CASE UNCHANGED replicaVars
  <2>1. UNCHANGED <<costs, round, answered, globalMax>> /\ Back /\ Late
    BY <1>1 DEF replicaVars, rankVars
  <2> QED BY <2>1, KnownStays, QuietTells
<1>2. CASE \E r \in World : \/ Plan(r) \/ Take(r) \/ NoMoreBatches(r) \/ Raises(r)
                            \/ ProcessInputs(r) \/ SaveOutputs(r)
  <2>1. PICK r \in World : \/ Plan(r) \/ Take(r) \/ NoMoreBatches(r) \/ Raises(r)
                           \/ ProcessInputs(r) \/ SaveOutputs(r)
    BY <1>2
  <2>2. UNCHANGED <<costs, round, answered, globalMax>>
    BY <2>1 DEF Plan, Take, NoMoreBatches, Raises, ProcessInputs, SaveOutputs
  <2>3. stage \in [World -> Stages]
    BY DEF RInv, RankTypeOK
  <2>4. \E s \in Stages : /\ stage' = [stage EXCEPT ![r] = s]
                          /\ stage[r] # "failed"
                          /\ s \in {"count", "failed"} \/ stage[r] \notin {"create", "plan", "count", "failed"}
    BY <2>1, <2>3 DEF Plan, Take, NoMoreBatches, Raises, ProcessInputs, SaveOutputs, Goto, Stages, WorldStages
  <2>5. Back /\ Late
    BY <2>3, <2>4
  <2> QED BY <2>2, <2>5, KnownStays, QuietTells
<1>3. CASE Created
  <2>1. /\ UNCHANGED <<costs, round, answered, globalMax>>
        /\ \A r \in World : stage[r] = "create" /\ stage'[r] = "plan"
    BY <1>3 DEF Created, AllAt
  <2>2. Back /\ Late
    BY <2>1
  <2> QED BY <2>1, <2>2, KnownStays, QuietTells
<1>4. CASE Counted
  <2>1. /\ UNCHANGED <<costs, round, answered>>
        /\ \A r \in World : stage[r] = "count" /\ stage'[r] = "next"
        /\ \A r \in World : NumLocalBatches(r) <= globalMax'
    BY <1>4 DEF Counted, AllAt
  <2>2. \A rep \in Replicas : Batches(rep)' = Batches(rep)
    BY <2>1 DEF Batches, Dividing, Batched, Full, Shard, FoldLeft, MapThenFoldSet
  <2>3. \A r \in World : NumLocalBatches(r)' = NumLocalBatches(r)
    BY <2>2, Teams DEF NumLocalBatches
  <2> QED BY <2>1, <2>3, QuietTells DEF Known
<1>5. CASE \E rep \in Replicas : WarmedUp(rep) \/ Generated(rep)
  <2>1. PICK rep \in Replicas : WarmedUp(rep) \/ Generated(rep)
    BY <1>5
  <2>2. round \in [World -> Nat] /\ stage \in [World -> Stages]
    BY DEF RInv, RankTypeOK
  <2>3. CASE Generated(rep)
    <3>1. /\ UNCHANGED <<costs, round, answered, globalMax>>
          /\ \A r \in World : stage'[r] = stage[r] \/ (stage[r] = "generate" /\ stage'[r] = "saving")
      BY <2>2, <2>3 DEF Generated, AllAt
    <3>2. Back /\ Late
      BY <3>1
    <3> QED BY <3>1, <3>2, KnownStays, QuietTells
  <2>4. CASE WarmedUp(rep)
    <3>1. UNCHANGED <<costs, answered, globalMax>>
      BY <2>4 DEF WarmedUp
    <3>2. round' = round
      BY <2>2, <2>4 DEF WarmedUp, Return
    <3>3. \A r \in World : \/ stage'[r] = stage[r]
                           \/ stage[r] = "generate"
      BY <2>2, <2>4 DEF WarmedUp, Return, AllAt
    <3>4. Back /\ Late
      BY <3>3
    <3> QED BY <3>1, <3>2, <3>4, KnownStays, QuietTells
  <2> QED BY <2>1, <2>3, <2>4
<1>6. ASSUME NEW c \in {"inputs", "outputs"}, AllAt(World, c), NEW others, NEW bad,
             bad = {} \/ bad = World, Return(World, others), Answer(bad, World),
             UNCHANGED <<costs, globalMax>>
      PROVE  TellInv'
  <2>1. \A r \in World : stage[r] = c /\ round[r] \in Nat
    BY <1>6 DEF AllAt, RInv, RankTypeOK
  <2>2. Late /\ \A r \in World : Known(r)'
    BY <1>6, <2>1, KnownStays
  <2>3. 0 \in World
    BY ReplicaAssumption DEF World
  <2>4. \A r, q \in World : round[r] = round[q] /\ pass[r] = pass[q]
    BY <2>1 DEF RInv, Together, NextPass
  <2>5. CASE InWarmup(0)
    <3>1. \A r \in World : InWarmup(r)
      BY <2>3, <2>4, <2>5 DEF InWarmup
    <3>2. round' = round
      BY <1>6, <3>1 DEF Return, RInv, RankTypeOK
    <3>3. answered' = answered
      <4>1. ASSUME NEW i, NEW s
            PROVE  {r \in World : /\ Processes(r) /\ ~InWarmup(r) /\ ~Aborts(r)
                                  /\ i \in Range(Batch(r))
                                  /\ s = IF r \in bad THEN "error" ELSE "success"} = {}
        BY <3>1
      <4>2. Cardinality({}) = 0
        BY FS_EmptySet
      <4>3. answered' = [i \in DOMAIN answered |-> [s \in Statuses |-> answered[i][s] + 0]]
        BY <1>6, <4>1, <4>2 DEF Answer
      <4> QED BY <4>3 DEF TellInv
    <3> QED BY <1>6, <2>1, <2>2, <3>2, <3>3, QuietTells
  <2>6. CASE ~InWarmup(0)
    <3>1. PICK m \in Nat : m = round[0]
      BY <2>1, <2>3
    <3>2. PICK st \in Statuses : \A r \in World : st = IF r \in bad THEN "error" ELSE "success"
      BY <1>6 DEF Statuses
    <3>3. \A r \in World : round[r] = m /\ ~InWarmup(r) /\ stage[r] # "failed"
      BY <1>6, <2>1, <2>3, <2>4, <2>6, <3>1 DEF InWarmup
    <3> QED BY <1>6, <2>2, <3>2, <3>3, RoundTells
  <2> QED BY <2>5, <2>6
<1>7. CASE InputsMet
  <2> DEFINE bad == {r \in World : SomeError(r)}
  <2>1. CASE \E q \in World : raised[q]
    <3>1. bad = World
      BY <2>1 DEF SomeError
    <3>2. Return(World, [r \in World |-> "generate"]) /\ Answer(World, World)
      BY <1>7, <3>1 DEF InputsMet
    <3> QED BY <1>6, <1>7, <3>2 DEF InputsMet
  <2>2. CASE ~ \E q \in World : raised[q]
    <3>1. bad = {}
      BY <2>2 DEF SomeError
    <3>2. /\ Return({}, [r \in World |-> "generate"]) /\ Answer({}, {})
          /\ UNCHANGED <<costs, globalMax>>
      BY <1>7, <3>1 DEF InputsMet
    <3>3. round' = round
      BY <3>2 DEF Return, RInv, RankTypeOK
    <3>4. answered' = answered
      <4>1. Cardinality({}) = 0
        BY FS_EmptySet
      <4>2. answered' = [i \in DOMAIN answered |-> [s \in Statuses |-> answered[i][s] + 0]]
        BY <3>2, <4>1 DEF Answer
      <4> QED BY <4>2 DEF TellInv
    <3>5. \A r \in World : stage[r] = "inputs"
      BY <1>7 DEF InputsMet, AllAt
    <3>6. Back /\ Late
      BY <3>5
    <3> QED BY <3>2, <3>3, <3>4, <3>6, KnownStays, QuietTells
  <2> QED BY <2>1, <2>2
<1>8. CASE OutputsMet
  <2> DEFINE bad == {r \in World : SomeError(r)}
  <2>1. bad = {} \/ bad = World
    BY DEF SomeError
  <2>2. AllAt(World, "outputs") /\ Return(World, stage) /\ Answer(bad, World)
        /\ UNCHANGED <<costs, globalMax>>
    BY <1>8 DEF OutputsMet, Saved
  <2> HIDE DEF bad
  <2> QED BY <1>6, <2>1, <2>2
<1>9. CASE Stopped
  BY <1>1, <1>9 DEF Stopped
<1> QED
  BY <1>1, <1>2, <1>3, <1>4, <1>5, <1>7, <1>8, <1>9 DEF ReplicaNext
-----------------------------------------------------------------------------
\* What the invariant says of one sample.
LEMMA TellsOnce == RInv /\ TellInv => AnsweredOnce
<1> SUFFICES ASSUME RInv, TellInv, NEW i \in DOMAIN costs
             PROVE  /\ Reports(i) <= 1
                    /\ AllAt(World, "done") => Reports(i) = 1
  BY DEF AnsweredOnce, Reports
<1>1. costs \in Seq(Costs) /\ NumReplicas \in Nat \ {0}
  BY ReplicaAssumption DEF RInv, RankTypeOK
<1>2. PICK rep \in Replicas : i \in Shard(rep)
  <2>1. i - 1 \in Nat
    BY <1>1
  <2>2. (i - 1) % NumReplicas \in Replicas
    BY <1>1, <2>1, Remainders DEF Replicas
  <2> QED BY <1>1, <2>2 DEF Shard
<1>3. PICK p \in World : Primary(p) /\ ReplicaId(p) = rep
  BY <1>2, Teams
<1>4. PICK n \in 1 .. Len(Batches(rep)) : i \in Range(Batches(rep)[n])
  <2>1. i \in Nat /\ i <= Len(costs)
    BY <1>1
  <2> QED BY <1>1, <1>2, <2>1, BatchesDivide DEF Divided
<1>5. /\ Reports(i) \in {0, 1}
      /\ round[p] >= n /\ stage[p] # "failed" => Reports(i) = 1
  BY <1>3, <1>4 DEF TellInv, Told, NumLocalBatches
<1>6. ASSUME stage[p] = "done" PROVE Reports(i) = 1
  <2>1. ~(round[p] < globalMax) /\ round[p] \in Nat /\ globalMax \in Nat
    BY <1>3, <1>6 DEF RInv, Position, RankTypeOK
  <2>2. Len(Batches(rep)) <= globalMax
    BY <1>3, <1>6 DEF TellInv, Known, NumLocalBatches
  <2>3. Len(Batches(rep)) \in Nat
    BY <1>1, BatchesDivide DEF BatchSeqs
  <2> QED BY <1>4, <1>5, <1>6, <2>1, <2>2, <2>3
<1> QED BY <1>3, <1>5, <1>6 DEF AllAt

\* What it says of the samples that are generated side by side.
LEMMA TellsAlike == RInv /\ TellInv => RoundsAgree
<1> SUFFICES ASSUME RInv, TellInv, NEW p \in Replicas, NEW q \in Replicas, NEW n \in 1 .. globalMax,
                    n <= Len(Batches(p)), n <= Len(Batches(q)),
                    NEW i \in Range(Batches(p)[n]), NEW j \in Range(Batches(q)[n])
             PROVE  ~(answered[i]["success"] > 0 /\ answered[j]["error"] > 0)
  BY DEF RoundsAgree
<1>1. PICK r \in World : Primary(r) /\ ReplicaId(r) = p
  BY Teams
<1>2. PICK s \in World : Primary(s) /\ ReplicaId(s) = q
  BY Teams
<1>3. n \in 1 .. NumLocalBatches(r) /\ n <= NumLocalBatches(s)
  <2>1. Len(Batches(p)) \in Nat /\ globalMax \in Nat
    BY BatchesDivide DEF RInv, RankTypeOK, BatchSeqs
  <2> QED BY <1>1, <1>2, <2>1 DEF NumLocalBatches
<1> QED BY <1>1, <1>2, <1>3 DEF TellInv, Alike

\* A batch is reported by the first rank of its replica when that rank leaves the batch
\* behind, as a success or an error on all replicas alike, and by nobody else.
THEOREM ReplicasTell == ReplicaSpec => [](RInv /\ TellInv)
<1>1. ReplicaInit => RInv /\ TellInv
  BY InitRInv, InitTells
<1>2. RInv /\ TellInv /\ [ReplicaNext]_replicaVars => (RInv /\ TellInv)'
  BY NextRInv, NextTells
<1> QED BY <1>1, <1>2, PTL DEF ReplicaSpec

\* No sample is reported twice, and when all ranks have ended none is missing.
THEOREM SamplesAnsweredOnce == ReplicaSpec => []AnsweredOnce
BY ReplicasTell, TellsOnce, PTL

\* Samples generated side by side are all reported as successes or all as errors.
THEOREM RoundsAgreeAlways == ReplicaSpec => []RoundsAgree
BY ReplicasTell, TellsAlike, PTL
=============================================================================
