--------------------------- MODULE Packing_proofs ---------------------------
(***************************************************************************)
(* Theorems about the packing loaders: JointPacking, for every number of   *)
(* datasets, all ratios, limits, budgets and lengths, and PoolPacking, for *)
(* every size of the pool, every budget and every set of lengths and       *)
(* modalities.                                                             *)
(***************************************************************************)
EXTENDS MCDataloaders, Division_proofs, TLAPS

(***************************************************************************)
(* Sequences                                                               *)
(***************************************************************************)

\* The first element, and those behind it.
LEMMA HeadTail ==
    ASSUME NEW S, NEW s \in Seq(S), Len(s) >= 1
    PROVE  /\ Head(s) = s[1] /\ Head(s) \in S
           /\ Tail(s) \in Seq(S) /\ Len(Tail(s)) = Len(s) - 1
           /\ \A i \in 1 .. Len(s) - 1 : Tail(s)[i] = s[i + 1]
  OBVIOUS

\* An element is put at the end.
LEMMA AppendTo ==
    ASSUME NEW S, NEW s \in Seq(S), NEW e \in S
    PROVE  /\ Append(s, e) \in Seq(S) /\ Len(Append(s, e)) = Len(s) + 1
           /\ Append(s, e)[Len(s) + 1] = e
           /\ \A i \in 1 .. Len(s) : Append(s, e)[i] = s[i]
  OBVIOUS

\* Two sequences, one behind the other.
LEMMA Joined ==
    ASSUME NEW S, NEW s \in Seq(S), NEW t \in Seq(S)
    PROVE  s \o t \in Seq(S) /\ Len(s \o t) = Len(s) + Len(t)
  OBVIOUS

\* What is left when the i-th element is taken out is in the same order.
LEMMA Removed ==
    ASSUME NEW S, NEW s \in Seq(S), NEW i \in 1 .. Len(s)
    PROVE  /\ RemoveAt(s, i) \in Seq(S) /\ Len(RemoveAt(s, i)) = Len(s) - 1
           /\ \A j \in 1 .. Len(s) - 1 : RemoveAt(s, i)[j] = IF j < i THEN s[j] ELSE s[j + 1]
<1> DEFINE front == SubSeq(s, 1, i - 1)
           back  == SubSeq(s, i + 1, Len(s))
<1>1. front \in Seq(S) /\ Len(front) = i - 1 /\ \A j \in 1 .. i - 1 : front[j] = s[j]
  OBVIOUS
<1>2. /\ back \in Seq(S) /\ Len(back) = Len(s) - i
      /\ \A j \in 1 .. Len(s) - i : back[j] = s[j + i]
  OBVIOUS
<1> HIDE DEF front, back
<1>3. RemoveAt(s, i) = front \o back
  BY DEF RemoveAt, front, back
<1>4. front \o back \in Seq(S) /\ Len(front \o back) = Len(s) - 1
  <2>1. front \o back \in Seq(S) /\ Len(front \o back) = Len(front) + Len(back)
    BY <1>1, <1>2, Joined
  <2>2. Len(front) + Len(back) = Len(s) - 1
    BY <1>1, <1>2
  <2> QED BY <2>1, <2>2
<1>5. \A j \in 1 .. Len(s) - 1 :
         (front \o back)[j] = IF j <= Len(front) THEN front[j] ELSE back[j - Len(front)]
  BY <1>1, <1>2
<1>6. \A j \in 1 .. Len(s) - 1 : (front \o back)[j] = IF j < i THEN s[j] ELSE s[j + 1]
  BY <1>1, <1>2, <1>5
<1> QED
  BY <1>3, <1>4, <1>6

\* Sequence t is s without its i-th element.
OneOut(s, t, i) ==
    /\ i \in 1 .. Len(s) /\ Len(t) = Len(s) - 1
    /\ \A j \in 1 .. Len(s) - 1 : t[j] = IF j < i THEN s[j] ELSE s[j + 1]

\* Its number is the only one missing.
LEMMA NumbersOut ==
    ASSUME NEW S, NEW s \in Seq(S), NEW t \in Seq(S), NEW i, OneOut(s, t, i)
    PROVE  /\ Numbers(s) = Numbers(t) \cup {s[i].n}
           /\ Distinct(s) <=> (Distinct(t) /\ s[i].n \notin Numbers(t))
<1>1. DOMAIN s = 1 .. Len(s) /\ DOMAIN t = 1 .. Len(s) - 1 /\ Len(s) \in Nat /\ i \in 1 .. Len(s)
  BY DEF OneOut
<1> DEFINE up(j)   == IF j < i THEN j ELSE j + 1
           down(j) == IF j < i THEN j ELSE j - 1
<1>2. \A j \in DOMAIN t : up(j) \in DOMAIN s /\ up(j) # i /\ t[j] = s[up(j)]
  BY <1>1 DEF OneOut
<1>3. \A j \in DOMAIN s : j # i => down(j) \in DOMAIN t /\ s[j] = t[down(j)]
  BY <1>1 DEF OneOut
<1>4. \A j, k \in DOMAIN t : j # k => up(j) # up(k)
  BY <1>1
<1>5. \A j, k \in DOMAIN s : (j # i /\ k # i /\ j # k) => down(j) # down(k)
  BY <1>1
<1> HIDE DEF up, down
<1>6. Numbers(s) = Numbers(t) \cup {s[i].n}
  <2>1. \A x \in Numbers(s) : x \in Numbers(t) \cup {s[i].n}
    BY <1>3 DEF Numbers
  <2>2. \A x \in Numbers(t) \cup {s[i].n} : x \in Numbers(s)
    BY <1>1, <1>2 DEF Numbers
  <2> QED
    BY <2>1, <2>2
<1>7. Distinct(s) => Distinct(t)
  BY <1>1, <1>2, <1>4 DEF Distinct
<1>8. Distinct(s) => s[i].n \notin Numbers(t)
  BY <1>1, <1>2 DEF Distinct, Numbers
<1>9. Distinct(t) /\ s[i].n \notin Numbers(t) => Distinct(s)
  BY <1>1, <1>3, <1>5 DEF Distinct, Numbers
<1> QED
  BY <1>6, <1>7, <1>8, <1>9

\* Sequence t behind sequence s.
LEMMA Concatenated ==
    ASSUME NEW S, NEW s \in Seq(S), NEW t \in Seq(S)
    PROVE  /\ s \o t \in Seq(S) /\ Len(s \o t) = Len(s) + Len(t)
           /\ \A i \in 1 .. Len(s) : (s \o t)[i] = s[i]
           /\ \A i \in 1 .. Len(t) : (s \o t)[Len(s) + i] = t[i]
           /\ \A i \in DOMAIN (s \o t) :
                 \/ i \in DOMAIN s
                 \/ i - Len(s) \in DOMAIN t /\ (s \o t)[i] = t[i - Len(s)]
  OBVIOUS

\* Its numbers are those of both.
LEMMA NumbersConcatenated ==
    ASSUME NEW S, NEW s \in Seq(S), NEW t \in Seq(S)
    PROVE  Numbers(s \o t) = Numbers(s) \cup Numbers(t)
<1> DEFINE st == s \o t
<1>1. /\ DOMAIN s = 1 .. Len(s) /\ DOMAIN t = 1 .. Len(t) /\ DOMAIN st = 1 .. Len(s) + Len(t)
      /\ Len(s) \in Nat /\ Len(t) \in Nat
  OBVIOUS
<1>2. /\ \A i \in DOMAIN s : i \in DOMAIN st /\ st[i] = s[i]
      /\ \A i \in DOMAIN t : Len(s) + i \in DOMAIN st /\ st[Len(s) + i] = t[i]
      /\ \A i \in DOMAIN st : i \in DOMAIN s \/ (i - Len(s) \in DOMAIN t /\ st[i] = t[i - Len(s)])
  BY <1>1
<1> HIDE DEF st
<1>3. \A x \in Numbers(st) : x \in Numbers(s) \cup Numbers(t)
  BY <1>2 DEF Numbers
<1>4. \A x \in Numbers(s) \cup Numbers(t) : x \in Numbers(st)
  BY <1>2 DEF Numbers
<1> QED
  BY <1>3, <1>4 DEF st

\* Two increasing sequences make one if all of the first is below all of the second.
LEMMA IncreasingConcatenated ==
    ASSUME NEW S, NEW s \in Seq(S), NEW t \in Seq(S), Increasing(s), Increasing(t),
           \A i \in DOMAIN s, j \in DOMAIN t : s[i].n < t[j].n
    PROVE  Increasing(s \o t)
<1> DEFINE st == s \o t
<1>1. /\ DOMAIN s = 1 .. Len(s) /\ DOMAIN t = 1 .. Len(t) /\ DOMAIN st = 1 .. Len(s) + Len(t)
      /\ Len(s) \in Nat /\ Len(t) \in Nat
  OBVIOUS
<1>2. /\ \A i \in 1 .. Len(s) : st[i] = s[i]
      /\ \A i \in 1 .. Len(s) + Len(t) : i > Len(s) => st[i] = t[i - Len(s)]
  BY <1>1
<1> HIDE DEF st
<1>3. ASSUME NEW i \in DOMAIN st, NEW j \in DOMAIN st, i < j PROVE st[i].n < st[j].n
  <2>1. CASE j <= Len(s)
    BY <2>1, <1>1, <1>2, <1>3 DEF Increasing
  <2>2. CASE i > Len(s)
    <3>1. i - Len(s) \in DOMAIN t /\ j - Len(s) \in DOMAIN t /\ i - Len(s) < j - Len(s)
      BY <2>2, <1>1, <1>3
    <3> QED
      BY <3>1, <2>2, <1>1, <1>2, <1>3 DEF Increasing
  <2>3. CASE i <= Len(s) /\ j > Len(s)
    <3>1. i \in DOMAIN s /\ j - Len(s) \in DOMAIN t
      BY <2>3, <1>1
    <3> QED
      BY <3>1, <2>3, <1>1, <1>2
  <2> QED
    BY <2>1, <2>2, <2>3, <1>1
<1> QED
  BY <1>3 DEF Increasing, st

\* Increasing numbers are different.
LEMMA IncreasingDistinct ==
    ASSUME NEW S, NEW s \in Seq(S), \A i \in DOMAIN s : s[i].n \in Int, Increasing(s)
    PROVE  Distinct(s)
<1>1. \A i, j \in DOMAIN s : i # j => (i < j \/ j < i)
  OBVIOUS
<1> QED
  BY <1>1 DEF Increasing, Distinct

\* A sample put at the end adds its number, and keeps the order if it is the latest.
LEMMA Appended ==
    ASSUME NEW S, NEW s \in Seq(S), NEW e \in S
    PROVE  /\ Numbers(Append(s, e)) = Numbers(s) \cup {e.n}
           /\ Increasing(s) /\ (\A i \in DOMAIN s : s[i].n < e.n) => Increasing(Append(s, e))
<1> DEFINE se == Append(s, e)
<1>1. /\ se \in Seq(S) /\ Len(se) = Len(s) + 1 /\ se[Len(s) + 1] = e /\ Len(s) \in Nat
      /\ \A i \in 1 .. Len(s) : se[i] = s[i]
      /\ DOMAIN s = 1 .. Len(s) /\ DOMAIN se = 1 .. Len(s) + 1
  BY AppendTo
<1> HIDE DEF se
<1>2. OneOut(se, s, Len(s) + 1)
  BY <1>1 DEF OneOut
<1>3. Numbers(se) = Numbers(s) \cup {e.n}
  <2>1. Numbers(se) = Numbers(s) \cup {se[Len(s) + 1].n}
    BY <1>1, <1>2, NumbersOut
  <2> QED
    BY <2>1, <1>1
<1>4. ASSUME Increasing(s), \A i \in DOMAIN s : s[i].n < e.n
      PROVE  Increasing(se)
  BY <1>1, <1>4 DEF Increasing
<1> QED
  BY <1>3, <1>4 DEF se

-----------------------------------------------------------------------------
(***************************************************************************)
(* JointPacking                                                            *)
(***************************************************************************)

Working == pc \in {"pack", "finish"}

(***************************************************************************)
(* The inductive invariant                                                 *)
(***************************************************************************)

\* Nothing is put aside between batches, or before a batch has its first sample.
Aside ==
    /\ ~Working => skipped = <<>>
    /\ pc = "prewarm" => batch = <<>> /\ lookahead = 0
    /\ batch = <<>> => skipped = <<>>
    /\ Working => lookahead = Len(skipped)

\* Samples stay with their dataset.
Placed ==
    /\ \A d \in Datasets : \A i \in DOMAIN buffers[d] : buffers[d][i].ds = d
    /\ \A i \in DOMAIN skipped : skipped[i].ds = index
    /\ Working => \A i \in DOMAIN batch : batch[i].ds = index

\* What is put aside, and what is packed, is older than what is buffered.
Ordered ==
    /\ \A d \in Datasets : Increasing(buffers[d])
    /\ Increasing(skipped) /\ Increasing(batch)
    /\ \A i \in DOMAIN skipped, j \in DOMAIN buffers[index] :
          skipped[i].n < buffers[index][j].n
    /\ Working => \A i \in DOMAIN batch, j \in DOMAIN buffers[index] :
          batch[i].n < buffers[index][j].n
    /\ pc \in {"pack", "finish", "yielded"} /\ batch # <<>> =>
          /\ \A i \in DOMAIN skipped : batch[1].n < skipped[i].n
          /\ \A j \in DOMAIN buffers[index] : batch[1].n < buffers[index][j].n

\* The places a buffered sample of dataset d is behind, of this batch.
Behind(d) == IF d = index /\ Working /\ batch # <<>> THEN Len(skipped) + 1 ELSE 0

\* Each time a sample was put aside it had moved up by one at least, since the
\* batch took its first sample from in front of it.
MovedUp ==
    /\ \A d \in Datasets : \A i \in DOMAIN buffers[d] :
          buffers[d][i].skips >= 1 =>
              buffers[d][i].skips + i + Behind(d) <= LookaheadLimits[d] + 1
    /\ \A i \in DOMAIN skipped : skipped[i].skips + i <= LookaheadLimits[index] + 1

SetAside(d) == IF d = index THEN Numbers(skipped) ELSE {}
Packed(d)   == IF d = index /\ Working THEN Numbers(batch) ELSE {}
Out(d)      == {s.n : s \in {t \in delivered \cup dropped : t.ds = d}}

\* The samples drawn of a dataset are in one of four places.
Kept(d) ==
    /\ Numbers(buffers[d]) \cap (SetAside(d) \cup Packed(d) \cup Out(d)) = {}
    /\ SetAside(d) \cap (Packed(d) \cup Out(d)) = {}
    /\ Packed(d) \cap Out(d) = {}
    /\ Numbers(buffers[d]) \cup SetAside(d) \cup Packed(d) \cup Out(d)
          = 1 .. CollateSize * drawn[d]
AllKept == \A d \in Datasets : Kept(d)

JointInv == TypeOK /\ Aside /\ Placed /\ Ordered /\ MovedUp /\ AllKept
-----------------------------------------------------------------------------
(***************************************************************************)
(* Lemmas                                                                  *)
(***************************************************************************)

LEMMA DatasetNumbers ==
    /\ Datasets = 1 .. Len(Ratios) /\ Len(Ratios) \in Nat /\ 1 \in Datasets
    /\ \A d \in Datasets : LookaheadLimits[d] \in Nat
<1>1. Datasets = 1 .. Len(Ratios) /\ Len(Ratios) \in Nat /\ 1 \in Datasets
  BY PackingAssumption DEF Datasets
<1>2. \A d \in Datasets : LookaheadLimits[d] \in Nat
  BY PackingAssumption DEF Datasets
<1> QED
  BY <1>1, <1>2

LEMMA SampleFields ==
    \A s \in Sample : /\ s.ds \in Datasets /\ s.n \in Nat /\ s.skips \in Nat
                      /\ s.tokens \in Nat
<1>1. Tokens \subseteq Nat
  BY PackingAssumption
<1>2. \A s \in Sample : s.ds \in Datasets /\ s.n \in Nat /\ s.skips \in Nat /\ s.tokens \in Tokens
  BY DEF Sample
<1> QED
  BY <1>1, <1>2

\* A sample that is put aside once more.
LEMMA AsideSample ==
    ASSUME NEW s \in Sample, s.skips \in Nat
    PROVE  LET a == [s EXCEPT !.skips = @ + 1]
           IN  /\ a \in Sample
               /\ a.ds = s.ds /\ a.n = s.n /\ a.skips = s.skips + 1
<1> DEFINE numbers == 1 .. CollateSize * MaxSize
<1>1. Sample = [ds : Datasets, n : numbers, tokens : Tokens, skips : Nat]
  BY DEF Sample
<1> HIDE DEF numbers
<1> QED
  BY <1>1

\* A buffer is empty when it is created.
LEMMA JointInitInv == Init => JointInv
<1> SUFFICES ASSUME Init PROVE JointInv
  OBVIOUS
<1> USE DEF Init
<1>1. TypeOK
  <2>1. MaxSize \in Nat /\ 0 \in 0 .. MaxSize /\ 0 \in 0 .. LookaheadLimits[index]
    BY PackingAssumption, DatasetNumbers
  <2>2. drawn \in [Datasets -> 0 .. MaxSize] /\ buffers \in [Datasets -> Seq(Sample)]
    BY <2>1
  <2> QED
    BY <2>1, <2>2, DatasetNumbers DEF TypeOK, PackStates
<1>2. Aside /\ Placed
  BY DEF Aside, Placed, Working
<1>3. Ordered /\ MovedUp
  BY DatasetNumbers DEF Ordered, MovedUp, Increasing, Working
<1>4. ASSUME NEW d \in Datasets PROVE Kept(d)
  <2>1. CollateSize * drawn[d] = 0
    BY PackingAssumption
  <2>2. Numbers(buffers[d]) = {} /\ SetAside(d) = {} /\ Packed(d) = {} /\ Out(d) = {}
    BY DEF Numbers, SetAside, Packed, Out, Working
  <2>3. 1 .. CollateSize * drawn[d] = {}
    BY <2>1
  <2> QED
    BY <2>2, <2>3 DEF Kept
<1> QED
  BY <1>1, <1>2, <1>3, <1>4 DEF JointInv, AllKept

\* What a collated batch brings: the next numbers of the dataset, in order.
LEMMA Drawn ==
    ASSUME TypeOK, NEW d \in Datasets, Draw(d)
    PROVE  \E c \in Seq(Sample) :
              /\ Len(c) = CollateSize
              /\ \A i \in DOMAIN c : c[i].ds = d /\ c[i].skips = 0
              /\ \A i \in DOMAIN c : c[i].n = CollateSize * drawn[d] + i
              /\ buffers' = [buffers EXCEPT ![d] = @ \o c]
              /\ drawn' = [drawn EXCEPT ![d] = @ + 1]
<1>1. PICK ts \in [1 .. CollateSize -> Tokens] :
         buffers' = [buffers EXCEPT ![d] = @ \o Collated(d, ts)]
  BY DEF Draw
<1> DEFINE c == Collated(d, ts)
<1>2. /\ drawn[d] \in Nat /\ size[d] \in 0 .. MaxSize /\ drawn[d] < size[d]
      /\ CollateSize \in Nat \ {0} /\ MaxSize \in Nat
  BY PackingAssumption DEF TypeOK, Draw
<1>3. \A k, m, j, n \in Nat : k < m /\ j <= n => n * k + j <= n * m
  <2>1. SUFFICES ASSUME NEW k \in Nat, NEW m \in Nat, NEW j \in Nat, NEW n \in Nat,
                        k < m, j <= n
                 PROVE  n * k + j <= n * m
    OBVIOUS
  <2>2. PICK e \in Nat : m = k + 1 + e
    <3>1. m - k - 1 \in Nat /\ m = k + 1 + (m - k - 1)
      BY <2>1
    <3> QED
      BY <3>1
  <2>3. n * m = n * k + n + n * e
    BY <2>2
  <2>4. n * e \in Nat /\ n * k \in Nat
    OBVIOUS
  <2> QED
    BY <2>1, <2>3, <2>4
<1>4. \A j \in 1 .. CollateSize : CollateSize * drawn[d] + j \in 1 .. CollateSize * MaxSize
  <2> SUFFICES ASSUME NEW j \in 1 .. CollateSize
               PROVE  CollateSize * drawn[d] + j \in 1 .. CollateSize * MaxSize
    OBVIOUS
  <2>1. /\ CollateSize * drawn[d] \in Nat /\ CollateSize * MaxSize \in Nat
        /\ j \in Nat /\ j <= CollateSize /\ drawn[d] < MaxSize
    BY <1>2
  <2>2. CollateSize * drawn[d] + j <= CollateSize * MaxSize
    BY <1>2, <1>3, <2>1
  <2> HIDE DEF TypeOK
  <2> QED
    BY <2>1, <2>2
<1>5. c \in [1 .. CollateSize -> Sample]
  BY <1>4, PackingAssumption DEF Collated, Sample
<1>6. c \in Seq(Sample) /\ Len(c) = CollateSize
  BY <1>2, <1>5
<1>7. \A i \in DOMAIN c : /\ c[i].ds = d /\ c[i].skips = 0
                          /\ c[i].n = CollateSize * drawn[d] + i
  BY DEF Collated
<1> HIDE DEF c
<1> QED
  BY <1>1, <1>6, <1>7 DEF c, Draw

\* What drawing does to the buffers: all that comes is behind, and later.
LEMMA DrawnBuffers ==
    ASSUME JointInv, NEW d \in Datasets, Draw(d)
    PROVE  /\ drawn' \in [Datasets -> 0 .. MaxSize]
           /\ buffers' \in [Datasets -> Seq(Sample)]
           /\ \A e \in Datasets : e # d => buffers'[e] = buffers[e] /\ drawn'[e] = drawn[e]
           /\ \A i \in DOMAIN buffers'[d] :
                 \/ i \in DOMAIN buffers[d] /\ buffers'[d][i] = buffers[d][i]
                 \/ /\ buffers'[d][i].ds = d /\ buffers'[d][i].skips = 0
                    /\ CollateSize * drawn[d] < buffers'[d][i].n
           /\ Increasing(buffers'[d])
           /\ \E new : /\ Numbers(buffers'[d]) = Numbers(buffers[d]) \cup new
                       /\ new \cap 1 .. CollateSize * drawn[d] = {}
                       /\ 1 .. CollateSize * drawn'[d] = (1 .. CollateSize * drawn[d]) \cup new
<1>1. PICK c \in Seq(Sample) :
         /\ Len(c) = CollateSize
         /\ \A i \in DOMAIN c : c[i].ds = d /\ c[i].skips = 0
         /\ \A i \in DOMAIN c : c[i].n = CollateSize * drawn[d] + i
         /\ buffers' = [buffers EXCEPT ![d] = @ \o c]
         /\ drawn' = [drawn EXCEPT ![d] = @ + 1]
  BY Drawn DEF JointInv
<1> DEFINE b == buffers[d]
           k == CollateSize * drawn[d]
<1>2. /\ buffers \in [Datasets -> Seq(Sample)] /\ b \in Seq(Sample)
      /\ drawn \in [Datasets -> 0 .. MaxSize] /\ drawn[d] \in Nat /\ drawn[d] + 1 \in 0 .. MaxSize
      /\ CollateSize \in Nat \ {0}
  <2>1. /\ buffers \in [Datasets -> Seq(Sample)] /\ drawn \in [Datasets -> 0 .. MaxSize]
        /\ size \in [Datasets -> 0 .. MaxSize] /\ drawn[d] < size[d]
    BY DEF JointInv, TypeOK, Draw
  <2>2. drawn[d] \in 0 .. MaxSize /\ size[d] \in 0 .. MaxSize
    BY <2>1
  <2>3. drawn[d] \in Nat /\ drawn[d] + 1 \in 0 .. MaxSize
    BY <2>1, <2>2, PackingAssumption
  <2> QED
    BY <2>1, <2>3, PackingAssumption
<1>3. k \in Nat /\ CollateSize * (drawn[d] + 1) = k + CollateSize
  <2>1. \A m, n \in Nat : m * n \in Nat /\ m * (n + 1) = m * n + m
    OBVIOUS
  <2>2. CollateSize \in Nat /\ drawn[d] \in Nat
    BY <1>2
  <2> QED
    BY <2>1, <2>2
<1>4. buffers'[d] = b \o c /\ drawn'[d] = drawn[d] + 1
  BY <1>1, <1>2
<1>5. /\ b \o c \in Seq(Sample)
      /\ \A i \in DOMAIN (b \o c) :
            \/ i \in DOMAIN b /\ (b \o c)[i] = b[i]
            \/ i - Len(b) \in DOMAIN c /\ (b \o c)[i] = c[i - Len(b)]
  <2>1. \A i \in 1 .. Len(b) : (b \o c)[i] = b[i]
    BY <1>1, <1>2
  <2>2. DOMAIN b = 1 .. Len(b)
    BY <1>2
  <2> QED
    BY <2>1, <2>2, <1>1, <1>2, Concatenated
<1>6. DOMAIN c = 1 .. CollateSize
  BY <1>1
<1>7. \A i \in DOMAIN b : b[i].n \in 1 .. k
  <2>1. Numbers(b) \subseteq 1 .. k
    BY DEF JointInv, AllKept, Kept
  <2> QED
    BY <2>1 DEF Numbers
<1> HIDE DEF b, k
<1>8. \A i \in DOMAIN c : c[i].n = k + i
  BY <1>1 DEF k
<1>9. Increasing(b) /\ Increasing(c)
  <2>1. Increasing(b)
    BY DEF JointInv, Ordered, b
  <2>2. Increasing(c)
    BY <1>2, <1>3, <1>6, <1>8 DEF Increasing
  <2> QED
    BY <2>1, <2>2
<1>10. \A i \in DOMAIN b, j \in DOMAIN c : b[i].n < c[j].n
  BY <1>2, <1>3, <1>6, <1>7, <1>8
<1>11. Increasing(b \o c)
  BY <1>1, <1>2, <1>9, <1>10, IncreasingConcatenated
<1>12. Numbers(b \o c) = Numbers(b) \cup Numbers(c)
  BY <1>1, <1>2, NumbersConcatenated
<1>13. Numbers(c) = k + 1 .. k + CollateSize
  <2>1. \A x \in Numbers(c) : x \in k + 1 .. k + CollateSize
    BY <1>2, <1>3, <1>6, <1>8 DEF Numbers
  <2>2. \A x \in k + 1 .. k + CollateSize : x - k \in DOMAIN c /\ c[x - k].n = x
    <3> SUFFICES ASSUME NEW x \in k + 1 .. k + CollateSize
                 PROVE  x - k \in DOMAIN c /\ c[x - k].n = x
      OBVIOUS
    <3>1. x - k \in 1 .. CollateSize /\ k + (x - k) = x
      BY <1>2, <1>3
    <3> QED
      BY <3>1, <1>6, <1>8
  <2>3. \A x \in k + 1 .. k + CollateSize : x \in Numbers(c)
    BY <2>2 DEF Numbers
  <2> QED
    BY <2>1, <2>3
<1>14. /\ Numbers(c) \cap 1 .. k = {}
       /\ 1 .. CollateSize * (drawn[d] + 1) = (1 .. k) \cup Numbers(c)
  BY <1>2, <1>3, <1>13
<1>15. \A i \in DOMAIN (b \o c) :
          \/ i \in DOMAIN b /\ (b \o c)[i] = b[i]
          \/ (b \o c)[i].ds = d /\ (b \o c)[i].skips = 0 /\ k < (b \o c)[i].n
  <2> SUFFICES ASSUME NEW i \in DOMAIN (b \o c), i - Len(b) \in DOMAIN c,
                      (b \o c)[i] = c[i - Len(b)]
               PROVE  (b \o c)[i].ds = d /\ (b \o c)[i].skips = 0 /\ k < (b \o c)[i].n
    BY <1>5
  <2>1. \A j \in DOMAIN c : c[j].ds = d /\ c[j].skips = 0
    BY <1>1
  <2>2. \A j \in DOMAIN c : k < c[j].n
    BY <1>2, <1>3, <1>6, <1>8
  <2> QED
    BY <2>1, <2>2
<1>16. drawn' \in [Datasets -> 0 .. MaxSize] /\ buffers' \in [Datasets -> Seq(Sample)]
  BY <1>1, <1>2, <1>5 DEF b
<1>17. \A e \in Datasets : e # d => buffers'[e] = buffers[e] /\ drawn'[e] = drawn[e]
  BY <1>1, <1>2
<1> QED
  <2>1. Increasing(buffers'[d])
    BY <1>4, <1>11
  <2>2. /\ Numbers(buffers'[d]) = Numbers(buffers[d]) \cup Numbers(c)
        /\ Numbers(c) \cap 1 .. CollateSize * drawn[d] = {}
        /\ 1 .. CollateSize * drawn'[d] = (1 .. CollateSize * drawn[d]) \cup Numbers(c)
    BY <1>4, <1>12, <1>14 DEF b, k
  <2>3. \A i \in DOMAIN buffers'[d] :
           \/ i \in DOMAIN buffers[d] /\ buffers'[d][i] = buffers[d][i]
           \/ /\ buffers'[d][i].ds = d /\ buffers'[d][i].skips = 0
              /\ CollateSize * drawn[d] < buffers'[d][i].n
    BY <1>4, <1>15 DEF b, k
  <2> QED
    BY <1>16, <1>17, <2>1, <2>2, <2>3

\* What taking the candidate does to the buffer: it was the oldest there.
LEMMA Taken ==
    ASSUME JointInv, TakeCandidate
    PROVE  /\ buffers' \in [Datasets -> Seq(Sample)]
           /\ \A e \in Datasets : e # index => buffers'[e] = buffers[e]
           /\ buffers[index] \in Seq(Sample) /\ Len(buffers[index]) >= 1
           /\ Candidate \in Sample /\ Candidate = buffers[index][1] /\ Candidate.ds = index
           /\ Len(buffers'[index]) = Len(buffers[index]) - 1
           /\ \A i \in DOMAIN buffers'[index] :
                 i + 1 \in DOMAIN buffers[index] /\ buffers'[index][i] = buffers[index][i + 1]
           /\ Increasing(buffers'[index])
           /\ \A i \in DOMAIN buffers'[index] : Candidate.n < buffers'[index][i].n
           /\ Numbers(buffers[index]) = Numbers(buffers'[index]) \cup {Candidate.n}
           /\ Candidate.n \notin Numbers(buffers'[index])
<1> DEFINE b == buffers[index]
           t == buffers'[index]
<1>1. /\ buffers \in [Datasets -> Seq(Sample)] /\ index \in Datasets /\ b \in Seq(Sample)
      /\ b # <<>> /\ buffers' = [buffers EXCEPT ![index] = Tail(@)]
  BY DEF JointInv, TypeOK, TakeCandidate
<1>2. Len(b) >= 1
  BY <1>1
<1>3. t = Tail(b)
  BY <1>1
<1>4. /\ Candidate = b[1] /\ Candidate \in Sample
      /\ t \in Seq(Sample) /\ Len(t) = Len(b) - 1
      /\ \A i \in 1 .. Len(b) - 1 : t[i] = b[i + 1]
  BY <1>1, <1>2, <1>3, HeadTail DEF Candidate
<1>5. buffers' \in [Datasets -> Seq(Sample)] /\ \A e \in Datasets : e # index => buffers'[e] = buffers[e]
  BY <1>1, <1>3, <1>4
<1>6. Candidate.ds = index
  BY <1>1, <1>2, <1>4 DEF JointInv, Placed
<1>7. Increasing(b)
  BY <1>1 DEF JointInv, Ordered
<1> HIDE DEF b, t
<1>8. \A i \in DOMAIN t : i + 1 \in DOMAIN b /\ t[i] = b[i + 1]
  BY <1>1, <1>2, <1>4
<1>9. Increasing(t)
  <2>1. \A i, j \in DOMAIN t : i < j => i + 1 < j + 1
    BY <1>4
  <2> QED
    BY <2>1, <1>7, <1>8 DEF Increasing
<1>10. \A i \in DOMAIN t : b[1].n < t[i].n
  <2>1. \A i \in DOMAIN t : 1 < i + 1
    BY <1>4
  <2>2. 1 \in DOMAIN b
    BY <1>1, <1>2
  <2> QED
    BY <2>1, <2>2, <1>7, <1>8 DEF Increasing
<1>11. OneOut(b, t, 1)
  BY <1>1, <1>2, <1>4 DEF OneOut
<1>12. Distinct(b)
  <2>1. \A i \in DOMAIN b : b[i].n \in Int
    BY <1>1, SampleFields
  <2> QED
    BY <2>1, <1>1, <1>7, IncreasingDistinct
<1>13. Numbers(b) = Numbers(t) \cup {b[1].n} /\ b[1].n \notin Numbers(t)
  BY <1>1, <1>4, <1>11, <1>12, NumbersOut
<1> QED
  BY <1>1, <1>2, <1>4, <1>5, <1>6, <1>8, <1>9, <1>10, <1>13 DEF b, t

\* Drawing keeps what the invariant says of the buffers.
LEMMA DrawKeeps ==
    ASSUME JointInv, NEW d \in Datasets, Draw(d), NEW e \in Datasets
    PROVE  /\ \A i \in DOMAIN buffers'[e] : buffers'[e][i].ds = e
           /\ Increasing(buffers'[e])
           /\ \A i \in DOMAIN buffers'[e] : buffers'[e][i].skips >= 1 =>
                 buffers'[e][i].skips + i + Behind(e) <= LookaheadLimits[e] + 1
           /\ Numbers(buffers'[e]) \cap (SetAside(e) \cup Packed(e) \cup Out(e)) = {}
           /\ Numbers(buffers'[e]) \cup SetAside(e) \cup Packed(e) \cup Out(e)
                 = 1 .. CollateSize * drawn'[e]
<1>1. /\ \A i \in DOMAIN buffers[e] : buffers[e][i].ds = e
      /\ Increasing(buffers[e])
      /\ \A i \in DOMAIN buffers[e] : buffers[e][i].skips >= 1 =>
            buffers[e][i].skips + i + Behind(e) <= LookaheadLimits[e] + 1
      /\ Kept(e)
  BY DEF JointInv, Placed, Ordered, MovedUp, AllKept
<1>2. CASE e # d
  <2>1. buffers'[e] = buffers[e] /\ drawn'[e] = drawn[e]
    BY <1>2, DrawnBuffers
  <2> QED
    BY <1>1, <2>1 DEF Kept
<1>3. CASE e = d
  <2>1. /\ \A i \in DOMAIN buffers'[e] :
              \/ i \in DOMAIN buffers[e] /\ buffers'[e][i] = buffers[e][i]
              \/ buffers'[e][i].ds = e /\ buffers'[e][i].skips = 0
        /\ Increasing(buffers'[e])
    BY <1>3, DrawnBuffers
  <2>2. PICK new : /\ Numbers(buffers'[e]) = Numbers(buffers[e]) \cup new
                   /\ new \cap 1 .. CollateSize * drawn[e] = {}
                   /\ 1 .. CollateSize * drawn'[e] = (1 .. CollateSize * drawn[e]) \cup new
    BY <1>3, DrawnBuffers
  <2>3. /\ Numbers(buffers'[e]) \cap (SetAside(e) \cup Packed(e) \cup Out(e)) = {}
        /\ Numbers(buffers'[e]) \cup SetAside(e) \cup Packed(e) \cup Out(e)
              = 1 .. CollateSize * drawn'[e]
    BY <1>1, <2>2 DEF Kept
  <2>4. \A i \in DOMAIN buffers'[e] : buffers'[e][i].ds = e
    BY <1>1, <2>1
  <2>5. \A i \in DOMAIN buffers'[e] : buffers'[e][i].skips >= 1 =>
           buffers'[e][i].skips + i + Behind(e) <= LookaheadLimits[e] + 1
    BY <1>1, <2>1
  <2> QED
    BY <2>1, <2>3, <2>4, <2>5
<1> QED
  BY <1>2, <1>3

\* The samples behind the candidate move up by one.
LEMMA MovesUp ==
    ASSUME JointInv, TakeCandidate, NEW e \in Datasets, NEW i \in DOMAIN buffers'[e],
           buffers'[e][i].skips >= 1
    PROVE  /\ i \in Nat /\ buffers'[e][i].skips \in Nat
           /\ IF e = index
              THEN buffers'[e][i].skips + i + Behind(index) <= LookaheadLimits[index]
              ELSE buffers'[e][i].skips + i <= LookaheadLimits[e] + 1
<1>1. /\ i \in Nat /\ buffers'[e] \in Seq(Sample) /\ buffers'[e][i] \in Sample
      /\ index \in Datasets /\ LookaheadLimits[e] \in Nat
  <2>1. buffers' \in [Datasets -> Seq(Sample)] /\ index \in Datasets
    BY Taken DEF JointInv, TypeOK
  <2>2. buffers'[e] \in Seq(Sample)
    BY <2>1
  <2>3. i \in Nat /\ buffers'[e][i] \in Sample
    BY <2>2
  <2> QED
    BY <2>1, <2>2, <2>3, DatasetNumbers
<1>2. buffers'[e][i].skips \in Nat
  BY <1>1, SampleFields
<1>3. CASE e # index
  <2>1. buffers'[e] = buffers[e] /\ Behind(e) = 0
    BY <1>3, Taken DEF Behind
  <2>2. buffers'[e][i].skips + i + 0 <= LookaheadLimits[e] + 1
    BY <2>1 DEF JointInv, MovedUp
  <2> QED
    BY <2>2, <1>1, <1>2, <1>3
<1>4. CASE e = index
  <2>1. i + 1 \in DOMAIN buffers[index] /\ buffers'[index][i] = buffers[index][i + 1]
    BY <1>4, Taken
  <2>2. buffers'[index][i].skips + (i + 1) + Behind(index) <= LookaheadLimits[index] + 1
    BY <2>1, <1>1, <1>4 DEF JointInv, MovedUp
  <2>3. Behind(index) \in Nat
    BY DEF JointInv, TypeOK, Behind
  <2> QED
    BY <2>2, <2>3, <1>1, <1>2, <1>4
<1> QED
  BY <1>1, <1>2, <1>3, <1>4
-----------------------------------------------------------------------------
(***************************************************************************)
(* The steps                                                               *)
(***************************************************************************)

\* A collated batch of every dataset is drawn before the first selection.
LEMMA PrewarmStep == JointInv /\ Prewarm => JointInv'
<1> SUFFICES ASSUME JointInv, Prewarm PROVE JointInv'
  OBVIOUS
<1>1. /\ pc = "prewarm" /\ pc' \in {"prewarm", "select"}
      /\ batch = <<>> /\ skipped = <<>> /\ lookahead = 0
      /\ UNCHANGED <<size, globalId, batch, length, skipped, lookahead, delivered, dropped>>
  BY DEF JointInv, Aside, Working, Prewarm, packVars
<1>2. ~Working /\ ~Working'
  BY <1>1 DEF Working
<1>3. index \in Datasets /\ index' \in Datasets
  <2>1. index \in 1 .. Len(Ratios)
    BY DatasetNumbers DEF JointInv, TypeOK
  <2>2. index' = 1 \/ (index # Len(Ratios) /\ index' = index + 1)
    BY DEF Prewarm
  <2> QED
    BY <2>1, <2>2, DatasetNumbers
<1>4. Draw(index) \/ UNCHANGED <<drawn, buffers>>
  BY DEF Prewarm
<1>5. /\ drawn' \in [Datasets -> 0 .. MaxSize]
      /\ buffers' \in [Datasets -> Seq(Sample)]
  <2>1. CASE Draw(index)
    BY <2>1, <1>3, DrawnBuffers
  <2>2. CASE UNCHANGED <<drawn, buffers>>
    BY <2>2 DEF JointInv, TypeOK
  <2> QED
    BY <2>1, <2>2, <1>4
<1>6. ASSUME NEW e \in Datasets
      PROVE  /\ \A i \in DOMAIN buffers'[e] : buffers'[e][i].ds = e
             /\ Increasing(buffers'[e])
             /\ \A i \in DOMAIN buffers'[e] : buffers'[e][i].skips >= 1 =>
                   buffers'[e][i].skips + i + Behind(e) <= LookaheadLimits[e] + 1
             /\ Numbers(buffers'[e]) \cap (SetAside(e) \cup Packed(e) \cup Out(e)) = {}
             /\ Numbers(buffers'[e]) \cup SetAside(e) \cup Packed(e) \cup Out(e)
                   = 1 .. CollateSize * drawn'[e]
  <2>1. CASE Draw(index)
    BY <2>1, <1>3, DrawKeeps
  <2>2. CASE UNCHANGED <<drawn, buffers>>
    BY <2>2 DEF JointInv, Placed, Ordered, MovedUp, AllKept, Kept
  <2> QED
    BY <2>1, <2>2, <1>4
<1>7. TypeOK'
  <2>1. 0 \in 0 .. LookaheadLimits[index']
    BY <1>3, DatasetNumbers
  <2>2. pc' \in PackStates
    BY <1>1 DEF PackStates
  <2> QED
    BY <1>1, <1>3, <1>5, <2>1, <2>2 DEF JointInv, TypeOK
<1>8. Aside'
  BY <1>1, <1>2 DEF Aside
<1>9. Placed'
  BY <1>1, <1>2, <1>6 DEF Placed
<1>10. Ordered'
  BY <1>1, <1>2, <1>6 DEF Ordered, Increasing
<1>11. MovedUp'
  <2>1. \A e \in Datasets : Behind(e) = 0 /\ Behind(e)' = 0
    BY <1>2 DEF Behind
  <2> QED
    BY <1>1, <1>6, <2>1 DEF MovedUp
<1>12. AllKept'
  <2> SUFFICES ASSUME NEW e \in Datasets PROVE Kept(e)'
    BY DEF AllKept
  <2>1. /\ SetAside(e) = {} /\ SetAside(e)' = {} /\ Packed(e) = {} /\ Packed(e)' = {}
        /\ Out(e)' = Out(e)
    BY <1>1, <1>2 DEF SetAside, Packed, Out, Numbers
  <2> QED
    BY <1>6, <2>1 DEF Kept
<1> QED
  BY <1>7, <1>8, <1>9, <1>10, <1>11, <1>12 DEF JointInv

\* A collated batch is drawn when the buffer of the dataset is empty.
LEMMA RefillStep == JointInv /\ Refill => JointInv'
<1> SUFFICES ASSUME JointInv, Refill PROVE JointInv'
  OBVIOUS
<1>1. /\ pc = "pack" /\ buffers[index] = <<>> /\ Draw(index) /\ index \in Datasets
      /\ UNCHANGED <<size, pc, index, globalId, batch, length, skipped, lookahead, delivered, dropped>>
  BY DEF JointInv, TypeOK, Refill, packVars
<1>2. /\ drawn' \in [Datasets -> 0 .. MaxSize]
      /\ buffers' \in [Datasets -> Seq(Sample)]
  BY <1>1, DrawnBuffers
<1>3. ASSUME NEW e \in Datasets
      PROVE  /\ \A i \in DOMAIN buffers'[e] : buffers'[e][i].ds = e
             /\ Increasing(buffers'[e])
             /\ \A i \in DOMAIN buffers'[e] : buffers'[e][i].skips >= 1 =>
                   buffers'[e][i].skips + i + Behind(e) <= LookaheadLimits[e] + 1
             /\ Numbers(buffers'[e]) \cap (SetAside(e) \cup Packed(e) \cup Out(e)) = {}
             /\ Numbers(buffers'[e]) \cup SetAside(e) \cup Packed(e) \cup Out(e)
                   = 1 .. CollateSize * drawn'[e]
  BY <1>1, DrawKeeps
<1>4. Working /\ Working'
  BY <1>1 DEF Working
<1>5. TypeOK'
  BY <1>1, <1>2 DEF JointInv, TypeOK
<1>6. Aside' /\ Placed'
  BY <1>1, <1>3, <1>4 DEF JointInv, Aside, Placed
<1>7. Ordered'
  <2> DEFINE k == CollateSize * drawn[index]
  <2>1. \A j \in DOMAIN buffers'[index] : k < buffers'[index][j].n
    <3>1. \A j \in DOMAIN buffers'[index] :
             j \in DOMAIN buffers[index] \/ k < buffers'[index][j].n
      BY <1>1, DrawnBuffers
    <3>2. DOMAIN buffers[index] = {}
      BY <1>1
    <3> QED
      BY <3>1, <3>2
  <2>2. Numbers(skipped) \subseteq 1 .. k /\ Numbers(batch) \subseteq 1 .. k
    BY <1>1, <1>4 DEF JointInv, AllKept, Kept, SetAside, Packed
  <2>3. k \in Nat
    <3>1. drawn[index] \in Nat /\ CollateSize \in Nat
      BY <1>1, PackingAssumption DEF JointInv, TypeOK
    <3> QED
      BY <3>1
  <2>4. \A j \in DOMAIN buffers'[index] : buffers'[index][j].n \in Nat
    BY <1>1, <1>2, SampleFields
  <2> HIDE DEF k
  <2>5. \A i \in DOMAIN skipped, j \in DOMAIN buffers'[index] :
           skipped[i].n < buffers'[index][j].n
    <3>1. \A i \in DOMAIN skipped : skipped[i].n \in 1 .. k
      BY <2>2 DEF Numbers
    <3> QED
      BY <3>1, <2>1, <2>3, <2>4
  <2>6. \A i \in DOMAIN batch, j \in DOMAIN buffers'[index] :
           batch[i].n < buffers'[index][j].n
    <3>1. \A i \in DOMAIN batch : batch[i].n \in 1 .. k
      BY <2>2 DEF Numbers
    <3> QED
      BY <3>1, <2>1, <2>3, <2>4
  <2>7. batch # <<>> => 1 \in DOMAIN batch
    BY DEF JointInv, TypeOK
  <2> QED
    BY <1>1, <1>3, <1>4, <2>5, <2>6, <2>7 DEF JointInv, Ordered
<1>8. MovedUp'
  <2>1. \A e \in Datasets : Behind(e)' = Behind(e)
    BY <1>1, <1>4 DEF Behind
  <2> QED
    BY <1>1, <1>3, <2>1 DEF JointInv, MovedUp
<1>9. AllKept'
  <2> SUFFICES ASSUME NEW e \in Datasets PROVE Kept(e)'
    BY DEF AllKept
  <2>1. SetAside(e)' = SetAside(e) /\ Packed(e)' = Packed(e) /\ Out(e)' = Out(e)
    BY <1>1, <1>4 DEF SetAside, Packed, Out, Numbers
  <2> QED
    BY <1>3, <2>1 DEF JointInv, AllKept, Kept
<1> QED
  BY <1>5, <1>6, <1>7, <1>8, <1>9 DEF JointInv

\* A new batch is begun, of any of the datasets.
LEMMA SelectStep == JointInv /\ Select => JointInv'
<1> SUFFICES ASSUME JointInv, Select PROVE JointInv'
  OBVIOUS
<1>1. /\ pc = "select" /\ pc' = "pack" /\ skipped = <<>>
      /\ batch' = <<>> /\ length' = 0 /\ skipped' = <<>> /\ lookahead' = 0
      /\ UNCHANGED <<size, globalId, drawn, buffers, delivered, dropped>>
  BY DEF JointInv, Aside, Working, Select
<1>2. index' \in Datasets
  BY DEF Select, Selectable
<1>3. ~Working /\ Working'
  BY <1>1 DEF Working
<1>4. TypeOK'
  <2>1. 0 \in 0 .. LookaheadLimits[index'] /\ pc' \in PackStates
    BY <1>1, <1>2, DatasetNumbers DEF PackStates
  <2> QED
    BY <1>1, <1>2, <2>1 DEF JointInv, TypeOK
<1>5. Aside' /\ Placed'
  BY <1>1 DEF JointInv, Aside, Placed
<1>6. Ordered'
  BY <1>1 DEF JointInv, Ordered, Increasing
<1>7. MovedUp'
  <2>1. \A e \in Datasets : Behind(e) = 0 /\ Behind(e)' = 0
    BY <1>1, <1>3 DEF Behind
  <2> QED
    BY <1>1, <2>1 DEF JointInv, MovedUp
<1>8. AllKept'
  <2> SUFFICES ASSUME NEW e \in Datasets PROVE Kept(e)'
    BY DEF AllKept
  <2>1. /\ SetAside(e) = {} /\ SetAside(e)' = {} /\ Packed(e) = {} /\ Packed(e)' = {}
        /\ Out(e)' = Out(e)
    BY <1>1, <1>3 DEF SetAside, Packed, Out, Numbers
  <2> QED
    BY <1>1, <2>1 DEF JointInv, AllKept, Kept
<1> QED
  BY <1>4, <1>5, <1>6, <1>7, <1>8 DEF JointInv

\* Packing ends, or goes on with another batch: nothing but the control state moves.
LEMMA ControlStep == JointInv /\ (StopPacking \/ Exhausted \/ Resume) => JointInv'
<1> SUFFICES ASSUME JointInv, StopPacking \/ Exhausted \/ Resume PROVE JointInv'
  OBVIOUS
<1>1. /\ \/ pc = "pack" /\ pc' = "finish"
         \/ pc \in {"yielded", "ended"} /\ pc' = "select"
      /\ UNCHANGED <<size, index, globalId, drawn, buffers, batch, length, skipped, lookahead,
                     delivered, dropped>>
  BY DEF StopPacking, Exhausted, Resume, packVars
<1>2. Working' <=> Working
  BY <1>1 DEF Working
<1>3. TypeOK'
  <2>1. pc' \in PackStates
    BY <1>1 DEF PackStates
  <2> QED
    BY <1>1, <2>1 DEF JointInv, TypeOK
<1>4. Aside' /\ Placed'
  BY <1>1, <1>2 DEF JointInv, Aside, Placed
<1>5. Ordered'
  BY <1>1, <1>2 DEF JointInv, Ordered, Increasing
<1>6. MovedUp'
  <2>1. \A e \in Datasets : Behind(e)' = Behind(e)
    BY <1>1, <1>2 DEF Behind
  <2> QED
    BY <1>1, <2>1 DEF JointInv, MovedUp
<1>7. AllKept'
  <2>1. \A e \in Datasets :
           SetAside(e)' = SetAside(e) /\ Packed(e)' = Packed(e) /\ Out(e)' = Out(e)
    BY <1>1, <1>2 DEF SetAside, Packed, Out, Numbers
  <2> QED
    BY <1>1, <2>1 DEF JointInv, AllKept, Kept
<1> QED
  BY <1>3, <1>4, <1>5, <1>6, <1>7 DEF JointInv

\* A sample too long for an empty batch is discarded.
LEMMA DiscardStep == JointInv /\ Discard => JointInv'
<1> SUFFICES ASSUME JointInv, Discard PROVE JointInv'
  OBVIOUS
<1> DEFINE c == Candidate
           t == buffers'[index]
<1>1. /\ pc = "pack" /\ batch = <<>> /\ skipped = <<>> /\ index \in Datasets
      /\ TakeCandidate /\ dropped' = dropped \cup {c}
      /\ UNCHANGED <<size, pc, index, globalId, drawn, batch, length, skipped, lookahead, delivered>>
  BY DEF JointInv, TypeOK, Aside, Discard, Discarded, TakeCandidate, packVars
<1>2. Working /\ Working'
  BY <1>1 DEF Working
<1>3. /\ buffers' \in [Datasets -> Seq(Sample)]
      /\ \A e \in Datasets : e # index => buffers'[e] = buffers[e]
      /\ c \in Sample /\ c.ds = index
      /\ Increasing(t)
      /\ \A i \in DOMAIN t : i + 1 \in DOMAIN buffers[index] /\ t[i] = buffers[index][i + 1]
      /\ Numbers(buffers[index]) = Numbers(t) \cup {c.n} /\ c.n \notin Numbers(t)
  BY <1>1, Taken
<1> HIDE DEF c
<1>4. TypeOK'
  BY <1>1, <1>3 DEF JointInv, TypeOK
<1>5. Aside'
  BY <1>1, <1>2 DEF JointInv, Aside
<1>6. Placed'
  <2>1. \A e \in Datasets : \A i \in DOMAIN buffers'[e] : buffers'[e][i].ds = e
    BY <1>1, <1>3 DEF JointInv, Placed
  <2> QED
    BY <1>1, <2>1 DEF Placed
<1>7. Ordered'
  <2>1. \A e \in Datasets : Increasing(buffers'[e])
    BY <1>1, <1>3 DEF JointInv, Ordered
  <2> QED
    BY <1>1, <2>1 DEF Ordered, Increasing
<1>8. MovedUp'
  <2>1. \A e \in Datasets : Behind(e) = 0 /\ Behind(e)' = 0
    BY <1>1 DEF Behind
  <2>2. ASSUME NEW e \in Datasets, NEW i \in DOMAIN buffers'[e], buffers'[e][i].skips >= 1
        PROVE  buffers'[e][i].skips + i + 0 <= LookaheadLimits[e] + 1
    BY <1>1, <2>1, <2>2, MovesUp, DatasetNumbers
  <2> QED
    BY <1>1, <2>1, <2>2 DEF JointInv, MovedUp
<1>9. AllKept'
  <2> SUFFICES ASSUME NEW e \in Datasets PROVE Kept(e)'
    BY DEF AllKept
  <2>1. /\ SetAside(e) = {} /\ SetAside(e)' = {} /\ Packed(e) = {} /\ Packed(e)' = {}
    BY <1>1 DEF SetAside, Packed, Numbers
  <2>2. Out(e)' = IF e = index THEN Out(e) \cup {c.n} ELSE Out(e)
    BY <1>1, <1>3 DEF Out
  <2> QED
    BY <1>1, <1>3, <2>1, <2>2 DEF JointInv, AllKept, Kept
<1> QED
  BY <1>4, <1>5, <1>6, <1>7, <1>8, <1>9 DEF JointInv

\* A sample that does not fit is put aside.
LEMMA SkipStep == JointInv /\ Skip => JointInv'
<1> SUFFICES ASSUME JointInv, Skip PROVE JointInv'
  OBVIOUS
<1> DEFINE c == Candidate
           aside == [c EXCEPT !.skips = @ + 1]
           t == buffers'[index]
<1>1. /\ pc = "pack" /\ batch # <<>> /\ ~TriedEnough /\ index \in Datasets
      /\ TakeCandidate /\ skipped' = Append(skipped, aside) /\ lookahead' = lookahead + 1
      /\ UNCHANGED <<size, pc, index, globalId, drawn, batch, length, delivered, dropped>>
  BY DEF JointInv, TypeOK, Skip, Discarded, TakeCandidate
<1>2. Working /\ Working' /\ lookahead = Len(skipped)
  BY <1>1 DEF JointInv, Aside, Working
<1>3. /\ buffers' \in [Datasets -> Seq(Sample)]
      /\ \A e \in Datasets : e # index => buffers'[e] = buffers[e]
      /\ c \in Sample /\ c.ds = index /\ c = buffers[index][1]
      /\ buffers[index] \in Seq(Sample) /\ Len(buffers[index]) >= 1
      /\ Increasing(t)
      /\ \A i \in DOMAIN t : i + 1 \in DOMAIN buffers[index] /\ t[i] = buffers[index][i + 1]
      /\ \A i \in DOMAIN t : c.n < t[i].n
      /\ Numbers(buffers[index]) = Numbers(t) \cup {c.n} /\ c.n \notin Numbers(t)
  BY <1>1, Taken
<1> HIDE DEF c
<1>4. /\ aside \in Sample /\ aside.ds = index /\ aside.n = c.n /\ aside.skips = c.skips + 1
      /\ c.n \in Nat /\ c.skips \in Nat
  <2>1. c.n \in Nat /\ c.skips \in Nat
    BY <1>3, SampleFields
  <2>2. c \in Sample
    BY <1>3
  <2>3. /\ aside \in Sample
        /\ aside.ds = c.ds /\ aside.n = c.n /\ aside.skips = c.skips + 1
    BY <2>1, <2>2, AsideSample DEF aside
  <2> QED
    BY <1>3, <2>1, <2>3
<1> HIDE DEF aside
<1>5. /\ skipped \in Seq(Sample) /\ skipped' \in Seq(Sample) /\ Len(skipped') = Len(skipped) + 1
      /\ skipped'[Len(skipped) + 1] = aside /\ Len(skipped) \in Nat
      /\ \A i \in 1 .. Len(skipped) : skipped'[i] = skipped[i]
      /\ DOMAIN skipped = 1 .. Len(skipped) /\ DOMAIN skipped' = 1 .. Len(skipped) + 1
  BY <1>1, <1>4, AppendTo DEF JointInv, TypeOK
<1>6. /\ LookaheadLimits[index] \in Nat /\ lookahead < LookaheadLimits[index]
  BY <1>1, <1>2, <1>5, DatasetNumbers DEF TriedEnough
<1>7. TypeOK'
  <2>1. lookahead' \in 0 .. LookaheadLimits[index]
    BY <1>1, <1>2, <1>5, <1>6
  <2> QED
    BY <1>1, <1>3, <1>5, <2>1 DEF JointInv, TypeOK
<1>8. Aside'
  BY <1>1, <1>2, <1>5 DEF JointInv, Aside
<1>9. Placed'
  <2>1. \A e \in Datasets : \A i \in DOMAIN buffers'[e] : buffers'[e][i].ds = e
    BY <1>1, <1>3 DEF JointInv, Placed
  <2>2. \A i \in DOMAIN skipped' : skipped'[i].ds = index
    BY <1>4, <1>5 DEF JointInv, Placed
  <2> QED
    BY <1>1, <1>2, <2>1, <2>2 DEF JointInv, Placed
<1>10. 1 \in DOMAIN buffers[index]
  BY <1>3
<1>11. Ordered'
  <2>1. \A e \in Datasets : Increasing(buffers'[e])
    BY <1>1, <1>3 DEF JointInv, Ordered
  <2>2. \A i \in DOMAIN skipped : skipped[i].n < aside.n
    BY <1>1, <1>3, <1>4, <1>10 DEF JointInv, Ordered
  <2>3. Increasing(skipped')
    BY <1>1, <1>4, <1>5, <2>2, Appended DEF JointInv, Ordered
  <2>4. \A i \in DOMAIN skipped', j \in DOMAIN t : skipped'[i].n < t[j].n
    <3> SUFFICES ASSUME NEW i \in DOMAIN skipped', NEW j \in DOMAIN t
                 PROVE  skipped'[i].n < t[j].n
      OBVIOUS
    <3>1. CASE i = Len(skipped) + 1
      BY <3>1, <1>3, <1>4, <1>5
    <3>2. CASE i \in DOMAIN skipped
      BY <3>2, <1>1, <1>3, <1>5 DEF JointInv, Ordered
    <3> QED
      BY <3>1, <3>2, <1>5
  <2>5. \A i \in DOMAIN batch, j \in DOMAIN t : batch[i].n < t[j].n
    BY <1>1, <1>2, <1>3 DEF JointInv, Ordered
  <2>6. \A i \in DOMAIN skipped' : batch[1].n < skipped'[i].n
    <3>1. batch[1].n < aside.n
      BY <1>1, <1>3, <1>4, <1>10 DEF JointInv, Ordered
    <3>2. \A i \in DOMAIN skipped : batch[1].n < skipped[i].n
      BY <1>1 DEF JointInv, Ordered
    <3> QED
      BY <3>1, <3>2, <1>5
  <2>7. \A j \in DOMAIN t : batch[1].n < t[j].n
    BY <1>1, <1>3 DEF JointInv, Ordered
  <2>8. Increasing(batch)
    BY DEF JointInv, Ordered
  <2> QED
    BY <1>1, <2>1, <2>3, <2>4, <2>5, <2>6, <2>7, <2>8 DEF Ordered
<1>12. MovedUp'
  <2>1. /\ Behind(index) = Len(skipped) + 1 /\ Behind(index)' = Len(skipped) + 2
        /\ \A e \in Datasets : e # index => Behind(e)' = 0
    BY <1>1, <1>2, <1>5 DEF Behind
  <2>2. ASSUME NEW e \in Datasets, NEW i \in DOMAIN buffers'[e], buffers'[e][i].skips >= 1
        PROVE  buffers'[e][i].skips + i + Behind(e)' <= LookaheadLimits[e] + 1
    <3>1. CASE e # index
      BY <3>1, <1>1, <2>1, <2>2, MovesUp, DatasetNumbers
    <3>2. CASE e = index
      BY <3>2, <1>1, <1>5, <1>6, <2>1, <2>2, MovesUp
    <3> QED
      BY <3>1, <3>2
  <2>3. ASSUME NEW i \in DOMAIN skipped'
        PROVE  skipped'[i].skips + i <= LookaheadLimits[index] + 1
    <3>1. CASE i \in DOMAIN skipped
      BY <3>1, <1>5 DEF JointInv, MovedUp
    <3>2. CASE i = Len(skipped) + 1
      <4>1. c.skips + 1 + (Len(skipped) + 1) <= LookaheadLimits[index] + 1
        <5>1. CASE c.skips >= 1
          BY <5>1, <1>1, <1>3, <1>4, <1>5, <1>6, <1>10, <2>1 DEF JointInv, MovedUp
        <5>2. CASE c.skips = 0
          BY <5>2, <1>2, <1>5, <1>6
        <5> QED
          BY <5>1, <5>2, <1>4
      <4> QED
        BY <4>1, <3>2, <1>4, <1>5
    <3> QED
      BY <3>1, <3>2, <1>5
  <2> QED
    BY <1>1, <2>2, <2>3 DEF MovedUp
<1>13. AllKept'
  <2> SUFFICES ASSUME NEW e \in Datasets PROVE Kept(e)'
    BY DEF AllKept
  <2>1. Numbers(skipped') = Numbers(skipped) \cup {c.n}
    BY <1>1, <1>4, <1>5, Appended
  <2>2. /\ SetAside(e)' = IF e = index THEN SetAside(e) \cup {c.n} ELSE {}
        /\ SetAside(e) = IF e = index THEN SetAside(e) ELSE {}
        /\ Packed(e)' = Packed(e) /\ Out(e)' = Out(e)
    BY <1>1, <1>2, <2>1 DEF SetAside, Packed, Out, Numbers
  <2>3. Kept(e)
    BY DEF JointInv, AllKept
  <2>4. CASE e = index
    BY <2>2, <2>3, <2>4, <1>1, <1>3 DEF Kept
  <2>5. CASE e # index
    BY <2>2, <2>3, <2>5, <1>1, <1>3 DEF Kept
  <2> QED
    BY <2>4, <2>5
<1> QED
  BY <1>7, <1>8, <1>9, <1>11, <1>12, <1>13 DEF JointInv

\* A sample that fits is packed.
LEMMA PackStep == JointInv /\ Pack => JointInv'
<1> SUFFICES ASSUME JointInv, Pack PROVE JointInv'
  OBVIOUS
<1> DEFINE c == Candidate
           t == buffers'[index]
<1>1. /\ pc = "pack" /\ index \in Datasets /\ TakeCandidate
      /\ batch' = Append(batch, c) /\ length' = length + c.tokens
      /\ UNCHANGED <<size, pc, index, globalId, drawn, skipped, lookahead, delivered, dropped>>
  BY DEF JointInv, TypeOK, Pack, TakeCandidate
<1>2. Working /\ Working'
  BY <1>1 DEF Working
<1>3. /\ buffers' \in [Datasets -> Seq(Sample)]
      /\ \A e \in Datasets : e # index => buffers'[e] = buffers[e]
      /\ c \in Sample /\ c.ds = index /\ c = buffers[index][1]
      /\ buffers[index] \in Seq(Sample) /\ Len(buffers[index]) >= 1
      /\ Increasing(t)
      /\ \A i \in DOMAIN t : i + 1 \in DOMAIN buffers[index] /\ t[i] = buffers[index][i + 1]
      /\ \A i \in DOMAIN t : c.n < t[i].n
      /\ Numbers(buffers[index]) = Numbers(t) \cup {c.n} /\ c.n \notin Numbers(t)
  BY <1>1, Taken
<1> HIDE DEF c
<1>4. c.n \in Nat /\ c.tokens \in Nat
  BY <1>3, SampleFields
<1>5. /\ batch \in Seq(Sample) /\ batch' \in Seq(Sample) /\ Len(batch') = Len(batch) + 1
      /\ batch'[Len(batch) + 1] = c /\ Len(batch) \in Nat
      /\ \A i \in 1 .. Len(batch) : batch'[i] = batch[i]
      /\ DOMAIN batch = 1 .. Len(batch) /\ DOMAIN batch' = 1 .. Len(batch) + 1
      /\ batch' # <<>>
  <2>1. batch \in Seq(Sample)
    BY DEF JointInv, TypeOK
  <2>2. batch' = Append(batch, c)
    BY <1>1
  <2> QED
    BY <1>3, <2>1, <2>2, AppendTo
<1>6. 1 \in DOMAIN buffers[index]
  BY <1>3
<1>7. TypeOK'
  <2>1. length' \in Nat
    BY <1>1, <1>4 DEF JointInv, TypeOK
  <2> QED
    BY <1>1, <1>3, <1>5, <2>1 DEF JointInv, TypeOK
<1>8. Aside'
  BY <1>1, <1>2, <1>5 DEF JointInv, Aside
<1>9. Placed'
  <2>1. ASSUME NEW e \in Datasets, NEW i \in DOMAIN buffers'[e] PROVE buffers'[e][i].ds = e
    <3>1. CASE e = index
      BY <3>1, <2>1, <1>1, <1>3 DEF JointInv, Placed
    <3>2. CASE e # index
      <4>1. buffers'[e] = buffers[e]
        BY <3>2, <1>3
      <4> QED
        BY <4>1, <2>1 DEF JointInv, Placed
    <3> QED
      BY <3>1, <3>2
  <2>2. \A i \in DOMAIN batch' : batch'[i].ds = index
    BY <1>2, <1>3, <1>5 DEF JointInv, Placed
  <2> QED
    BY <1>1, <1>2, <2>1, <2>2 DEF JointInv, Placed
<1>10. Ordered'
  <2>1. \A e \in Datasets : Increasing(buffers'[e])
    BY <1>1, <1>3 DEF JointInv, Ordered
  <2>2. \A i \in DOMAIN batch : batch[i].n < c.n
    BY <1>1, <1>2, <1>3, <1>6 DEF JointInv, Ordered
  <2>3. Increasing(batch')
    BY <1>1, <1>3, <1>5, <2>2, Appended DEF JointInv, Ordered
  <2>4. \A i \in DOMAIN skipped, j \in DOMAIN t : skipped[i].n < t[j].n
    BY <1>1, <1>3 DEF JointInv, Ordered
  <2>5. \A i \in DOMAIN batch', j \in DOMAIN t : batch'[i].n < t[j].n
    <3> SUFFICES ASSUME NEW i \in DOMAIN batch', NEW j \in DOMAIN t
                 PROVE  batch'[i].n < t[j].n
      OBVIOUS
    <3>1. CASE i = Len(batch) + 1
      BY <3>1, <1>3, <1>5
    <3>2. CASE i \in DOMAIN batch
      BY <3>2, <1>1, <1>2, <1>3, <1>5 DEF JointInv, Ordered
    <3> QED
      BY <3>1, <3>2, <1>5
  <2>6. \A i \in DOMAIN skipped : batch'[1].n < skipped[i].n
    <3>1. CASE batch = <<>>
      BY <3>1 DEF JointInv, Aside
    <3>2. CASE batch # <<>>
      <4>1. batch'[1] = batch[1]
        BY <3>2, <1>5
      <4> QED
        BY <3>2, <4>1, <1>1 DEF JointInv, Ordered
    <3> QED
      BY <3>1, <3>2
  <2>7. \A j \in DOMAIN t : batch'[1].n < t[j].n
    <3>1. 1 \in DOMAIN batch'
      BY <1>5
    <3> QED
      BY <3>1, <2>5
  <2>8. Increasing(skipped)
    BY DEF JointInv, Ordered
  <2> QED
    BY <1>1, <2>1, <2>3, <2>4, <2>5, <2>6, <2>7, <2>8 DEF Ordered
<1>11. MovedUp'
  <2>1. /\ Behind(index)' = Len(skipped) + 1 /\ Len(skipped) \in Nat
        /\ \A e \in Datasets : e # index => Behind(e)' = 0
        /\ Behind(index)' <= Behind(index) + 1 /\ Behind(index) \in Nat
    <3>1. batch = <<>> => Len(skipped) = 0
      BY DEF JointInv, Aside
    <3> QED
      BY <3>1, <1>1, <1>2, <1>5 DEF JointInv, TypeOK, Behind
  <2>2. ASSUME NEW e \in Datasets, NEW i \in DOMAIN buffers'[e], buffers'[e][i].skips >= 1
        PROVE  buffers'[e][i].skips + i + Behind(e)' <= LookaheadLimits[e] + 1
    <3>1. CASE e # index
      BY <3>1, <1>1, <2>1, <2>2, MovesUp, DatasetNumbers
    <3>2. CASE e = index
      <4>1. /\ i \in Nat /\ buffers'[e][i].skips \in Nat /\ LookaheadLimits[e] \in Nat
            /\ buffers'[e][i].skips + i + Behind(index) <= LookaheadLimits[index]
        BY <3>2, <1>1, <2>2, MovesUp, DatasetNumbers
      <4>2. Behind(index)' <= Behind(index) + 1 /\ Behind(index) \in Nat /\ Behind(index)' \in Nat
        BY <2>1
      <4>3. Behind(e)' = Behind(index)'
        BY <3>2, <1>1 DEF Behind
      <4> QED
        BY <4>1, <4>2, <4>3, <3>2
    <3> QED
      BY <3>1, <3>2
  <2> QED
    BY <1>1, <2>2 DEF JointInv, MovedUp
<1>12. AllKept'
  <2> SUFFICES ASSUME NEW e \in Datasets PROVE Kept(e)'
    BY DEF AllKept
  <2>1. Numbers(batch') = Numbers(batch) \cup {c.n}
    BY <1>1, <1>3, <1>5, Appended
  <2>2. /\ Packed(e)' = IF e = index THEN Packed(e) \cup {c.n} ELSE {}
        /\ Packed(e) = IF e = index THEN Packed(e) ELSE {}
        /\ SetAside(e)' = SetAside(e) /\ Out(e)' = Out(e)
    BY <1>1, <1>2, <2>1 DEF SetAside, Packed, Out, Numbers
  <2>3. Kept(e)
    BY DEF JointInv, AllKept
  <2>4. CASE e = index
    BY <2>2, <2>3, <2>4, <1>1, <1>3 DEF Kept
  <2>5. CASE e # index
    BY <2>2, <2>3, <2>5, <1>1, <1>3 DEF Kept
  <2> QED
    BY <2>4, <2>5
<1> QED
  BY <1>7, <1>8, <1>9, <1>10, <1>11, <1>12 DEF JointInv

\* What was put aside goes back, and the batch is yielded.
LEMMA FinishStep == JointInv /\ Finish => JointInv'
<1> SUFFICES ASSUME JointInv, Finish PROVE JointInv'
  OBVIOUS
<1> DEFINE b == buffers[index]
           t == buffers'[index]
<1>1. /\ pc = "finish" /\ pc' \in {"ended", "yielded"} /\ index \in Datasets
      /\ buffers' = [buffers EXCEPT ![index] = skipped \o @] /\ skipped' = <<>>
      /\ UNCHANGED <<size, index, drawn, batch, length, lookahead, dropped>>
      /\ globalId' \in Nat
      /\ IF batch = <<>> THEN pc' = "ended" /\ delivered' = delivered
                        ELSE pc' = "yielded" /\ delivered' = delivered \cup ToSet(batch)
  BY DEF JointInv, TypeOK, Finish, PutBack
<1>2. Working /\ ~Working'
  BY <1>1 DEF Working
<1>3. /\ skipped \in Seq(Sample) /\ b \in Seq(Sample) /\ batch \in Seq(Sample)
      /\ buffers \in [Datasets -> Seq(Sample)]
  BY <1>1 DEF JointInv, TypeOK
<1>4. t = skipped \o b /\ \A e \in Datasets : e # index => buffers'[e] = buffers[e]
  BY <1>1, <1>3
<1>5. /\ t \in Seq(Sample)
      /\ \A i \in DOMAIN t :
            \/ i \in DOMAIN skipped /\ t[i] = skipped[i]
            \/ i - Len(skipped) \in DOMAIN b /\ t[i] = b[i - Len(skipped)]
      /\ Numbers(t) = Numbers(skipped) \cup Numbers(b)
  <2>1. \A i \in DOMAIN skipped : (skipped \o b)[i] = skipped[i]
    BY <1>3
  <2> QED
    BY <2>1, <1>3, <1>4, Concatenated, NumbersConcatenated
<1>6. buffers' \in [Datasets -> Seq(Sample)]
  BY <1>1, <1>3, <1>5
<1>7. /\ Increasing(skipped) /\ Increasing(b)
      /\ \A i \in DOMAIN skipped, j \in DOMAIN b : skipped[i].n < b[j].n
  BY <1>1 DEF JointInv, Ordered
<1> HIDE DEF b, t
<1>8. Increasing(t)
  BY <1>3, <1>4, <1>7, IncreasingConcatenated
<1>9. TypeOK'
  <2>1. delivered' \subseteq Sample
    BY <1>1, <1>3 DEF JointInv, TypeOK, ToSet
  <2>2. pc' \in PackStates
    BY <1>1 DEF PackStates
  <2> QED
    BY <1>1, <1>3, <1>6, <2>1, <2>2 DEF JointInv, TypeOK
<1>10. Aside'
  BY <1>1, <1>2 DEF Aside
<1>11. Placed'
  <2>1. \A i \in DOMAIN t : t[i].ds = index
    BY <1>1, <1>5 DEF JointInv, Placed, b
  <2>2. \A e \in Datasets : \A i \in DOMAIN buffers'[e] : buffers'[e][i].ds = e
    BY <1>4, <2>1 DEF JointInv, Placed, t
  <2> QED
    BY <1>1, <1>2, <2>2 DEF Placed
<1>12. Ordered'
  <2>1. \A e \in Datasets : Increasing(buffers'[e])
    BY <1>4, <1>8 DEF JointInv, Ordered, t
  <2>2. batch # <<>> => \A j \in DOMAIN t : batch[1].n < t[j].n
    BY <1>1, <1>5 DEF JointInv, Ordered, b
  <2>3. Increasing(batch)
    BY DEF JointInv, Ordered
  <2>4. pc' = "yielded" => batch # <<>>
    BY <1>1
  <2> QED
    BY <1>1, <1>2, <2>1, <2>2, <2>3, <2>4 DEF Ordered, Increasing, t
<1>13. MovedUp'
  <2>1. \A e \in Datasets : Behind(e)' = 0 /\ (e # index => Behind(e) = 0)
    BY <1>2 DEF Behind
  <2>2. ASSUME NEW i \in DOMAIN t, t[i].skips >= 1
        PROVE  t[i].skips + i + 0 <= LookaheadLimits[index] + 1
    <3>1. i \in Nat /\ t[i] \in Sample /\ LookaheadLimits[index] \in Nat /\ Len(skipped) \in Nat
      BY <1>1, <1>3, <1>5, DatasetNumbers
    <3>2. t[i].skips \in Nat
      BY <3>1, SampleFields
    <3>3. CASE i \in DOMAIN skipped /\ t[i] = skipped[i]
      BY <3>1, <3>2, <3>3 DEF JointInv, MovedUp
    <3>4. CASE i - Len(skipped) \in DOMAIN b /\ t[i] = b[i - Len(skipped)]
      <4>1. Behind(index) >= Len(skipped) /\ Behind(index) \in Nat
        <5>1. batch = <<>> => Len(skipped) = 0
          BY DEF JointInv, Aside
        <5> QED
          BY <5>1, <3>1, <1>2 DEF Behind
      <4>2. t[i].skips + (i - Len(skipped)) + Behind(index) <= LookaheadLimits[index] + 1
        BY <3>4, <1>1, <2>2 DEF JointInv, MovedUp, b
      <4> QED
        BY <4>1, <4>2, <3>1, <3>2
    <3> QED
      BY <3>3, <3>4, <1>5
  <2>3. ASSUME NEW e \in Datasets, NEW i \in DOMAIN buffers'[e], buffers'[e][i].skips >= 1
        PROVE  buffers'[e][i].skips + i + Behind(e)' <= LookaheadLimits[e] + 1
    <3>1. CASE e # index
      <4>1. buffers'[e] = buffers[e] /\ Behind(e)' = Behind(e)
        BY <3>1, <1>4, <2>1
      <4> QED
        BY <4>1, <2>3 DEF JointInv, MovedUp
    <3>2. CASE e = index
      BY <3>2, <2>1, <2>2, <2>3 DEF t
    <3> QED
      BY <3>1, <3>2
  <2> QED
    BY <1>1, <2>3 DEF MovedUp
<1>14. AllKept'
  <2> SUFFICES ASSUME NEW e \in Datasets PROVE Kept(e)'
    BY DEF AllKept
  <2>1. Kept(e) /\ SetAside(e)' = {} /\ Packed(e)' = {}
    BY <1>1, <1>2 DEF JointInv, AllKept, SetAside, Packed, Numbers
  <2>2. Out(e)' = Out(e) \cup Packed(e)
    <3>1. \A s \in ToSet(batch) : s.ds = index
      BY <1>2 DEF JointInv, Placed, ToSet
    <3>2. Packed(e) = {s.n : s \in {x \in ToSet(batch) : x.ds = e}}
      <4>1. CASE e = index
        BY <4>1, <3>1, <1>2 DEF Packed, Numbers, ToSet
      <4>2. CASE e # index
        BY <4>2, <3>1 DEF Packed
      <4> QED
        BY <4>1, <4>2
    <3>3. delivered' = delivered \cup ToSet(batch)
      BY <1>1 DEF ToSet
    <3> QED
      BY <3>2, <3>3, <1>1 DEF Out
  <2>3. CASE e # index
    <3>1. SetAside(e) = {} /\ buffers'[e] = buffers[e]
      BY <2>3, <1>4 DEF SetAside
    <3> QED
      BY <3>1, <2>1, <2>2, <1>1 DEF Kept
  <2>4. CASE e = index
    <3>1. /\ SetAside(e) = Numbers(skipped)
          /\ Numbers(buffers'[e]) = SetAside(e) \cup Numbers(buffers[e])
      BY <2>4, <1>5 DEF SetAside, b, t
    <3> QED
      BY <3>1, <2>1, <2>2, <1>1 DEF Kept
  <2> QED
    BY <2>3, <2>4
<1> QED
  BY <1>9, <1>10, <1>11, <1>12, <1>13, <1>14 DEF JointInv

\* Nothing changes.
LEMMA StutterStep == JointInv /\ UNCHANGED vars => JointInv'
<1> SUFFICES ASSUME JointInv, UNCHANGED vars PROVE JointInv'
  OBVIOUS
<1>1. UNCHANGED <<size, pc, index, globalId, drawn, buffers, batch, length, skipped, lookahead,
                  delivered, dropped>>
  BY DEF vars, packVars
<1>2. TypeOK' /\ Aside' /\ Placed' /\ Ordered'
  BY <1>1 DEF JointInv, TypeOK, Aside, Placed, Ordered, Increasing, Working
<1>3. MovedUp'
  <2>1. \A e \in Datasets : Behind(e)' = Behind(e)
    BY <1>1 DEF Behind, Working
  <2> QED
    BY <1>1, <2>1 DEF JointInv, MovedUp
<1>4. AllKept'
  <2>1. \A e \in Datasets :
           SetAside(e)' = SetAside(e) /\ Packed(e)' = Packed(e) /\ Out(e)' = Out(e)
    BY <1>1 DEF SetAside, Packed, Out, Numbers, Working
  <2> QED
    BY <1>1, <2>1 DEF JointInv, AllKept, Kept
<1> QED
  BY <1>2, <1>3, <1>4 DEF JointInv
-----------------------------------------------------------------------------
(***************************************************************************)
(* Theorems                                                                *)
(***************************************************************************)

\* The packing loop keeps up its invariant: its types, the order of the samples
\* in a buffer and in what is put aside, the bound of how often each was put
\* aside, and the place of every sample drawn.
THEOREM JointInvariance == Spec => []JointInv
<1>1. Init => JointInv
  BY JointInitInv
<1>2. JointInv /\ [Next]_vars => JointInv'
  <2> SUFFICES ASSUME JointInv, [Next]_vars PROVE JointInv'
    OBVIOUS
  <2>1. CASE Prewarm
    BY <2>1, PrewarmStep
  <2>2. CASE Select
    BY <2>2, SelectStep
  <2>3. CASE StopPacking \/ Exhausted \/ Resume
    BY <2>3, ControlStep
  <2>4. CASE Refill
    BY <2>4, RefillStep
  <2>5. CASE Discard
    BY <2>5, DiscardStep
  <2>6. CASE Skip
    BY <2>6, SkipStep
  <2>7. CASE Pack
    BY <2>7, PackStep
  <2>8. CASE Finish
    BY <2>8, FinishStep
  <2>9. CASE UNCHANGED vars
    BY <2>9, StutterStep
  <2> QED
    BY <2>1, <2>2, <2>3, <2>4, <2>5, <2>6, <2>7, <2>8, <2>9 DEF Next
<1> QED
  BY <1>1, <1>2, PTL DEF Spec

\* What waits for a dataset is what was put aside, if it is selected, and its buffer.
LEMMA WaitingSamples ==
    ASSUME JointInv, NEW d \in Datasets
    PROVE  /\ Waiting(d) \in Seq(Sample)
           /\ \A i \in DOMAIN Waiting(d) :
                 \/ d = index /\ i \in DOMAIN skipped /\ Waiting(d)[i] = skipped[i]
                 \/ \E j \in DOMAIN buffers[d] : Waiting(d)[i] = buffers[d][j]
           /\ Numbers(Waiting(d)) = SetAside(d) \cup Numbers(buffers[d])
           /\ Increasing(Waiting(d))
<1> DEFINE front == IF d = index THEN skipped ELSE <<>>
<1>1. front \in Seq(Sample) /\ buffers[d] \in Seq(Sample)
  BY DEF JointInv, TypeOK
<1>2. Numbers(front) = SetAside(d)
  BY DEF SetAside, Numbers
<1>3. /\ Increasing(front) /\ Increasing(buffers[d])
      /\ \A i \in DOMAIN front, j \in DOMAIN buffers[d] : front[i].n < buffers[d][j].n
  BY DEF JointInv, Ordered, Increasing
<1>4. \A i \in DOMAIN front : d = index /\ i \in DOMAIN skipped /\ front[i] = skipped[i]
  OBVIOUS
<1> HIDE DEF front
<1>5. Waiting(d) = front \o buffers[d]
  BY DEF Waiting, front
<1>6. \A i \in DOMAIN Waiting(d) :
         \/ i \in DOMAIN front /\ Waiting(d)[i] = front[i]
         \/ \E j \in DOMAIN buffers[d] : Waiting(d)[i] = buffers[d][j]
  <2>1. \A i \in DOMAIN front : (front \o buffers[d])[i] = front[i]
    BY <1>1
  <2> QED
    BY <2>1, <1>1, <1>5, Concatenated
<1>7. Increasing(Waiting(d)) /\ Numbers(Waiting(d)) = Numbers(front) \cup Numbers(buffers[d])
  BY <1>1, <1>3, <1>5, IncreasingConcatenated, NumbersConcatenated
<1>8. Waiting(d) \in Seq(Sample)
  BY <1>1, <1>5
<1> QED
  BY <1>2, <1>4, <1>6, <1>7, <1>8

\* Samples wait in the order of their dataset, behind the first of the batch.
THEOREM JointOldestFirst == Spec => []OldestFirst
<1>1. JointInv => OldestFirst
  <2> SUFFICES ASSUME JointInv PROVE OldestFirst
    OBVIOUS
  <2>1. \A d \in Datasets : Increasing(Waiting(d))
    BY WaitingSamples
  <2>2. Increasing(batch)
    BY DEF JointInv, Ordered
  <2>3. ASSUME pc \in {"pack", "finish", "yielded"}, batch # <<>>,
               NEW i \in DOMAIN Waiting(index)
        PROVE  batch[1].n < Waiting(index)[i].n
    <3>1. index \in Datasets
      BY DEF JointInv, TypeOK
    <3> QED
      BY <2>3, <3>1, WaitingSamples DEF JointInv, Ordered
  <2> QED
    BY <2>1, <2>2, <2>3 DEF OldestFirst
<1> QED
  BY <1>1, JointInvariance, PTL

\* No sample is put aside more often than its dataset's limit.
THEOREM JointSkipsBounded == Spec => []SkipsBounded
<1>1. JointInv => SkipsBounded
  <2> SUFFICES ASSUME JointInv, NEW d \in Datasets, NEW i \in DOMAIN Waiting(d)
               PROVE  Waiting(d)[i].skips <= LookaheadLimits[d]
    BY DEF SkipsBounded
  <2>1. LookaheadLimits[d] \in Nat /\ Waiting(d)[i] \in Sample
    BY WaitingSamples, DatasetNumbers
  <2>2. Waiting(d)[i].skips \in Nat
    BY <2>1, SampleFields
  <2>3. CASE d = index /\ i \in DOMAIN skipped /\ Waiting(d)[i] = skipped[i]
    <3>1. i >= 1 /\ i \in Nat
      BY <2>3 DEF JointInv, TypeOK
    <3> QED
      BY <2>1, <2>2, <2>3, <3>1 DEF JointInv, MovedUp
  <2>4. ASSUME NEW j \in DOMAIN buffers[d], Waiting(d)[i] = buffers[d][j]
        PROVE  Waiting(d)[i].skips <= LookaheadLimits[d]
    <3>1. j >= 1 /\ j \in Nat /\ Behind(d) \in Nat
      BY DEF JointInv, TypeOK, Behind
    <3>2. CASE Waiting(d)[i].skips >= 1
      <4>1. buffers[d][j].skips + j + Behind(d) <= LookaheadLimits[d] + 1
        BY <2>4, <3>2 DEF JointInv, MovedUp
      <4> QED
        BY <2>1, <2>2, <2>4, <3>1, <4>1
    <3> QED
      BY <2>1, <2>2, <3>2
  <2> QED
    BY <2>3, <2>4, WaitingSamples
<1> QED
  BY <1>1, JointInvariance, PTL

\* Every sample drawn is in one place and in one only.
THEOREM JointNothingLost == Spec => []NothingLost
<1>1. JointInv => NothingLost
  <2> SUFFICES ASSUME JointInv PROVE NothingLost
    OBVIOUS
  <2>1. ASSUME NEW s \in Seq(Sample), Increasing(s) PROVE Distinct(s)
    <3>1. \A i \in DOMAIN s : s[i].n \in Int
      BY <2>1, SampleFields
    <3> QED
      BY <3>1, <2>1, IncreasingDistinct
  <2>2. Distinct(batch)
    BY <2>1 DEF JointInv, TypeOK, Ordered
  <2>3. \A d \in Datasets :
           /\ Distinct(Waiting(d))
           /\ Numbers(Waiting(d)) = SetAside(d) \cup Numbers(buffers[d])
           /\ Kept(d)
    BY <2>1, WaitingSamples DEF JointInv, AllKept
  <2> QED
    BY <2>2, <2>3 DEF NothingLost, Kept, Packed, Out, Working
<1> QED
  BY <1>1, JointInvariance, PTL

-----------------------------------------------------------------------------
(***************************************************************************)
(* PoolPacking                                                             *)
(***************************************************************************)

\* A batch that is begun has its seed, and the pool has room for one sample more.
Choosing == IF poolPc = "choose" THEN Len(chosen) >= 1 /\ Len(pool) < PoolSize ELSE chosen = <<>>

\* cur_max bounds the samples of the batch, and what it costs padded to cur_max
\* keeps the budget.
Padded ==
    /\ \A i \in DOMAIN chosen : chosen[i].tokens <= curMax
    /\ Len(chosen) > 1 =>
          /\ curMax * Len(chosen) <= MaxTokens
          /\ \A i \in DOMAIN chosen : chosen[i].modality = chosen[1].modality

\* What the packing loop keeps up.
PoolInv ==
    /\ PoolTypeOK
    /\ Choosing
    /\ NoneStarves
    /\ EmittedOnce
    /\ Padded

(***************************************************************************)
(* Lemmas                                                                  *)
(***************************************************************************)

\* Max of two numbers.
LEMMA MaxOfTwo ==
    ASSUME NEW a \in Nat, NEW b \in Nat
    PROVE  Max({a, b}) \in Nat /\ a <= Max({a, b}) /\ b <= Max({a, b})
<1>1. \E x \in {a, b} : \A y \in {a, b} : x >= y
  OBVIOUS
<1>2. Max({a, b}) \in {a, b} /\ \A y \in {a, b} : Max({a, b}) >= y
  BY <1>1 DEF Max
<1> QED
  BY <1>2

\* The numbers of a sample are numbers.
LEMMA SampleTypes == \A s \in PoolSample : s.tokens \in Nat /\ s.since \in Nat
  BY PoolAssumption DEF PoolSample

\* Half of the budget is no more than the budget.
LEMMA BudgetBound == \A l : Budget(l) <= MaxTokens
  BY PoolAssumption DEF Budget

(***************************************************************************)
(* The steps                                                               *)
(***************************************************************************)

LEMMA PoolInitInv == PoolInit => PoolInv
<1> SUFFICES ASSUME PoolInit PROVE PoolInv
  OBVIOUS
<1> USE PoolAssumption DEF PoolInit
<1>1. PoolTypeOK /\ Choosing
  BY DEF PoolTypeOK, Choosing
<1>2. NoneStarves
  BY DEF NoneStarves
<1>3. EmittedOnce
  BY DEF EmittedOnce, Distinct, Numbers
<1>4. Padded
  BY DEF Padded
<1> QED
  BY <1>1, <1>2, <1>3, <1>4 DEF PoolInv

\* A sample comes to the end of the pool.
LEMMA FillStep == PoolInv /\ Fill => PoolInv'
<1> SUFFICES ASSUME PoolInv, Fill PROVE PoolInv'
  OBVIOUS
<1> USE PoolAssumption
<1>1. PICK t \in PoolLengths, m \in Modalities :
         pool' = Append(pool, [n |-> arrived + 1, tokens |-> t, modality |-> m,
                               since |-> batches])
  BY DEF Fill
<1> DEFINE new == [n |-> arrived + 1, tokens |-> t, modality |-> m, since |-> batches]
<1>2. /\ pool \in Seq(PoolSample) /\ Len(pool) < PoolSize /\ poolPc = "fill"
      /\ chosen \in Seq(PoolSample) /\ curMax \in Nat /\ emitted \subseteq PoolSample
      /\ arrived \in Nat /\ arrived < MaxArrivals /\ batches \in Nat
      /\ arrived' = arrived + 1 /\ UNCHANGED <<chosen, curMax, poolPc, batches, emitted>>
  BY DEF PoolInv, PoolTypeOK, Fill
<1>3. new \in PoolSample
  BY <1>2 DEF PoolSample
<1>4. new.n = arrived + 1 /\ new.since = batches
  OBVIOUS
<1> HIDE DEF new
<1>5. pool' = Append(pool, new)
  BY <1>1 DEF new
<1>6. /\ pool' \in Seq(PoolSample) /\ Len(pool') = Len(pool) + 1
      /\ pool'[Len(pool) + 1] = new
      /\ \A i \in 1 .. Len(pool) : pool'[i] = pool[i]
  BY <1>2, <1>3, <1>5, AppendTo
<1>7. PoolTypeOK' /\ Choosing'
  BY <1>2, <1>6 DEF PoolInv, PoolTypeOK, Choosing
<1>8. NoneStarves'
  <2> SUFFICES ASSUME NEW i \in DOMAIN pool'
               PROVE  i + (batches - pool'[i].since) <= PoolSize
    BY <1>2 DEF NoneStarves
  <2>1. CASE i = Len(pool) + 1
    BY <2>1, <1>2, <1>4, <1>6
  <2>2. CASE i \in DOMAIN pool
    BY <2>2, <1>2, <1>6 DEF PoolInv, NoneStarves
  <2> QED
    BY <2>1, <2>2, <1>2, <1>6
<1>9. EmittedOnce'
  <2>1. OneOut(pool', pool, Len(pool) + 1)
    BY <1>2, <1>6 DEF OneOut
  <2>2. pool'[Len(pool) + 1].n = arrived + 1
    BY <1>4, <1>6
  <2>3. /\ Numbers(pool') = Numbers(pool) \cup {arrived + 1}
        /\ Distinct(pool') <=> (Distinct(pool) /\ arrived + 1 \notin Numbers(pool))
    BY <2>1, <2>2, <1>2, <1>6, NumbersOut
  <2>4. 1 .. arrived' = (1 .. arrived) \cup {arrived + 1} /\ arrived + 1 \notin 1 .. arrived
    BY <1>2
  <2> QED
    BY <2>3, <2>4, <1>2 DEF PoolInv, EmittedOnce
<1>10. Padded'
  BY <1>2 DEF PoolInv, Choosing, Padded
<1> QED
  BY <1>7, <1>8, <1>9, <1>10 DEF PoolInv

\* The oldest sample leaves the pool and everybody moves up.
LEMMA SeedStep == PoolInv /\ TakeSeed => PoolInv'
<1> SUFFICES ASSUME PoolInv, TakeSeed PROVE PoolInv'
  OBVIOUS
<1> USE PoolAssumption
<1> DEFINE seed == Head(pool)
<1>1. /\ pool \in Seq(PoolSample) /\ Len(pool) = PoolSize /\ poolPc = "fill"
      /\ chosen \in Seq(PoolSample) /\ curMax \in Nat /\ emitted \subseteq PoolSample
      /\ arrived \in 0 .. MaxArrivals /\ batches \in Nat
      /\ pool' = Tail(pool) /\ arrived' = arrived
  BY DEF PoolInv, PoolTypeOK, TakeSeed
<1>2. /\ seed = pool[1] /\ seed \in PoolSample
      /\ pool' \in Seq(PoolSample) /\ Len(pool') = Len(pool) - 1
      /\ \A i \in 1 .. Len(pool) - 1 : pool'[i] = pool[i + 1]
  BY <1>1, HeadTail
<1>3. OneOut(pool, pool', 1)
  BY <1>1, <1>2, PoolAssumption DEF OneOut
<1>4. /\ Numbers(pool) = Numbers(pool') \cup {seed.n}
      /\ Distinct(pool') /\ seed.n \notin Numbers(pool')
  <2>1. /\ Numbers(pool) = Numbers(pool') \cup {pool[1].n}
        /\ Distinct(pool) <=> (Distinct(pool') /\ pool[1].n \notin Numbers(pool'))
    <3>1. pool \in Seq(PoolSample) /\ pool' \in Seq(PoolSample)
      BY <1>1, <1>2
    <3> QED
      BY <3>1, <1>3, NumbersOut
  <2> QED
    BY <2>1, <1>2 DEF PoolInv, EmittedOnce
<1>5. \A i \in DOMAIN pool' : i + (batches - pool'[i].since) <= PoolSize - 1
  <2> SUFFICES ASSUME NEW i \in DOMAIN pool'
               PROVE  i + (batches - pool'[i].since) <= PoolSize - 1
    OBVIOUS
  <2>1. pool'[i] = pool[i + 1] /\ i + 1 \in DOMAIN pool /\ pool[i + 1] \in PoolSample
    BY <1>1, <1>2
  <2>2. (i + 1) + (batches - pool[i + 1].since) <= PoolSize
    BY <2>1, <1>1 DEF PoolInv, NoneStarves
  <2>3. pool[i + 1].since \in Nat
    BY <2>1 DEF PoolSample
  <2> QED
    BY <2>1, <2>2, <2>3, <1>1, <1>2
<1> HIDE DEF seed
<1>6. CASE SeedAlone(seed)
  <2>1. /\ emitted' = emitted \cup {seed} /\ batches' = batches + 1
        /\ chosen' = <<>> /\ curMax' = 0 /\ poolPc' = "fill"
    BY <1>6 DEF TakeSeed, Emit, ToSet, seed
  <2>2. PoolTypeOK' /\ Choosing' /\ Padded'
    BY <2>1, <1>1, <1>2 DEF PoolTypeOK, Choosing, Padded
  <2>3. NoneStarves'
    <3>1. ASSUME NEW i \in DOMAIN pool'
          PROVE  i + (batches' - pool'[i].since) <= PoolSize
      <4>1. pool'[i] \in PoolSample
        BY <1>2
      <4>2. pool'[i].since \in Nat /\ i \in Nat
        BY <4>1, <1>2 DEF PoolSample
      <4>3. i + (batches - pool'[i].since) <= PoolSize - 1
        BY <1>5
      <4>4. \A a, b, c, d \in Int : a + (b - c) <= d - 1 => a + (b + 1 - c) <= d
        OBVIOUS
      <4>5. i \in Int /\ batches \in Int /\ pool'[i].since \in Int /\ PoolSize \in Int
        BY <4>2, <1>1
      <4> HIDE PoolAssumption
      <4> QED
        BY <2>1, <4>3, <4>4, <4>5
    <3>3. PoolSize - (IF poolPc' = "choose" THEN 1 ELSE 0) = PoolSize
      BY <2>1
    <3> QED
      BY <3>1, <3>3 DEF NoneStarves
  <2>4. EmittedOnce'
    <3>1. Numbers(chosen') = {} /\ Distinct(chosen')
      BY <2>1 DEF Numbers, Distinct
    <3>2. {s.n : s \in emitted'} = {s.n : s \in emitted} \cup {seed.n}
      BY <2>1
    <3>3. Numbers(chosen) = {}
      BY <1>1 DEF PoolInv, Choosing, Numbers
    <3> QED
      BY <3>1, <3>2, <3>3, <1>1, <1>4 DEF PoolInv, EmittedOnce
  <2> QED
    BY <2>2, <2>3, <2>4 DEF PoolInv
<1>7. CASE ~SeedAlone(seed)
  <2>1. /\ chosen' = <<seed>> /\ curMax' = seed.tokens /\ poolPc' = "choose"
        /\ UNCHANGED <<batches, emitted>>
    BY <1>7 DEF TakeSeed, seed
  <2>2. PoolTypeOK' /\ Choosing' /\ Padded'
    <3>1. seed.tokens \in Nat /\ seed.tokens <= seed.tokens
      BY <1>2, SampleTypes
    <3>2. chosen' \in Seq(PoolSample) /\ Len(chosen') = 1 /\ chosen'[1] = seed
      BY <2>1, <1>2
    <3> QED
      BY <2>1, <3>1, <3>2, <1>1, <1>2 DEF PoolTypeOK, Choosing, Padded
  <2>3. NoneStarves'
    BY <2>1, <1>5 DEF NoneStarves
  <2>4. EmittedOnce'
    <3>1. Numbers(chosen') = {seed.n} /\ Distinct(chosen')
      BY <2>1 DEF Numbers, Distinct
    <3>2. Numbers(chosen) = {}
      BY <1>1 DEF PoolInv, Choosing, Numbers
    <3> QED
      BY <2>1, <3>1, <3>2, <1>1, <1>4 DEF PoolInv, EmittedOnce
  <2> QED
    BY <2>2, <2>3, <2>4 DEF PoolInv
<1> QED
  BY <1>6, <1>7

\* A candidate leaves the middle of the pool and joins the batch.
LEMMA AddStep == PoolInv /\ AddCandidate => PoolInv'
<1> SUFFICES ASSUME PoolInv, AddCandidate PROVE PoolInv'
  OBVIOUS
<1>1. PICK i \in DOMAIN pool :
         /\ BestCandidate(i)
         /\ chosen' = Append(chosen, pool[i]) /\ curMax' = NewMax(i) /\ pool' = PoolWithout(i)
  BY DEF AddCandidate
<1>2. /\ pool \in Seq(PoolSample) /\ chosen \in Seq(PoolSample) /\ curMax \in Nat
      /\ Len(chosen) >= 1 /\ Len(pool) < PoolSize /\ poolPc = "choose"
      /\ emitted \subseteq PoolSample /\ arrived \in 0 .. MaxArrivals /\ batches \in Nat
      /\ UNCHANGED <<poolPc, arrived, batches, emitted>>
  BY DEF PoolInv, PoolTypeOK, Choosing, AddCandidate
<1>3. i \in 1 .. Len(pool) /\ pool[i] \in PoolSample
  BY <1>2
<1>4. /\ pool' \in Seq(PoolSample) /\ Len(pool') = Len(pool) - 1
      /\ \A j \in 1 .. Len(pool) - 1 : pool'[j] = IF j < i THEN pool[j] ELSE pool[j + 1]
  BY <1>1, <1>2, <1>3, Removed DEF PoolWithout
<1>5. /\ chosen' \in Seq(PoolSample) /\ Len(chosen') = Len(chosen) + 1
      /\ chosen'[Len(chosen) + 1] = pool[i]
      /\ \A j \in 1 .. Len(chosen) : chosen'[j] = chosen[j]
  BY <1>1, <1>2, <1>3, AppendTo
<1>6. PoolTypeOK' /\ Choosing'
  <2>1. NewMax(i) \in Nat
    BY <1>2, <1>3, SampleTypes, MaxOfTwo DEF NewMax
  <2> QED
    BY PoolAssumption, <1>1, <1>2, <1>4, <1>5, <2>1 DEF PoolTypeOK, Choosing
<1>7. NoneStarves'
  <2> SUFFICES ASSUME NEW j \in DOMAIN pool'
               PROVE  j + (batches - pool'[j].since) <= PoolSize - 1
    BY <1>2 DEF NoneStarves
  <2>1. PICK k \in DOMAIN pool : pool'[j] = pool[k] /\ k >= j
    <3>1. j \in 1 .. Len(pool) - 1
      BY <1>2, <1>4
    <3>2. CASE j < i
      BY <3>1, <3>2, <1>2, <1>4
    <3>3. CASE j >= i
      <4>1. pool'[j] = pool[j + 1] /\ j + 1 \in DOMAIN pool /\ j + 1 >= j
        BY <3>1, <3>3, <1>2, <1>3, <1>4
      <4> QED
        BY <4>1
    <3> QED
      BY <3>1, <3>2, <3>3, <1>3
  <2>2. k + (batches - pool[k].since) <= PoolSize - 1
    BY <1>2 DEF PoolInv, NoneStarves
  <2>3. pool[k] \in PoolSample
    BY <1>2
  <2>4. {pool[k].since, batches, j, k} \subseteq Nat /\ PoolSize \in Nat
    <3>1. PoolSize \in Nat /\ pool[k].since \in Nat
      BY <2>3, PoolAssumption DEF PoolSample
    <3>2. j \in Nat /\ k \in Nat
      BY <1>2, <1>4
    <3> QED
      BY <3>1, <3>2, <1>2
  <2>5. \A a, b, c, d, e \in Nat : a >= b /\ a + (c - d) <= e - 1 => b + (c - d) <= e - 1
    OBVIOUS
  <2> QED
    BY <2>1, <2>2, <2>4, <2>5
<1>8. EmittedOnce'
  <2>1. OneOut(pool, pool', i) /\ OneOut(chosen', chosen, Len(chosen) + 1)
    BY <1>2, <1>3, <1>4, <1>5 DEF OneOut
  <2>2. /\ Numbers(pool) = Numbers(pool') \cup {pool[i].n}
        /\ Distinct(pool) <=> (Distinct(pool') /\ pool[i].n \notin Numbers(pool'))
    BY <2>1, <1>2, <1>4, NumbersOut
  <2>3. /\ Numbers(chosen') = Numbers(chosen) \cup {pool[i].n}
        /\ Distinct(chosen') <=> (Distinct(chosen) /\ pool[i].n \notin Numbers(chosen))
    BY <2>1, <1>2, <1>5, NumbersOut
  <2> QED
    BY <2>2, <2>3, <1>2 DEF PoolInv, EmittedOnce
<1>9. Padded'
  <2>1. /\ curMax' \in Nat /\ curMax <= curMax' /\ pool[i].tokens <= curMax'
        /\ curMax' * (Len(chosen) + 1) <= Budget(curMax)
    <3>1. pool[i].tokens \in Nat
      BY <1>3, PoolAssumption DEF PoolSample
    <3>2. /\ NewMax(i) \in Nat /\ curMax <= NewMax(i) /\ pool[i].tokens <= NewMax(i)
      BY <1>2, <3>1, MaxOfTwo DEF NewMax
    <3> QED
      BY <3>2, <1>1 DEF BestCandidate, Fitting, PaddedCost
  <2>3. \A j \in DOMAIN chosen' : chosen'[j].tokens <= curMax'
    <3>1. \A j \in DOMAIN chosen : chosen[j].tokens \in Nat /\ chosen[j].tokens <= curMax
      BY <1>2, SampleTypes DEF PoolInv, Padded
    <3>2. \A j \in DOMAIN chosen' : j \in DOMAIN chosen \/ j = Len(chosen) + 1
      BY <1>2, <1>5
    <3> QED
      BY <2>1, <3>1, <3>2, <1>2, <1>5
  <2>4. curMax' * Len(chosen') <= MaxTokens
    <3>1. Budget(curMax) \in Nat /\ Budget(curMax) <= MaxTokens /\ MaxTokens \in Nat
      BY PoolAssumption, BudgetBound DEF Budget
    <3>2. curMax' * (Len(chosen) + 1) \in Nat
      BY <2>1, <1>2
    <3> QED
      BY <2>1, <3>1, <3>2, <1>5
  <2>2. \A j \in DOMAIN chosen' : chosen'[j].modality = chosen'[1].modality
    <3>1. pool[i].modality = chosen[1].modality
      BY <1>1 DEF BestCandidate, Fitting, SameModality
    <3>2. \A j \in DOMAIN chosen : chosen[j].modality = chosen[1].modality
      <4>1. CASE Len(chosen) = 1
        BY <4>1, <1>2
      <4>2. CASE Len(chosen) > 1
        BY <4>2 DEF PoolInv, Padded
      <4> QED
        BY <4>1, <4>2, <1>2
    <3>3. chosen'[1] = chosen[1]
      BY <1>2, <1>5
    <3>4. \A j \in DOMAIN chosen' : j \in DOMAIN chosen \/ j = Len(chosen) + 1
      BY <1>2, <1>5
    <3> QED
      BY <3>1, <3>2, <3>3, <3>4, <1>2, <1>5
  <2> QED
    BY <2>2, <2>3, <2>4 DEF Padded
<1> QED
  BY <1>6, <1>7, <1>8, <1>9 DEF PoolInv

\* The batch is complete; everybody in the pool has seen one batch more.
LEMMA EmitStep == PoolInv /\ EmitBatch => PoolInv'
<1> SUFFICES ASSUME PoolInv, EmitBatch PROVE PoolInv'
  OBVIOUS
<1>1. /\ pool \in Seq(PoolSample) /\ Len(pool) < PoolSize
      /\ chosen \in Seq(PoolSample) /\ curMax \in Nat
      /\ emitted \subseteq PoolSample /\ arrived \in 0 .. MaxArrivals /\ batches \in Nat
      /\ poolPc = "choose"
  BY DEF PoolInv, PoolTypeOK, Choosing, EmitBatch
<1>2. /\ emitted' = emitted \cup {chosen[j] : j \in DOMAIN chosen} /\ batches' = batches + 1
      /\ chosen' = <<>> /\ curMax' = 0 /\ poolPc' = "fill" /\ UNCHANGED <<pool, arrived>>
  BY DEF EmitBatch, Emit, ToSet
<1>3. PoolTypeOK' /\ Choosing' /\ Padded'
  <2>1. emitted' \subseteq PoolSample
    BY <1>1, <1>2
  <2> QED
    BY <2>1, <1>1, <1>2, PoolAssumption DEF PoolTypeOK, Choosing, Padded
<1>4. NoneStarves'
  <2>1. ASSUME NEW i \in DOMAIN pool'
        PROVE  i + (batches' - pool'[i].since) <= PoolSize
    <3>1. i + (batches - pool[i].since) <= PoolSize - 1
      BY <1>1, <1>2 DEF PoolInv, NoneStarves
    <3>2. pool[i] \in PoolSample
      BY <1>1, <1>2
    <3>3. {i, batches, pool[i].since, PoolSize} \subseteq Int
      BY <3>2, <1>1, <1>2, SampleTypes, PoolAssumption
    <3>4. \A a, b, c, d \in Int : a + (b - c) <= d - 1 => a + (b + 1 - c) <= d
      OBVIOUS
    <3> QED
      BY <1>2, <3>1, <3>3, <3>4
  <2>2. PoolSize - (IF poolPc' = "choose" THEN 1 ELSE 0) = PoolSize
    BY <1>2, PoolAssumption
  <2> QED
    BY <2>1, <2>2 DEF NoneStarves
<1>5. EmittedOnce'
  <2>1. {s.n : s \in emitted'} = {s.n : s \in emitted} \cup Numbers(chosen)
    BY <1>2 DEF Numbers
  <2>2. Numbers(chosen') = {} /\ Distinct(chosen')
    BY <1>2 DEF Numbers, Distinct
  <2> QED
    BY <2>1, <2>2, <1>2 DEF PoolInv, EmittedOnce
<1> QED
  BY <1>3, <1>4, <1>5 DEF PoolInv

LEMMA PoolInvStep == PoolInv /\ [PoolNext]_poolVars => PoolInv'
<1> SUFFICES ASSUME PoolInv, [PoolNext]_poolVars PROVE PoolInv'
  OBVIOUS
<1>1. CASE UNCHANGED poolVars
  <2>1. PoolTypeOK' /\ Choosing'
    BY <1>1 DEF poolVars, PoolInv, PoolTypeOK, Choosing
  <2>2. NoneStarves'
    BY <1>1 DEF poolVars, PoolInv, NoneStarves
  <2>3. EmittedOnce'
    BY <1>1 DEF poolVars, PoolInv, EmittedOnce, Distinct, Numbers
  <2>4. Padded'
    BY <1>1 DEF poolVars, PoolInv, Padded
  <2> QED
    BY <2>1, <2>2, <2>3, <2>4 DEF PoolInv
<1> QED
  BY <1>1, FillStep, SeedStep, AddStep, EmitStep DEF PoolNext, PoolDrained
-----------------------------------------------------------------------------
(***************************************************************************)
(* The theorems                                                            *)
(***************************************************************************)

\* PoolInv is an invariant of the packing loop.
THEOREM PoolInvariance == PoolSpec => []PoolInv
BY PoolInitInv, PoolInvStep, PTL DEF PoolSpec

\* However samples of the pool overtake each other, the one that has waited
\* longest is the seed after at most PoolSize batches.
THEOREM PoolNoneStarves == PoolSpec => []NoneStarves
<1>1. PoolInv => NoneStarves
  BY DEF PoolInv
<1> QED
  BY <1>1, PoolInvariance, PTL

\* Every sample drawn is kept or emitted, in one place and once.
THEOREM PoolEmittedOnce == PoolSpec => []EmittedOnce
<1>1. PoolInv => EmittedOnce
  BY DEF PoolInv
<1> QED
  BY <1>1, PoolInvariance, PTL

\* Batches of several samples keep max_tokens, whatever budget each candidate was
\* compared with, and are of one modality.
THEOREM PoolWithinBudget == PoolSpec => []PaddedWithinBudget
<1>1. PoolInv => PaddedWithinBudget
  <2> SUFFICES ASSUME PoolInv, Len(chosen) > 1, NEW i \in DOMAIN chosen
               PROVE  chosen[i].tokens * Len(chosen) <= MaxTokens
    BY DEF PoolInv, Padded, PaddedWithinBudget
  <2>1. chosen[i] \in PoolSample /\ curMax \in Nat /\ Len(chosen) \in Nat
    BY DEF PoolInv, PoolTypeOK
  <2>2. chosen[i].tokens \in Nat /\ MaxTokens \in Nat
    BY <2>1, PoolAssumption DEF PoolSample
  <2>3. chosen[i].tokens <= curMax /\ curMax * Len(chosen) <= MaxTokens
    BY DEF PoolInv, Padded
  <2>4. \A a, b, c, d \in Nat : a <= b /\ b * c <= d => a * c <= d
    OBVIOUS
  <2> QED
    BY <2>1, <2>2, <2>3, <2>4
<1> QED
  BY <1>1, PoolInvariance, PTL

(***************************************************************************)
(* All that divides samples                                                *)
(***************************************************************************)

\* keep_going and profile are what the run was started with.
LEMMA FlagsStay == ReplicaSpec => []({keepGoing, profile} \subseteq BOOLEAN)
<1>1. ReplicaInit => {keepGoing, profile} \subseteq BOOLEAN
  BY DEF ReplicaInit
<1>2. [ReplicaNext]_replicaVars => UNCHANGED <<keepGoing, profile>>
  <2>1. ASSUME NEW r \in World, Plan(r) \/ Take(r) \/ NoMoreBatches(r) \/ Raises(r)
        PROVE  UNCHANGED <<keepGoing, profile>>
    BY <2>1 DEF Plan, Take, NoMoreBatches, Raises
  <2>2. ASSUME NEW r \in World, ProcessInputs(r) \/ SaveOutputs(r)
        PROVE  UNCHANGED <<keepGoing, profile>>
    BY <2>2 DEF ProcessInputs, SaveOutputs
  <2>3. ASSUME NEW rep \in Replicas, WarmedUp(rep) \/ Generated(rep)
        PROVE  UNCHANGED <<keepGoing, profile>>
    BY <2>3 DEF WarmedUp, Generated
  <2>4. ASSUME Created \/ Counted \/ InputsMet \/ OutputsMet \/ Stopped
        PROVE  UNCHANGED <<keepGoing, profile>>
    BY <2>4 DEF Created, Counted, InputsMet, OutputsMet, Saved, Stopped, replicaVars
  <2> QED BY <2>1, <2>2, <2>3, <2>4 DEF ReplicaNext, replicaVars
<1>3. {keepGoing, profile} \subseteq BOOLEAN /\ [ReplicaNext]_replicaVars
      => ({keepGoing, profile} \subseteq BOOLEAN)'
  BY <1>2
<1> QED BY <1>1, <1>3, PTL DEF ReplicaSpec

\* A job that uses one of the loaders behaves as that loader does, and as the others
\* do when nobody uses them.
LEMMA LoaderParts == LoaderSpec => Spec /\ PoolSpec /\ PartSpec /\ ReplicaSpec
<1>1. LoaderInit => Init /\ PoolInit /\ PartInit /\ ReplicaInit
  BY DEF LoaderInit
<1>2. [LoaderNext]_loaderVars =>
         [Next]_vars /\ [PoolNext]_poolVars /\ [PartNext]_partVars /\ [ReplicaNext]_replicaVars
  BY DEF LoaderNext, loaderVars
<1> QED BY <1>1, <1>2, PTL DEF LoaderSpec, Spec, PoolSpec, PartSpec, ReplicaSpec

\* Whatever a job does with its samples, the state of each loader keeps its type.
THEOREM LoadersTyped == LoaderSpec => []LoaderTypeOK
<1>1. JointInv => TypeOK
  BY DEF JointInv
<1>2. PoolInv => PoolTypeOK
  BY DEF PoolInv
<1>3. PartInv => PartTypeOK
  BY DEF PartInv
<1>4. RInv /\ TellInv /\ {keepGoing, profile} \subseteq BOOLEAN => ReplicaTypeOK
  BY DEF RInv, RankTypeOK, TellInv, ReplicaTypeOK
<1>5. TypeOK /\ PoolTypeOK /\ PartTypeOK /\ ReplicaTypeOK => LoaderTypeOK
  BY DEF LoaderTypeOK
<1> QED
  BY <1>1, <1>2, <1>3, <1>4, <1>5, LoaderParts, JointInvariance, PoolInvariance,
     PartInvariance, ReplicasTell, FlagsStay, PTL
=============================================================================
