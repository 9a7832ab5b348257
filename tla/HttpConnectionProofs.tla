------------------------ MODULE HttpConnectionProofs ------------------------
(* Proofs about HttpConnection, for any requests, calls, bodies, windows and *)
(* numbers of connections.                                                   *)
EXTENDS HttpConnection, SequenceTheorems, WellFoundedInduction, TLAPS

-----------------------------------------------------------------------------
(* Sums of sequences of numbers.                                           *)

\* Some natural numbers have a least one among them.
LEMMA LeastNumber ==
  ASSUME NEW T \in SUBSET Nat, T # {}
  PROVE  \E m \in T : \A k \in T : m <= k
PROOF
<1>1. \E m \in T : \A k \in T : <<k, m>> \notin OpToRel(<, Nat)
  BY WFMin, NatLessThanWellFounded, Zenon
<1>2. PICK m \in T : \A k \in T : <<k, m>> \notin {ss \in Nat \X Nat : ss[1] < ss[2]}
  BY <1>1, Zenon DEF OpToRel
<1>3. ASSUME NEW k \in T PROVE ~(k < m)
  <2>1. <<k, m>> \in Nat \X Nat => ~(<<k, m>>[1] < <<k, m>>[2])
    BY <1>2, Zenon
  <2> QED BY <2>1
<1> QED BY <1>3

\* Induction, with a set in the place of the predicate: a set that has 0 and, with
\* a number below n, the one after it has all up to n.
LEMMA UpTo ==
  ASSUME NEW n \in Nat, NEW S, 0 \in S,
         \A k \in Nat : k \in S /\ k < n => k + 1 \in S
  PROVE  0..n \subseteq S
PROOF
<1> SUFFICES ASSUME ~(0..n \subseteq S) PROVE FALSE
  OBVIOUS
<1> DEFINE T == {k \in 0..n : k \notin S}
<1>1. PICK m \in T : \A k \in T : m <= k
  <2>1. T \in SUBSET Nat /\ T # {}
    OBVIOUS
  <2> HIDE DEF T
  <2> QED BY <2>1, LeastNumber
<1>2. m \in 0..n /\ m # 0 /\ m \notin S
  OBVIOUS
<1>3. m - 1 \in Nat /\ m - 1 \in 0..n /\ ~(m <= m - 1)
  BY <1>2
<1>4. m - 1 \in S
  BY <1>1, <1>3
<1>5. (m - 1) + 1 \in S
  BY <1>2, <1>3, <1>4
<1> QED BY <1>2, <1>5

\* What FoldLeft computes of the first n numbers: a function on sets of places.
Folding(it, numbers, n) ==
  [s \in SUBSET (1..n) |-> IF s = {} THEN 0 ELSE it[s \ {Max(s)}] + numbers[Max(s)]]

LEMMA SumIsFolding ==
  ASSUME NEW numbers \in Seq(Nat)
  PROVE  Sum(numbers) = (CHOOSE it : it = Folding(it, numbers, Len(numbers)))[1..Len(numbers)]
PROOF
<1>1. DOMAIN numbers = 1..Len(numbers)
  OBVIOUS
<1> QED BY <1>1 DEF Sum, FoldLeft, MapThenFoldSet, Folding

LEMMA MaxIs ==
  ASSUME NEW s \in SUBSET Nat, NEW m \in s, \A k \in s : k <= m
  PROVE  Max(s) = m
PROOF
<1>1. \A x \in s : (\A y \in s : x >= y) <=> x = m
  <2>1. ASSUME NEW x \in s, \A y \in s : x >= y PROVE x = m
    <3>1. x >= m /\ x <= m /\ x \in Nat /\ m \in Nat
      BY <2>1
    <3> QED BY <3>1
  <2>2. \A y \in s : m >= y
    OBVIOUS
  <2> QED BY <2>1, <2>2
<1> QED BY <1>1, Zenon DEF Max

\* There is such a function, for every length.
LEMMA FoldingExists ==
  ASSUME NEW numbers \in Seq(Nat)
  PROVE  \E it : it = Folding(it, numbers, Len(numbers))
PROOF
<1> DEFINE S == {k \in Nat : \E it : it = Folding(it, numbers, k)}
<1>1. 0 \in S
  <2> DEFINE zero == [s \in SUBSET (1..0) |-> 0]
  <2>1. \A s \in SUBSET (1..0) : s = {}
    OBVIOUS
  <2>2. zero = Folding(zero, numbers, 0)
    BY <2>1 DEF Folding
  <2> QED BY <2>2
<1>2. ASSUME NEW k \in Nat, k \in S PROVE k + 1 \in S
  <2>1. PICK it : it = Folding(it, numbers, k)
    BY <1>2
  <2> DEFINE longer == [s \in SUBSET (1..(k + 1)) |->
               IF k + 1 \in s THEN it[s \ {k + 1}] + numbers[k + 1] ELSE it[s]]
             Right(s) == IF s = {} THEN 0 ELSE longer[s \ {Max(s)}] + numbers[Max(s)]
  <2>2. ASSUME NEW s \in SUBSET (1..(k + 1)) PROVE longer[s] = Right(s)
    <3>1. CASE k + 1 \in s
      <4>1. Max(s) = k + 1
        <5>1. s \in SUBSET Nat /\ \A j \in s : j <= k + 1
          OBVIOUS
        <5> QED BY <3>1, <5>1, MaxIs
      <4>2. s \ {k + 1} \in SUBSET (1..(k + 1)) /\ k + 1 \notin s \ {k + 1}
        OBVIOUS
      <4>3. longer[s \ {k + 1}] = it[s \ {k + 1}]
        BY <4>2
      <4>4. longer[s] = it[s \ {k + 1}] + numbers[k + 1]
        BY <3>1
      <4>5. s # {}
        BY <3>1
      <4> HIDE DEF longer
      <4> QED BY <4>1, <4>3, <4>4, <4>5
    <3>2. CASE k + 1 \notin s
      <4>1. s \in SUBSET (1..k) /\ s \ {Max(s)} \in SUBSET (1..(k + 1)) /\ k + 1 \notin s \ {Max(s)}
        <5>1. \A j \in 1..(k + 1) : j # k + 1 => j \in 1..k
          OBVIOUS
        <5>2. s \in SUBSET (1..k)
          BY <3>2, <5>1, Zenon
        <5> QED BY <3>2, <5>2
      <4>2. it[s] = IF s = {} THEN 0 ELSE it[s \ {Max(s)}] + numbers[Max(s)]
        <5>1. Folding(it, numbers, k)[s] = IF s = {} THEN 0 ELSE it[s \ {Max(s)}] + numbers[Max(s)]
          BY <4>1 DEF Folding
        <5> QED BY <5>1, <2>1
      <4>3. longer[s] = it[s] /\ longer[s \ {Max(s)}] = it[s \ {Max(s)}]
        BY <3>2, <4>1
      <4> HIDE DEF longer
      <4> QED BY <4>2, <4>3
    <3> QED BY <3>1, <3>2
  <2>3. longer = [s \in SUBSET (1..(k + 1)) |-> Right(s)]
    <3>1. longer = [s \in SUBSET (1..(k + 1)) |-> longer[s]]
      OBVIOUS
    <3> HIDE DEF longer
    <3> QED BY <2>2, <3>1
  <2>4. longer = Folding(longer, numbers, k + 1)
    <3> HIDE DEF longer
    <3> QED BY <2>3 DEF Folding
  <2> HIDE DEF longer
  <2> QED BY <2>4
<1> HIDE DEF S
<1>3. Len(numbers) \in Nat /\ 0..Len(numbers) \subseteq S
  <2>1. Len(numbers) \in Nat
    OBVIOUS
  <2> QED BY <1>1, <1>2, <2>1, UpTo
<1> QED BY <1>3 DEF S

\* What it is of the first k numbers, one number after the other.
AddsUp(it, numbers) ==
  /\ it[1..0] = 0
  /\ \A k \in 1..Len(numbers) : it[1..k] = it[1..(k - 1)] + numbers[k]

LEMMA FoldingAddsUp ==
  ASSUME NEW numbers \in Seq(Nat), NEW it, it = Folding(it, numbers, Len(numbers))
  PROVE  AddsUp(it, numbers)
PROOF
<1> SUFFICES ASSUME NEW k \in 0..Len(numbers)
             PROVE  it[1..k] = IF k = 0 THEN 0 ELSE it[1..(k - 1)] + numbers[k]
  <2>1. Len(numbers) \in Nat
    OBVIOUS
  <2>2. 0 \in 0..Len(numbers) /\ \A k \in 1..Len(numbers) : k \in 0..Len(numbers) /\ k # 0
    BY <2>1
  <2> QED BY <2>2 DEF AddsUp
<1>1. 1..k \in SUBSET (1..Len(numbers))
  OBVIOUS
<1>2. it[1..k] = IF 1..k = {} THEN 0 ELSE it[(1..k) \ {Max(1..k)}] + numbers[Max(1..k)]
  <2>1. Folding(it, numbers, Len(numbers))[1..k] =
           IF 1..k = {} THEN 0 ELSE it[(1..k) \ {Max(1..k)}] + numbers[Max(1..k)]
    BY <1>1 DEF Folding
  <2> QED BY <2>1
<1>3. CASE k = 0
  <2>1. 1..k = {}
    BY <1>3
  <2> QED BY <1>2, <1>3, <2>1
<1>4. CASE k # 0
  <2>1. k \in 1..k /\ \A j \in 1..k : k >= j
    BY <1>4
  <2>2. Max(1..k) = k
    <3>1. 1..k \in SUBSET Nat /\ \A j \in 1..k : j <= k
      OBVIOUS
    <3> QED BY <2>1, <3>1, MaxIs
  <2>3. (1..k) \ {k} = 1..(k - 1) /\ 1..k # {}
    <3>1. \A j : j \in (1..k) \ {k} <=> j \in 1..(k - 1)
      OBVIOUS
    <3> QED BY <2>1, <3>1
  <2> QED BY <1>2, <1>4, <2>2, <2>3
<1> QED BY <1>3, <1>4

\* The sum of no numbers.
LEMMA SumEmpty == Sum(<<>>) = 0
PROOF
<1> DEFINE it == CHOOSE it : it = Folding(it, <<>>, Len(<<>>))
<1>1. <<>> \in Seq(Nat) /\ Len(<<>>) = 0
  OBVIOUS
<1>2. it = Folding(it, <<>>, Len(<<>>))
  BY <1>1, FoldingExists
<1>3. Sum(<<>>) = it[1..0]
  BY <1>1, SumIsFolding
<1> HIDE DEF it
<1>4. AddsUp(it, <<>>)
  BY <1>1, <1>2, FoldingAddsUp
<1> QED BY <1>3, <1>4 DEF AddsUp

\* The sum is that of all numbers but the last, and the last; a sum of natural
\* numbers is one.
LEMMA SumAppend ==
  ASSUME NEW numbers \in Seq(Nat), NEW n \in Nat
  PROVE  /\ Sum(Append(numbers, n)) = Sum(numbers) + n
         /\ Sum(numbers) \in Nat
PROOF
<1> DEFINE longer == Append(numbers, n)
           last == Len(numbers)
           f == CHOOSE it : it = Folding(it, numbers, last)
           g == CHOOSE it : it = Folding(it, longer, last + 1)
           S == {k \in Nat : k <= last => f[1..k] = g[1..k] /\ f[1..k] \in Nat}
<1>1. /\ longer \in Seq(Nat) /\ Len(longer) = last + 1 /\ last \in Nat
      /\ \A k \in 1..last : longer[k] = numbers[k] /\ numbers[k] \in Nat
      /\ longer[last + 1] = n
  OBVIOUS
<1> HIDE DEF longer
<1>2. f = Folding(f, numbers, last) /\ Sum(numbers) = f[1..last]
  BY FoldingExists, SumIsFolding
<1>3. g = Folding(g, longer, Len(longer)) /\ Sum(longer) = g[1..(last + 1)]
  <2>1. \E it : it = Folding(it, longer, Len(longer))
    BY <1>1, FoldingExists
  <2>2. Sum(longer) = (CHOOSE it : it = Folding(it, longer, Len(longer)))[1..Len(longer)]
    BY <1>1, SumIsFolding
  <2> QED BY <1>1, <2>1, <2>2
<1> HIDE DEF f, g
<1>4. AddsUp(f, numbers)
  BY <1>2, FoldingAddsUp
<1>5. AddsUp(g, longer)
  BY <1>1, <1>3, FoldingAddsUp
<1> USE DEF AddsUp
<1>6. 0 \in S
  BY <1>1, <1>4, <1>5
<1>7. ASSUME NEW k \in Nat, k \in S, k < last PROVE k + 1 \in S
  <2>1. k + 1 \in 1..last /\ k + 1 \in 1..(last + 1) /\ (k + 1) - 1 = k /\ k <= last
    <3> HIDE DEF S
    <3> QED BY <1>1, <1>7
  <2>2. f[1..(k + 1)] = f[1..k] + numbers[k + 1] /\ g[1..(k + 1)] = g[1..k] + longer[k + 1]
    BY <1>1, <1>4, <1>5, <2>1
  <2>3. f[1..k] = g[1..k] /\ f[1..k] \in Nat
    BY <1>7, <2>1
  <2> QED BY <1>1, <2>1, <2>2, <2>3
<1>8. 0..last \subseteq S
  <2> HIDE DEF S, last
  <2> QED BY <1>1, <1>6, <1>7, UpTo
<1>9. last \in 0..last
  BY <1>1
<1>10. f[1..last] = g[1..last] /\ f[1..last] \in Nat
  BY <1>8, <1>9
<1>11. g[1..(last + 1)] = g[1..last] + n
  <2>1. last + 1 \in 1..Len(longer) /\ (last + 1) - 1 = last
    BY <1>1
  <2> QED BY <1>1, <1>5, <2>1
<1> QED BY <1>2, <1>3, <1>10, <1>11 DEF longer

LEMMA ConcatAppend ==
  ASSUME NEW S, NEW v \in Seq(S), NEW w \in Seq(S), NEW e \in S
  PROVE  v \o Append(w, e) = Append(v \o w, e)
PROOF
<1>1. <<e>> \in Seq(S) /\ v \o w \in Seq(S)
  OBVIOUS
<1>2. Append(w, e) = w \o <<e>>
  BY AppendIsConcat
<1>3. Append(v \o w, e) = (v \o w) \o <<e>>
  BY <1>1, AppendIsConcat
<1>4. (v \o w) \o <<e>> = v \o (w \o <<e>>)
  BY <1>1, ConcatAssociative
<1> QED BY <1>2, <1>3, <1>4

\* The sum of two sequences in a row.
LEMMA SumConcat ==
  ASSUME NEW v \in Seq(Nat), NEW w \in Seq(Nat)
  PROVE  Sum(v \o w) = Sum(v) + Sum(w)
PROOF
<1> DEFINE Part(k) == SubSeq(w, 1, k)
           S == {k \in Nat : k <= Len(w) => Sum(v \o Part(k)) = Sum(v) + Sum(Part(k))}
<1>1. Sum(v) \in Nat /\ Len(w) \in Nat
  BY SumAppend
<1>2. 0 \in S
  <2>1. Part(0) = <<>> /\ v \o <<>> = v
    OBVIOUS
  <2> HIDE DEF Part
  <2>2. Sum(v \o Part(0)) = Sum(v) /\ Sum(Part(0)) = 0
    BY <2>1, SumEmpty, Zenon
  <2>3. Sum(v \o Part(0)) = Sum(v) + Sum(Part(0))
    BY <1>1, <2>2
  <2> QED BY <2>3
<1>3. ASSUME NEW k \in Nat, k \in S, k < Len(w) PROVE k + 1 \in S
  <2>1. k + 1 \in 1..Len(w) /\ w[k + 1] \in Nat /\ Part(k) \in Seq(Nat) /\ v \o Part(k) \in Seq(Nat)
    BY <1>1, <1>3
  <2>2. Part(k + 1) = Append(Part(k), w[k + 1])
    BY <1>3, <2>1
  <2>3. v \o Append(Part(k), w[k + 1]) = Append(v \o Part(k), w[k + 1])
    <3> HIDE DEF Part
    <3> QED BY <2>1, ConcatAppend
  <2>4. Sum(v \o Part(k)) = Sum(v) + Sum(Part(k))
    BY <1>3
  <2> HIDE DEF Part
  <2>5. /\ Sum(Append(v \o Part(k), w[k + 1])) = Sum(v \o Part(k)) + w[k + 1]
        /\ Sum(Append(Part(k), w[k + 1])) = Sum(Part(k)) + w[k + 1] /\ Sum(Part(k)) \in Nat
    BY <2>1, SumAppend
  <2>6. /\ Sum(v \o Part(k + 1)) = Sum(v \o Part(k)) + w[k + 1]
        /\ Sum(Part(k + 1)) = Sum(Part(k)) + w[k + 1]
    BY <2>2, <2>3, <2>5, Zenon
  <2>7. Sum(v \o Part(k + 1)) = Sum(v) + Sum(Part(k + 1))
    BY <1>1, <2>1, <2>4, <2>5, <2>6
  <2> QED BY <2>7
<1>4. 0..Len(w) \subseteq S
  <2> HIDE DEF S
  <2> QED BY <1>1, <1>2, <1>3, UpTo
<1>5. Part(Len(w)) = w /\ Len(w) \in 0..Len(w) /\ Len(w) <= Len(w)
  BY <1>1
<1>6. Len(w) \in S
  BY <1>4, <1>5
<1> HIDE DEF Part
<1>7. Sum(v \o Part(Len(w))) = Sum(v) + Sum(Part(Len(w)))
  BY <1>5, <1>6
<1> QED BY <1>5, <1>7

\* What the elements of a sequence weigh together.
Weighed(weight, v) == Sum([i \in DOMAIN v |-> weight[v[i]]])

LEMMA WeightsAreNumbers ==
  ASSUME NEW S, NEW weight \in [S -> Nat], NEW v \in Seq(S)
  PROVE  [i \in DOMAIN v |-> weight[v[i]]] \in Seq(Nat)
PROOF
<1>1. DOMAIN v = 1..Len(v) /\ Len(v) \in Nat /\ \A i \in 1..Len(v) : v[i] \in S
  BY LenProperties, ElementOfSeq
<1>2. [i \in DOMAIN v |-> weight[v[i]]] \in [1..Len(v) -> Nat]
  BY <1>1
<1> QED BY <1>1, <1>2, SeqDef

LEMMA WeighedEmpty == \A weight : Weighed(weight, <<>>) = 0
PROOF
<1>1. \A weight : [i \in DOMAIN <<>> |-> weight[<<>>[i]]] = <<>>
  OBVIOUS
<1> QED BY <1>1, SumEmpty, Zenon DEF Weighed

LEMMA WeighedConcat ==
  ASSUME NEW S, NEW weight \in [S -> Nat], NEW v \in Seq(S), NEW w \in Seq(S)
  PROVE  /\ Weighed(weight, v \o w) = Weighed(weight, v) + Weighed(weight, w)
         /\ Weighed(weight, v) \in Nat
PROOF
<1> DEFINE Weights(u) == [i \in DOMAIN u |-> weight[u[i]]]
<1>1. Weights(v) \in Seq(Nat) /\ Weights(w) \in Seq(Nat)
  BY WeightsAreNumbers
<1>2. /\ v \o w \in Seq(S) /\ Len(v \o w) = Len(v) + Len(w)
      /\ \A i \in 1..Len(v) + Len(w) : (v \o w)[i] = IF i <= Len(v) THEN v[i] ELSE w[i - Len(v)]
  BY ConcatProperties
<1>3. Weights(v \o w) \in Seq(Nat)
  BY <1>2, WeightsAreNumbers
<1>4. /\ DOMAIN v = 1..Len(v) /\ Len(v) \in Nat
      /\ DOMAIN w = 1..Len(w) /\ Len(w) \in Nat
      /\ DOMAIN (v \o w) = 1..Len(v) + Len(w)
  BY <1>2, LenProperties
<1>5. \A u \in Seq(S) : Weights(u) \in Seq(Nat) => Len(Weights(u)) = Len(u)
  OBVIOUS
<1>6. /\ Weights(v) \o Weights(w) \in Seq(Nat)
      /\ Len(Weights(v) \o Weights(w)) = Len(v) + Len(w)
      /\ \A i \in 1..Len(v) + Len(w) : (Weights(v) \o Weights(w))[i] =
            IF i <= Len(v) THEN Weights(v)[i] ELSE Weights(w)[i - Len(v)]
  <2>1. Len(Weights(v)) = Len(v) /\ Len(Weights(w)) = Len(w)
    BY <1>1, <1>5
  <2> HIDE DEF Weights
  <2>2. /\ Weights(v) \o Weights(w) \in Seq(Nat)
        /\ Len(Weights(v) \o Weights(w)) = Len(Weights(v)) + Len(Weights(w))
        /\ \A i \in 1..Len(Weights(v)) + Len(Weights(w)) : (Weights(v) \o Weights(w))[i] =
              IF i <= Len(Weights(v)) THEN Weights(v)[i] ELSE Weights(w)[i - Len(Weights(v))]
    BY <1>1, ConcatProperties, Zenon
  <2> QED BY <2>1, <2>2
<1>7. ASSUME NEW i \in 1..Len(v) + Len(w)
      PROVE  Weights(v \o w)[i] = (Weights(v) \o Weights(w))[i]
  <2>1. Weights(v \o w)[i] = weight[(v \o w)[i]]
    BY <1>4
  <2>2. CASE i <= Len(v)
    <3>1. i \in DOMAIN v /\ Weights(v)[i] = weight[v[i]]
      BY <1>4, <2>2
    <3> QED BY <1>2, <1>6, <2>1, <2>2, <3>1
  <2>3. CASE ~(i <= Len(v))
    <3>1. i - Len(v) \in DOMAIN w /\ Weights(w)[i - Len(v)] = weight[w[i - Len(v)]]
      BY <1>4, <2>3
    <3> QED BY <1>2, <1>6, <2>1, <2>3, <3>1
  <2> QED BY <2>2, <2>3
<1>8. Len(Weights(v \o w)) = Len(v) + Len(w)
  BY <1>2, <1>3, <1>5
<1> HIDE DEF Weights
<1>9. Weights(v \o w) = Weights(v) \o Weights(w)
  BY <1>3, <1>6, <1>7, <1>8, SeqEqual
<1>10. Sum(Weights(v \o w)) = Sum(Weights(v)) + Sum(Weights(w)) /\ Sum(Weights(v)) \in Nat
  BY <1>1, <1>9, SumConcat, SumAppend
<1> QED BY <1>10 DEF Weighed, Weights

LEMMA WeighedOne ==
  ASSUME NEW S, NEW weight \in [S -> Nat], NEW e \in S
  PROVE  Weighed(weight, <<e>>) = weight[e]
PROOF
<1>1. [i \in DOMAIN <<e>> |-> weight[<<e>>[i]]] = Append(<<>>, weight[e])
  OBVIOUS
<1>2. weight[e] \in Nat /\ <<>> \in Seq(Nat)
  OBVIOUS
<1>3. Sum(Append(<<>>, weight[e])) = 0 + weight[e]
  BY <1>2, SumAppend, SumEmpty
<1> QED BY <1>1, <1>2, <1>3 DEF Weighed

-----------------------------------------------------------------------------
(* Removing from a sequence.                                               *)

\* No element is in it twice.
Distinct(s) == \A i, j \in DOMAIN s : s[i] = s[j] => i = j

LEMMA MinIs ==
  ASSUME NEW I \in SUBSET Nat, I # {}
  PROVE  Min(I) \in I
PROOF
<1>1. \E x \in I : \A y \in I : x <= y
  BY LeastNumber
<1> QED BY <1>1, Zenon DEF Min

LEMMA RemoveAtIs ==
  ASSUME NEW S, NEW s \in Seq(S), NEW k \in 1..Len(s)
  PROVE  /\ RemoveAt(s, k) \in Seq(S) /\ Len(RemoveAt(s, k)) = Len(s) - 1
         /\ \A i \in 1..(Len(s) - 1) : RemoveAt(s, k)[i] = IF i < k THEN s[i] ELSE s[i + 1]
PROOF
<1> DEFINE a == SubSeq(s, 1, k - 1)
           b == SubSeq(s, k + 1, Len(s))
<1>1. Len(s) \in Nat /\ k \in Nat /\ k - 1 \in Int /\ k + 1 \in Int /\ 1 \in Int /\ Len(s) \in Int
  OBVIOUS
<1>2. /\ a \in Seq(S) /\ Len(a) = k - 1
      /\ \A i \in 1..(k - 1) : a[i] = s[i]
  <2>1. \A i \in 1..(k - 1) : s[i] \in S
    OBVIOUS
  <2> QED BY <1>1, <2>1, SubSeqProperties
<1>3. /\ b \in Seq(S) /\ Len(b) = Len(s) - k
      /\ \A i \in 1..(Len(s) - k) : b[i] = s[k + i]
  <2>1. \A i \in (k + 1)..Len(s) : s[i] \in S
    OBVIOUS
  <2>2. /\ b \in Seq(S)
        /\ Len(b) = IF k + 1 <= Len(s) THEN Len(s) - (k + 1) + 1 ELSE 0
        /\ \A i \in 1..(Len(s) - (k + 1) + 1) : b[i] = s[(k + 1) + i - 1]
    BY <1>1, <2>1, SubSeqProperties
  <2> HIDE DEF b
  <2>3. Len(b) = Len(s) - k
    BY <1>1, <2>2
  <2>4. ASSUME NEW i \in 1..(Len(s) - k) PROVE b[i] = s[k + i]
    <3>1. i \in 1..(Len(s) - (k + 1) + 1) /\ (k + 1) + i - 1 = k + i
      BY <1>1
    <3> QED BY <2>2, <3>1
  <2> QED BY <2>2, <2>3, <2>4
<1> HIDE DEF a, b
<1>4. /\ a \o b \in Seq(S)
      /\ Len(a \o b) = Len(a) + Len(b)
      /\ \A i \in 1..Len(a) + Len(b) : (a \o b)[i] = IF i <= Len(a) THEN a[i] ELSE b[i - Len(a)]
  BY <1>2, <1>3, ConcatProperties, Zenon
<1>5. ASSUME NEW i \in 1..(Len(s) - 1)
      PROVE  (a \o b)[i] = IF i < k THEN s[i] ELSE s[i + 1]
  <2>1. CASE i < k
    <3>1. i \in 1..Len(a) + Len(b) /\ i <= Len(a) /\ i \in 1..(k - 1)
      BY <1>1, <1>2, <1>3, <2>1
    <3> QED BY <1>2, <1>4, <2>1, <3>1
  <2>2. CASE ~(i < k)
    <3>1. i \in 1..Len(a) + Len(b) /\ ~(i <= Len(a)) /\ i - Len(a) \in 1..(Len(s) - k) /\ k + (i - Len(a)) = i + 1
      BY <1>1, <1>2, <1>3, <2>2
    <3> QED BY <1>3, <1>4, <2>2, <3>1
  <2> QED BY <2>1, <2>2
<1>6. RemoveAt(s, k) = a \o b
  BY DEF RemoveAt, a, b
<1>7. Len(a \o b) = Len(s) - 1
  BY <1>1, <1>2, <1>3, <1>4
<1> QED BY <1>4, <1>5, <1>6, <1>7

\* A sequence without an element that it had once: the others stay.
LEMMA RemoveFirstIs ==
  ASSUME NEW S, NEW s \in Seq(S), Distinct(s), NEW x
  PROVE  /\ RemoveFirst(s, x) \in Seq(S)
         /\ Range(RemoveFirst(s, x)) = Range(s) \ {x}
         /\ Distinct(RemoveFirst(s, x))
PROOF
<1>1. Len(s) \in Nat /\ DOMAIN s = 1..Len(s)
  OBVIOUS
<1>2. CASE \E i \in 1..Len(s) : s[i] = x
  <2> DEFINE I == {i \in 1..Len(s) : s[i] = x}
             k == Min(I)
             t == RemoveAt(s, k)
  <2>1. RemoveFirst(s, x) = t
    BY <1>2 DEF RemoveFirst, SelectInSeq
  <2>2. k \in I
    <3>1. I \in SUBSET Nat /\ I # {}
      BY <1>2
    <3> HIDE DEF I
    <3> QED BY <3>1, MinIs
  <2>3. k \in 1..Len(s) /\ s[k] = x
    BY <2>2
  <2> HIDE DEF I, k
  <2>4. /\ t \in Seq(S) /\ Len(t) = Len(s) - 1
        /\ \A i \in 1..(Len(s) - 1) : t[i] = IF i < k THEN s[i] ELSE s[i + 1]
    BY <2>3, RemoveAtIs
  <2> HIDE DEF t
  <2>5. DOMAIN t = 1..(Len(s) - 1)
    BY <2>4
  <2>6. ASSUME NEW i \in DOMAIN t
        PROVE  \E j \in DOMAIN s : j # k /\ t[i] = s[j] /\ j = IF i < k THEN i ELSE i + 1
    BY <1>1, <2>3, <2>4, <2>5
  <2>7. ASSUME NEW j \in DOMAIN s, j # k
        PROVE  \E i \in DOMAIN t : t[i] = s[j]
    <3>1. CASE j < k
      <4>1. j \in DOMAIN t /\ t[j] = s[j]
        BY <1>1, <2>3, <2>4, <2>5, <3>1
      <4> QED BY <4>1
    <3>2. CASE ~(j < k)
      <4>1. j - 1 \in DOMAIN t /\ ~(j - 1 < k) /\ (j - 1) + 1 = j
        BY <1>1, <2>3, <2>5, <2>7, <3>2
      <4>2. t[j - 1] = s[j]
        BY <2>4, <2>5, <4>1
      <4> QED BY <4>1, <4>2
    <3> QED BY <3>1, <3>2
  <2>8. \A j \in DOMAIN s : s[j] = x <=> j = k
    BY <1>1, <2>3 DEF Distinct
  <2>9. Range(t) = Range(s) \ {x}
    <3>1. ASSUME NEW y \in Range(t) PROVE y \in Range(s) \ {x}
      BY <2>6, <2>8, <3>1 DEF Range
    <3>2. ASSUME NEW y \in Range(s) \ {x} PROVE y \in Range(t)
      <4>1. PICK j \in DOMAIN s : s[j] = y
        BY DEF Range
      <4>2. j # k
        BY <2>8, <4>1
      <4> QED BY <2>7, <4>1, <4>2 DEF Range
    <3> QED BY <3>1, <3>2
  <2>10. Distinct(t)
    <3> SUFFICES ASSUME NEW i \in DOMAIN t, NEW j \in DOMAIN t, t[i] = t[j] PROVE i = j
      BY DEF Distinct
    <3>1. PICK p \in DOMAIN s : t[i] = s[p] /\ p = IF i < k THEN i ELSE i + 1
      BY <2>6
    <3>2. PICK q \in DOMAIN s : t[j] = s[q] /\ q = IF j < k THEN j ELSE j + 1
      BY <2>6
    <3>3. p = q
      BY <3>1, <3>2 DEF Distinct
    <3> QED BY <2>3, <2>5, <3>1, <3>2, <3>3
  <2> QED BY <2>1, <2>4, <2>9, <2>10
<1>3. CASE ~\E i \in 1..Len(s) : s[i] = x
  <2>1. RemoveFirst(s, x) = s
    BY <1>3 DEF RemoveFirst
  <2>2. x \notin Range(s)
    BY <1>1, <1>3 DEF Range
  <2> QED BY <2>1, <2>2
<1> QED BY <1>2, <1>3

-----------------------------------------------------------------------------
(* Bytes of frames, windows of events.                                     *)

AnswerKinds == Answers \cup {"nothing"}
Frame == [of : Requests, bytes : Nat, end : BOOLEAN]
Happening == [kind : {"head", "end", "reset", "window"}, of : Requests \cup {Whole}, bytes : Nat,
              answer : AnswerKinds]

LEMMA NoBytes == \A r : Bytes(<<>>, r) = 0 /\ AllBytes(<<>>) = 0 /\ Opened(<<>>, r) = 0
PROOF
<1> SUFFICES ASSUME NEW r PROVE Bytes(<<>>, r) = 0 /\ AllBytes(<<>>) = 0 /\ Opened(<<>>, r) = 0
  OBVIOUS
<1>1. /\ [i \in DOMAIN <<>> |-> IF <<>>[i].of = r THEN <<>>[i].bytes ELSE 0] = <<>>
      /\ [i \in DOMAIN <<>> |-> <<>>[i].bytes] = <<>>
      /\ [i \in DOMAIN <<>> |-> IF Opens(<<>>[i], r) THEN <<>>[i].bytes ELSE 0] = <<>>
  OBVIOUS
<1> QED BY <1>1, SumEmpty, Zenon DEF Bytes, AllBytes, Opened

\* They are weights of the frames and of the events.
OfStream(r) == [f \in Frame |-> IF f.of = r THEN f.bytes ELSE 0]
OfAny       == [f \in Frame |-> f.bytes]
OfWindow(w) == [e \in Happening |-> IF Opens(e, w) THEN e.bytes ELSE 0]

LEMMA WeightsOf ==
  /\ \A r : OfStream(r) \in [Frame -> Nat]
  /\ OfAny \in [Frame -> Nat]
  /\ \A w : OfWindow(w) \in [Happening -> Nat]
BY DEF OfStream, OfAny, OfWindow, Frame, Happening

LEMMA BytesWeighed ==
  ASSUME NEW frames \in Seq(Frame)
  PROVE  /\ \A r : Bytes(frames, r) = Weighed(OfStream(r), frames)
         /\ AllBytes(frames) = Weighed(OfAny, frames)
PROOF
<1>1. \A i \in DOMAIN frames : frames[i] \in Frame
  OBVIOUS
<1>2. /\ \A r : [i \in DOMAIN frames |-> IF frames[i].of = r THEN frames[i].bytes ELSE 0]
                   = [i \in DOMAIN frames |-> OfStream(r)[frames[i]]]
      /\ [i \in DOMAIN frames |-> frames[i].bytes] = [i \in DOMAIN frames |-> OfAny[frames[i]]]
  BY <1>1 DEF OfStream, OfAny
<1> QED BY <1>2, Zenon DEF Bytes, AllBytes, Weighed

LEMMA OpenedWeighed ==
  ASSUME NEW events \in Seq(Happening)
  PROVE  \A w : Opened(events, w) = Weighed(OfWindow(w), events)
PROOF
<1>1. \A i \in DOMAIN events : events[i] \in Happening
  OBVIOUS
<1>2. \A w : [i \in DOMAIN events |-> IF Opens(events[i], w) THEN events[i].bytes ELSE 0]
               = [i \in DOMAIN events |-> OfWindow(w)[events[i]]]
  BY <1>1 DEF OfWindow
<1> QED BY <1>2, Zenon DEF Opened, Weighed

\* Frames after frames have the bytes of both.
LEMMA BytesAdd ==
  ASSUME NEW frames \in Seq(Frame), NEW more \in Seq(Frame)
  PROVE  /\ \A r : /\ Bytes(frames \o more, r) = Bytes(frames, r) + Bytes(more, r)
                   /\ Bytes(frames, r) \in Nat
         /\ AllBytes(frames \o more) = AllBytes(frames) + AllBytes(more)
         /\ AllBytes(frames) \in Nat
PROOF
<1>1. frames \o more \in Seq(Frame)
  BY ConcatProperties, Zenon
<1>2. \A r : /\ Weighed(OfStream(r), frames \o more) = Weighed(OfStream(r), frames) + Weighed(OfStream(r), more)
             /\ Weighed(OfStream(r), frames) \in Nat
  BY WeightsOf, WeighedConcat
<1>3. /\ Weighed(OfAny, frames \o more) = Weighed(OfAny, frames) + Weighed(OfAny, more)
      /\ Weighed(OfAny, frames) \in Nat
  BY WeightsOf, WeighedConcat
<1> QED BY <1>1, <1>2, <1>3, BytesWeighed

LEMMA BytesOfOne ==
  ASSUME NEW f \in Frame
  PROVE  /\ \A r : Bytes(<<f>>, r) = IF f.of = r THEN f.bytes ELSE 0
         /\ AllBytes(<<f>>) = f.bytes
PROOF
<1>1. <<f>> \in Seq(Frame)
  OBVIOUS
<1>2. \A r : Weighed(OfStream(r), <<f>>) = OfStream(r)[f]
  BY WeightsOf, WeighedOne
<1>3. Weighed(OfAny, <<f>>) = OfAny[f]
  BY WeightsOf, WeighedOne
<1> QED BY <1>1, <1>2, <1>3, BytesWeighed DEF OfStream, OfAny

\* Events after events open the windows by what both do.
LEMMA OpenedAdd ==
  ASSUME NEW events \in Seq(Happening), NEW more \in Seq(Happening)
  PROVE  \A w : /\ Opened(events \o more, w) = Opened(events, w) + Opened(more, w)
                /\ Opened(events, w) \in Nat
PROOF
<1>1. events \o more \in Seq(Happening)
  BY ConcatProperties, Zenon
<1>2. \A w : /\ Weighed(OfWindow(w), events \o more) = Weighed(OfWindow(w), events) + Weighed(OfWindow(w), more)
             /\ Weighed(OfWindow(w), events) \in Nat
  BY WeightsOf, WeighedConcat
<1> QED BY <1>1, <1>2, OpenedWeighed

LEMMA OpenedOne ==
  ASSUME NEW e \in Happening
  PROVE  \A w : Opened(<<e>>, w) = IF Opens(e, w) THEN e.bytes ELSE 0
PROOF
<1>1. <<e>> \in Seq(Happening)
  OBVIOUS
<1>2. \A w : Weighed(OfWindow(w), <<e>>) = OfWindow(w)[e]
  BY WeightsOf, WeighedOne
<1> QED BY <1>1, <1>2, OpenedWeighed DEF OfWindow

\* A chunk and the rest of the events.
LEMMA OpenedSplit ==
  ASSUME NEW events \in Seq(Happening), NEW k \in DOMAIN events
  PROVE  LET first == SubSeq(events, 1, k)
             rest  == SubSeq(events, k + 1, Len(events))
         IN /\ first \in Seq(Happening) /\ rest \in Seq(Happening)
            /\ \A w : Opened(events, w) = Opened(first, w) + Opened(rest, w)
PROOF
<1> DEFINE first == SubSeq(events, 1, k)
           rest  == SubSeq(events, k + 1, Len(events))
<1>1. Len(events) \in Nat /\ k \in 1..Len(events)
  OBVIOUS
<1>2. first \in Seq(Happening) /\ rest \in Seq(Happening)
  OBVIOUS
<1>3. first \o rest = events
  <2>1. 1 \in 1..Len(events) + 1 /\ k \in (1 - 1)..Len(events) /\ Len(events) \in k..Len(events)
    BY <1>1
  <2>2. first \o rest = SubSeq(events, 1, Len(events))
    BY <2>1, ConcatAdjacentSubSeq
  <2> QED BY <2>2, SubSeqFull
<1> HIDE DEF first, rest
<1>4. \A w : Opened(first \o rest, w) = Opened(first, w) + Opened(rest, w)
  BY <1>2, OpenedAdd
<1>5. \A w : Opened(events, w) = Opened(first, w) + Opened(rest, w)
  BY <1>3, <1>4
<1> QED BY <1>2, <1>5 DEF first, rest

-----------------------------------------------------------------------------
(* The calls: which of their classes take what for a success.              *)

\* An error is no success, but of a file; nothing is none, but of a file, of an
\* empty answer or of a profile.
Tells(c) ==
  /\ c.response.file \in BOOLEAN /\ c.response.page \in BOOLEAN
  /\ ~R!Valid(R!ErrorBody, c.response.schema) \/ c.response.file
  /\ ~R!Valid(R!NoBody, c.response.schema) \/ c.response.file \/ c.response.schema.closed \/ c = get_profile

LEMMA CallsTell == \A c \in Calls : Tells(c)
PROOF
<1> USE DEF Tells, C!Call, C!LoggedIn, C!LoggedInAbout, C!WithStore, C!WithStoreAbout,
            R!Verified, R!Needs, R!Valid, R!ErrorBody, R!NoBody, R!Object, R!error, R!empty, R!Unchecked
<1>1. Tells(login_info) /\ Tells(login) /\ Tells(login_raw) /\ Tells(room_send) /\ Tells(room_put_state)
  BY DEF login_info, login, login_raw, room_send, room_put_state, R!LoginInfoResponse, R!login_info,
         R!LoginResponse, R!login, R!RoomSendResponse, R!RoomPutStateResponse, R!room_event_id
<1>2. Tells(room_redact) /\ Tells(room_create) /\ Tells(join) /\ Tells(room_messages) /\ Tells(sync)
  BY DEF room_redact, room_create, join, room_messages, sync, R!RoomRedactResponse, R!room_event_id,
         R!RoomCreateResponse, R!room_create_response, R!JoinResponse, R!RoomIdResponse, R!room_id,
         R!RoomMessagesResponse, R!room_messages, R!SyncResponse, R!sync
<1>3. Tells(room_kick) /\ Tells(room_invite) /\ Tells(room_leave) /\ Tells(update_device)
  BY DEF room_kick, room_invite, room_leave, update_device, R!RoomKickResponse, R!RoomInviteResponse,
         R!RoomLeaveResponse, R!UpdateDeviceResponse, R!EmptyResponse
<1>4. Tells(room_forget) /\ Tells(room_typing) /\ Tells(room_read_markers)
  BY DEF room_forget, room_typing, room_read_markers, R!RoomForgetResponse, R!RoomTypingResponse,
         R!RoomReadMarkersResponse, R!EmptyResponseWithRoomId
<1>5. Tells(set_displayname) /\ Tells(set_avatar) /\ Tells(delete_devices)
  BY DEF set_displayname, set_avatar, delete_devices, R!ProfileSetDisplayNameResponse,
         R!ProfileSetAvatarResponse, R!DeleteDevicesResponse, R!EmptyResponse
<1>6. Tells(share_group_session) /\ Tells(request_room_key) /\ Tells(to_device)
  BY DEF share_group_session, request_room_key, to_device, R!ShareGroupSessionResponse,
         R!RoomKeyRequestResponse, R!ToDeviceResponse
<1>7. Tells(download) /\ Tells(thumbnail)
  BY DEF download, thumbnail, R!DownloadResponse, R!ThumbnailResponse, R!FileResponse
<1>8. Tells(keys_upload) /\ Tells(keys_query) /\ Tells(keys_claim) /\ Tells(devices) /\ Tells(joined_members)
  BY DEF keys_upload, keys_query, keys_claim, devices, joined_members, R!KeysUploadResponse, R!keys_upload,
         R!KeysQueryResponse, R!keys_query, R!KeysClaimResponse, R!keys_claim, R!DevicesResponse, R!devices,
         R!JoinedMembersResponse, R!joined_members
<1>9. Tells(get_displayname) /\ Tells(get_avatar)
  BY DEF get_displayname, get_avatar, R!ProfileGetDisplayNameResponse, R!get_displayname,
         R!ProfileGetAvatarResponse, R!get_avatar
<1>10. Tells(get_profile)
  BY DEF get_profile, R!ProfileGetResponse, R!get_profile
<1> HIDE DEF Tells, C!Call, C!LoggedIn, C!LoggedInAbout, C!WithStore, C!WithStoreAbout
<1> QED BY <1>1, <1>2, <1>3, <1>4, <1>5, <1>6, <1>7, <1>8, <1>9, <1>10 DEF Calls

\* A success stands for an answer in full, or is one that SuccessIsReal excuses.
Earned(call, answer, outcome) ==
  outcome = "success" /\ answer # "full" =>
    \/ call.response.file \/ (answer # "error" /\ call.response.schema.closed)
    \/ answer # "error" /\ call = get_profile

LEMMA OutcomesAreEarned ==
  ASSUME Answers \subseteq {"full", "error", "page"},
         NEW call \in Calls, NEW a \in AnswerKinds, NEW typed
  PROVE  /\ CreateResponse(call, AnswerTo(call, a), typed) \in {"success", "error", "raises"}
         /\ Earned(call, a, CreateResponse(call, AnswerTo(call, a), typed))
PROOF
<1> DEFINE answer == AnswerTo(call, a)
           outcome == CreateResponse(call, answer, typed)
<1>1. Tells(call)
  BY CallsTell
<1>2. a \in {"full", "error", "page", "nothing"}
  BY DEF AnswerKinds
<1>3. /\ a = "error" => answer.body = R!ErrorBody
      /\ a \in {"page", "nothing"} => answer.body = R!NoBody
  BY DEF AnswerTo, R!Answer
<1> HIDE DEF answer
<1>4. \A class, given : /\ R!ParseDict(class, answer, given) \in {"success", "error", "raises"}
                        /\ R!ParseDict(class, answer, given) = "success" => R!Valid(answer.body, class.schema)
  BY DEF R!ParseDict, R!Valid
<1>5. CASE call.response.file
  <2>1. outcome = FileOf(call.response, answer, typed)
    BY <1>5 DEF CreateResponse
  <2>2. outcome \in {"success", "error", "raises"}
    BY <1>1, <2>1 DEF FileOf, Tells
  <2> HIDE DEF outcome
  <2> QED BY <1>5, <2>2 DEF Earned, answer, outcome
<1>6. CASE ~call.response.file
  <2>1. outcome = "raises" \/ outcome = R!ParseDict(call.response, answer, call.given)
    BY <1>6 DEF CreateResponse
  <2> HIDE DEF outcome
  <2>2. outcome \in {"success", "error", "raises"}
    BY <1>4, <2>1
  <2>3. outcome = "success" => R!Valid(answer.body, call.response.schema)
    BY <1>4, <2>1
  <2>4. Earned(call, a, outcome)
    BY <1>1, <1>2, <1>3, <1>6, <2>3 DEF Tells, Earned
  <2> QED BY <2>2, <2>4 DEF answer, outcome
<1> QED BY <1>1, <1>5, <1>6 DEF Tells

-----------------------------------------------------------------------------
(* What is inductive.                                                      *)

Servers == {"none", "open", "whole", "answered", "reset"}
Note == [info : Requests, of : Requests, answer : AnswerKinds, typed : BOOLEAN]

\* The kinds of values.
Shape ==
  /\ setup \in Setups
  /\ transport \in {"none", "http", "http2"} /\ connects \in 0..MaxConnects
  /\ left \in [Requests -> Nat] /\ got \in [Requests -> Nat] /\ stream \in [Requests -> Nat]
  /\ window \in Nat /\ owed \in [Requests \cup {Whole} -> Nat]
  /\ server \in [Requests -> Servers]
  /\ outbox \in Seq(Frame) /\ chunk \in Seq(Happening) /\ inbound \in Seq(Happening)

\* Whatever is kept is of calls that were made; a buffer has a body once.
About(events, those) ==
  \A i \in DOMAIN events : /\ events[i].of \in those \cup {Whole}
                           /\ events[i].kind # "window" => events[i].of \in those
Ours ==
  /\ sent \subseteq Requests /\ spoilt \subseteq sent /\ heads \subseteq sent
  /\ refused \subseteq sent /\ forgotten \subseteq refused
  /\ current \in sent \cup {NoRequest} /\ message_queue \in Seq(sent)
  /\ responses \subseteq sent /\ buffered \in Seq(sent) /\ loop \in Seq(sent)
  /\ Distinct(buffered)
  /\ loop # <<>> => chunk # <<>>
  /\ \A i \in DOMAIN outbox : outbox[i].of \in sent
  /\ About(chunk, sent) /\ About(inbound, sent)
  /\ \A r \in Requests \ sent : server[r] = "none"

\* What the other kind of connection uses is as it was at first.
Apart ==
  /\ transport = "none" =>
       /\ made = <<>> /\ parse_queue = <<>> /\ chunk = <<>> /\ inbound = <<>>
       /\ server = [r \in Requests |-> "none"]
  /\ transport # "http" => current = NoRequest /\ message_queue = <<>>
  /\ transport # "http2" =>
       /\ responses = {} /\ buffered = <<>> /\ outbox = <<>> /\ loop = <<>>
       /\ owed = [w \in Requests \cup {Whole} |-> 0] /\ left = setup.size

\* Over HTTP/1 the homeserver has the current request, and what it says is the
\* answer to that: its end is the last of it.
InTurn ==
  transport = "http" =>
    /\ Distinct(message_queue) /\ current \notin Range(message_queue)
    /\ \A r \in Range(message_queue) : server[r] = "none"
    /\ \A r \in Requests : server[r] = "whole" => r = current
    /\ \A i \in DOMAIN chunk : /\ chunk[i].of = current /\ chunk[i].kind \in {"head", "end"}
                               /\ chunk[i].kind = "end" => i = Len(chunk) /\ inbound = <<>>
    /\ \A i \in DOMAIN inbound : /\ inbound[i].of = current /\ inbound[i].kind \in {"head", "end"}
                                 /\ inbound[i].kind = "end" => i = Len(inbound)
    /\ chunk # <<>> \/ inbound # <<>> => current # NoRequest /\ server[current] = "answered"

\* A window is what is open of it, what is on its way, what the homeserver has
\* yet to open again and what it has opened but not yet said.
WindowsAddUp ==
  /\ window + AllBytes(outbox) + owed[Whole] + Opened(inbound, Whole) = Window
  /\ \A r \in Requests : stream[r] + Bytes(outbox, r) + owed[r] + Opened(inbound, r) = Window

\* A body is what the homeserver has of it, what is on its way and what is left,
\* and its end comes after all of it.
BodiesAddUp ==
  /\ transport = "http2" =>
       /\ \A r \in Requests : /\ got[r] + Bytes(outbox, r) + left[r] = Size(r)
                              /\ server[r] \in {"whole", "answered"} => got[r] = Size(r)
       /\ \A i \in DOMAIN outbox : outbox[i].end => left[outbox[i].of] = 0
       /\ \A r \in Range(buffered) : left[r] > 0
       /\ \A r \in responses : left[r] > 0 => r \in Range(buffered)
  /\ transport # "http2" => \A r \in Requests : got[r] <= Size(r)

\* What is noted is waited for, and what has been answered is not noted any more.
NotesKept ==
  /\ DOMAIN made \subseteq Uuids
  /\ \A u \in DOMAIN made : made[u] \in sent /\ Tx(made[u]) = u /\ made[u] \in Waiting \cup spoilt
  /\ \A r \in Waiting : Tx(r) \in DOMAIN made \/ \E q \in sent \ {r} : Tx(q) = Tx(r)
  /\ parse_queue \in Seq(Note)
  /\ \A i \in DOMAIN parse_queue :
       LET x == parse_queue[i]
       IN /\ x.info \in sent /\ x.of \in sent /\ Tx(x.of) = Tx(x.info)
          /\ \A u \in DOMAIN made : made[u] # x.info /\ made[u] # x.of

\* The answers that were handled.
Handled ==
  \A x \in handled : /\ Tx(x.of) = Tx(x.info)
                     /\ x.outcome \in {"success", "error", "raises"}
                     /\ Earned(CallOf(x.info), x.answer, x.outcome)

Base == Shape /\ Ours /\ Apart /\ InTurn
Sums == WindowsAddUp /\ BodiesAddUp
HttpInv == Base /\ Sums /\ NotesKept /\ Handled

\* What a setup says of a request.
LEMMA SetupTyped ==
  ASSUME setup \in Setups
  PROVE  /\ setup.size \in [Requests -> Nat] /\ setup.tx \in [Requests -> Nat]
         /\ setup.call \in [Requests -> Calls]
         /\ \A r \in Requests : Size(r) \in Nat /\ Tx(r) \in Uuids /\ CallOf(r) \in Calls
BY ConstantsAssumption DEF Size, Tx, CallOf, Uuids

\* A connection of its own.
LEMMA FreshKeeps ==
  ASSUME HttpInv, FreshConnection, transport' \in {"none", "http", "http2"}, connects' \in 0..MaxConnects,
         transport' = "none" => made' = <<>> /\ parse_queue' = <<>>,
         UNCHANGED <<setup, sent>>, spoilt' \subseteq sent
  PROVE  Base' /\ Sums'
PROOF
<1> USE ConstantsAssumption DEF HttpInv, FreshConnection
<1>0. setup.size \in [Requests -> Nat] /\ \A r \in Requests : Size(r) \in Nat
  BY SetupTyped DEF Base, Shape
<1>1. Shape'
  BY <1>0 DEF Base, Shape, Servers
<1>2. Ours'
  <2>1. sent \subseteq Requests
    BY DEF Base, Ours
  <2> QED BY <2>1 DEF Ours, Distinct, About
<1>3. Apart'
  BY DEF Apart
<1>4. InTurn'
  <2>1. NoRequest \notin Range(<<>>) /\ \A r \in Range(<<>>) : FALSE
    BY DEF Range
  <2> QED BY <2>1 DEF InTurn, Distinct
<1>5. WindowsAddUp'
  BY NoBytes DEF WindowsAddUp
<1>6. BodiesAddUp'
  <2>1. \A r \in Range(<<>>) : FALSE
    BY DEF Range
  <2>2. \A r \in Requests : Size(r)' = Size(r)
    BY DEF Size
  <2> QED BY <1>0, <2>1, <2>2, NoBytes DEF BodiesAddUp, Size
<1> QED BY <1>1, <1>2, <1>3, <1>4, <1>5, <1>6 DEF Base, Sums

LEMMA InitKeeps == Init => HttpInv
PROOF
<1> SUFFICES ASSUME Init PROVE HttpInv
  OBVIOUS
<1> USE ConstantsAssumption DEF Init
<1>0. setup.size \in [Requests -> Nat] /\ \A r \in Requests : Size(r) \in Nat
  BY SetupTyped
<1>1. Shape
  BY <1>0 DEF Shape, Servers
<1>2. Ours
  BY DEF Ours, Distinct, About
<1>3. Apart
  BY DEF Apart
<1>4. InTurn
  BY DEF InTurn
<1>5. WindowsAddUp
  BY NoBytes DEF WindowsAddUp
<1>6. BodiesAddUp
  BY <1>0 DEF BodiesAddUp
<1>7. NotesKept
  BY DEF NotesKept, Waiting, Current, Range
<1>8. Handled
  BY DEF Handled
<1> QED BY <1>1, <1>2, <1>3, <1>4, <1>5, <1>6, <1>7, <1>8 DEF HttpInv, Base, Sums

LEMMA ConnectKeeps == ASSUME HttpInv, NEW t \in {"http", "http2"}, Connect(t) PROVE HttpInv'
PROOF
<1>1. Base' /\ Sums'
  <2>1. transport' \in {"none", "http", "http2"} /\ transport' # "none" /\ connects' \in 0..MaxConnects
    BY ConstantsAssumption DEF Connect, HttpInv, Base, Shape
  <2>2. spoilt' \subseteq sent
    BY DEF Connect, HttpInv, Base, Ours, Waiting, Current, Range
  <2> QED BY <2>1, <2>2, FreshKeeps DEF Connect
<1>2. NotesKept'
  <2>1. \A r : Tx(r)' = Tx(r)
    BY DEF Tx, Connect
  <2>2. Waiting' = {} /\ Uuids' = Uuids
    BY <2>1 DEF Connect, FreshConnection, Waiting, Current, Range, Uuids
  <2>3. \A u \in DOMAIN made : made[u] \in spoilt'
    BY DEF Connect, HttpInv, Base, Apart, NotesKept
  <2> QED BY <2>1, <2>2, <2>3 DEF Connect, HttpInv, NotesKept
<1>3. Handled'
  BY DEF Connect, HttpInv, Handled, Tx, CallOf
<1> QED BY <1>1, <1>2, <1>3 DEF HttpInv

LEMMA DisconnectKeeps == ASSUME HttpInv, Disconnect PROVE HttpInv'
PROOF
<1>1. made' = <<>> /\ parse_queue' = <<>>
  BY DEF Disconnect, Cleared
<1>2. Base' /\ Sums'
  <2>1. transport' \in {"none", "http", "http2"} /\ connects' \in 0..MaxConnects /\ spoilt' \subseteq sent
    BY DEF Disconnect, HttpInv, Base, Shape, Ours
  <2> QED BY <1>1, <2>1, FreshKeeps DEF Disconnect
<1>3. NotesKept'
  BY <1>1 DEF Disconnect, FreshConnection, NotesKept, Waiting, Current, Range
<1>4. Handled'
  BY DEF Disconnect, HttpInv, Handled, Tx, CallOf
<1> QED BY <1>2, <1>3, <1>4 DEF HttpInv

-----------------------------------------------------------------------------
(* Sending a part of a body.                                               *)

\* What _send_data does with the windows, with what is left and with the buffer.
Sending(r) ==
  /\ ToSend(r) \in Nat /\ ToSend(r) <= window /\ ToSend(r) <= stream[r] /\ ToSend(r) <= left[r]
  /\ left' \in [Requests -> Nat] /\ window' \in Nat /\ stream' \in [Requests -> Nat]
  /\ window' + ToSend(r) = window
  /\ \A q \in Requests : /\ left'[q] + (IF q = r THEN ToSend(r) ELSE 0) = left[q]
                         /\ stream'[q] + (IF q = r THEN ToSend(r) ELSE 0) = stream[q]
  /\ buffered' \in Seq(sent \cup {r}) /\ Distinct(buffered')
  /\ Range(buffered') = IF left'[r] = 0 THEN Range(buffered) \ {r} ELSE Range(buffered) \cup {r}

\* What there is in its frames.
Framed(r) ==
  /\ Frames(r) \in Seq(Frame)
  /\ \A q : Bytes(Frames(r), q) = IF q = r THEN ToSend(r) ELSE 0
  /\ AllBytes(Frames(r)) = ToSend(r)
  /\ \A i \in DOMAIN Frames(r) : Frames(r)[i].of = r /\ (Frames(r)[i].end => ToSend(r) = left[r])

LEMMA SendDataDoes ==
  ASSUME Shape, Ours, NEW r \in Requests, SendData(r)
  PROVE  Sending(r)
PROOF
<1>1. /\ left \in [Requests -> Nat] /\ stream \in [Requests -> Nat] /\ window \in Nat
      /\ left[r] \in Nat /\ stream[r] \in Nat
  BY DEF Shape
<1>2. ToSend(r) \in Nat /\ ToSend(r) <= window /\ ToSend(r) <= stream[r] /\ ToSend(r) <= left[r]
  BY <1>1 DEF ToSend, LocalWindow, Least
<1>3. /\ left' = [left EXCEPT ![r] = left[r] - ToSend(r)]
      /\ window' = window - ToSend(r) /\ stream' = [stream EXCEPT ![r] = stream[r] - ToSend(r)]
  BY DEF SendData, Remaining
<1>4. /\ left' \in [Requests -> Nat] /\ window' \in Nat /\ stream' \in [Requests -> Nat]
      /\ window' + ToSend(r) = window
  <2> HIDE DEF ToSend
  <2> QED BY <1>1, <1>2, <1>3
<1>5. ASSUME NEW q \in Requests
      PROVE  /\ left'[q] + (IF q = r THEN ToSend(r) ELSE 0) = left[q]
             /\ stream'[q] + (IF q = r THEN ToSend(r) ELSE 0) = stream[q]
  BY <1>1, <1>2, <1>3
<1>6. left'[r] = 0 <=> Finishes(r)
  BY <1>1, <1>2, <1>3 DEF Finishes
<1>7. buffered \in Seq(sent) /\ Distinct(buffered)
  BY DEF Ours
<1>8. buffered \in Seq(sent \cup {r}) /\ DOMAIN buffered = 1..Len(buffered) /\ Len(buffered) \in Nat
  BY <1>7
<1>9. Contains(buffered, r) <=> r \in Range(buffered)
  BY <1>8 DEF Contains, Range
<1>10. /\ buffered' \in Seq(sent \cup {r}) /\ Distinct(buffered')
       /\ Range(buffered') = IF Finishes(r) THEN Range(buffered) \ {r} ELSE Range(buffered) \cup {r}
  <2>1. CASE Finishes(r)
    <3>1. buffered' = RemoveFirst(buffered, r)
      BY <2>1 DEF SendData
    <3> QED BY <1>7, <1>8, <2>1, <3>1, RemoveFirstIs
  <2>2. CASE ~Finishes(r) /\ Contains(buffered, r)
    <3>1. buffered' = buffered
      BY <2>2 DEF SendData
    <3> QED BY <1>7, <1>8, <1>9, <2>2, <3>1
  <2>3. CASE ~Finishes(r) /\ ~Contains(buffered, r)
    <3>1. buffered' = Append(buffered, r)
      BY <2>3 DEF SendData
    <3>2. /\ Append(buffered, r) \in Seq(sent \cup {r}) /\ DOMAIN Append(buffered, r) = 1..(Len(buffered) + 1)
          /\ Append(buffered, r)[Len(buffered) + 1] = r
          /\ \A i \in 1..Len(buffered) : Append(buffered, r)[i] = buffered[i]
      BY <1>8
    <3>3. Range(Append(buffered, r)) = Range(buffered) \cup {r}
      BY <1>8, <3>2 DEF Range
    <3>4. Distinct(Append(buffered, r))
      BY <1>7, <1>8, <1>9, <2>3, <3>2 DEF Distinct, Range
    <3> QED BY <2>3, <3>1, <3>2, <3>3, <3>4
  <2> QED BY <2>1, <2>2, <2>3
<1> QED BY <1>2, <1>4, <1>5, <1>6, <1>10 DEF Sending

LEMMA FramesAre ==
  ASSUME Shape, NEW r \in Requests
  PROVE  Framed(r)
PROOF
<1>1. ToSend(r) \in Nat /\ ToSend(r) <= left[r]
  BY DEF Shape, ToSend, LocalWindow, Least
<1> DEFINE f == [of |-> r, bytes |-> ToSend(r), end |-> Finishes(r)]
<1>2. f \in Frame /\ f.of = r /\ f.bytes = ToSend(r) /\ (f.end => ToSend(r) = left[r])
  BY <1>1 DEF Frame, Finishes
<1>3. CASE ToSend(r) > 0 \/ Finishes(r)
  <2>1. Frames(r) = <<f>>
    BY <1>3 DEF Frames
  <2> HIDE DEF f
  <2>2. /\ \A q : Bytes(<<f>>, q) = IF f.of = q THEN f.bytes ELSE 0
        /\ AllBytes(<<f>>) = f.bytes
    BY <1>2, BytesOfOne
  <2>3. <<f>> \in Seq(Frame) /\ \A i \in DOMAIN <<f>> : <<f>>[i] = f
    BY <1>2
  <2> QED BY <1>2, <2>1, <2>2, <2>3 DEF Framed
<1>4. CASE ~(ToSend(r) > 0 \/ Finishes(r))
  <2>1. Frames(r) = <<>> /\ ToSend(r) = 0
    BY <1>1, <1>4 DEF Frames
  <2> QED BY <2>1, NoBytes DEF Framed
<1> QED BY <1>3, <1>4

\* The sums of the windows and the bodies, with these frames about to be written:
\* what the homeserver has of them is as before the step, the rest as after it.
Ready(frames) ==
  /\ frames \in Seq(Frame)
  /\ window' + AllBytes(frames) + owed[Whole] + Opened(inbound, Whole) = Window
  /\ \A r \in Requests : /\ stream'[r] + Bytes(frames, r) + owed[r] + Opened(inbound, r) = Window
                         /\ got[r] + Bytes(frames, r) + left'[r] = Size(r)
  /\ \A i \in DOMAIN frames : frames[i].end => left'[frames[i].of] = 0
  /\ \A r \in Range(buffered') : left'[r] > 0
  /\ \A r \in responses' : left'[r] > 0 => r \in Range(buffered')

\* What there was to write and the frames of a part of a body.
LEMMA SendingIsReady ==
  ASSUME Shape, Ours, Sums, transport = "http2", NEW r \in Requests, Sending(r), Framed(r),
         responses' \in {responses, responses \cup {r}}
  PROVE  Ready(outbox \o Frames(r))
PROOF
<1> DEFINE more == Frames(r)
           all == outbox \o more
<1>1. /\ outbox \in Seq(Frame) /\ more \in Seq(Frame)
      /\ \A q : Bytes(more, q) = IF q = r THEN ToSend(r) ELSE 0
      /\ AllBytes(more) = ToSend(r)
      /\ \A i \in DOMAIN more : more[i].of = r /\ (more[i].end => ToSend(r) = left[r])
  BY DEF Shape, Framed
<1>2. /\ all \in Seq(Frame) /\ Len(all) = Len(outbox) + Len(more)
      /\ \A i \in 1..Len(outbox) + Len(more) : all[i] = IF i <= Len(outbox) THEN outbox[i] ELSE more[i - Len(outbox)]
  BY <1>1, ConcatProperties, Zenon
<1>3. /\ \A q : /\ Bytes(all, q) = Bytes(outbox, q) + Bytes(more, q)
                /\ Bytes(outbox, q) \in Nat
      /\ AllBytes(all) = AllBytes(outbox) + AllBytes(more)
      /\ AllBytes(outbox) \in Nat
  BY <1>1, BytesAdd
<1> HIDE DEF more, all
<1>4. /\ left \in [Requests -> Nat] /\ got \in [Requests -> Nat] /\ stream \in [Requests -> Nat]
      /\ window \in Nat /\ owed \in [Requests \cup {Whole} -> Nat]
      /\ inbound \in Seq(Happening)
  BY DEF Shape
<1>5. \A w : Opened(inbound, w) \in Nat
  BY <1>4, OpenedAdd
<1>6. /\ ToSend(r) \in Nat /\ left' \in [Requests -> Nat] /\ window' \in Nat /\ stream' \in [Requests -> Nat]
      /\ window' + ToSend(r) = window
      /\ \A q \in Requests : /\ left'[q] + (IF q = r THEN ToSend(r) ELSE 0) = left[q]
                             /\ stream'[q] + (IF q = r THEN ToSend(r) ELSE 0) = stream[q]
      /\ Range(buffered') = IF left'[r] = 0 THEN Range(buffered) \ {r} ELSE Range(buffered) \cup {r}
  BY DEF Sending
<1>7. /\ \A q \in Requests : got[q] + Bytes(outbox, q) + left[q] = Size(q)
      /\ \A i \in DOMAIN outbox : outbox[i].end => left[outbox[i].of] = 0
      /\ \A q \in Range(buffered) : left[q] > 0
      /\ \A q \in responses : left[q] > 0 => q \in Range(buffered)
  BY DEF Sums, BodiesAddUp
<1>8. window' + AllBytes(all) + owed[Whole] + Opened(inbound, Whole) = Window
  <2>1. window + AllBytes(outbox) + owed[Whole] + Opened(inbound, Whole) = Window
    BY DEF Sums, WindowsAddUp
  <2>2. AllBytes(all) = AllBytes(outbox) + ToSend(r)
    BY <1>1, <1>3, Zenon
  <2>3. owed[Whole] \in Nat /\ Opened(inbound, Whole) \in Nat
    BY <1>4, <1>5
  <2> QED BY <1>3, <1>4, <1>6, <2>1, <2>2, <2>3
<1>9. ASSUME NEW q \in Requests
      PROVE  /\ stream'[q] + Bytes(all, q) + owed[q] + Opened(inbound, q) = Window
             /\ got[q] + Bytes(all, q) + left'[q] = Size(q)
  <2>1. Bytes(all, q) = Bytes(outbox, q) + (IF q = r THEN ToSend(r) ELSE 0)
    BY <1>1, <1>3, Zenon
  <2>2. /\ owed[q] \in Nat /\ Opened(inbound, q) \in Nat /\ got[q] \in Nat /\ left[q] \in Nat /\ stream[q] \in Nat
        /\ left'[q] \in Nat /\ stream'[q] \in Nat /\ Bytes(outbox, q) \in Nat
    BY <1>3, <1>4, <1>5, <1>6
  <2>3. stream[q] + Bytes(outbox, q) + owed[q] + Opened(inbound, q) = Window
    BY DEF Sums, WindowsAddUp
  <2>4. /\ left'[q] + (IF q = r THEN ToSend(r) ELSE 0) = left[q]
        /\ stream'[q] + (IF q = r THEN ToSend(r) ELSE 0) = stream[q]
    BY <1>6
  <2>5. got[q] + Bytes(outbox, q) + left[q] = Size(q)
    BY <1>7
  <2> QED BY <1>6, <2>1, <2>2, <2>3, <2>4, <2>5
<1>10. ASSUME NEW q \in Requests, left[q] = 0 PROVE left'[q] = 0
  <2>1. /\ left'[q] + (IF q = r THEN ToSend(r) ELSE 0) = left[q] /\ left'[q] \in Nat
    BY <1>6
  <2> QED BY <1>6, <1>10, <2>1
<1>11. ASSUME NEW i \in DOMAIN all, all[i].end PROVE left'[all[i].of] = 0
  <2>1. i \in 1..Len(outbox) + Len(more) /\ Len(outbox) \in Nat /\ Len(more) \in Nat
    BY <1>1, <1>2
  <2>2. CASE i <= Len(outbox)
    <3>1. i \in DOMAIN outbox /\ all[i] = outbox[i] /\ outbox[i] \in Frame
      BY <1>1, <1>2, <2>1, <2>2
    <3>2. outbox[i].of \in Requests
      BY <3>1 DEF Frame
    <3> QED BY <1>7, <1>10, <1>11, <3>1, <3>2
  <2>3. CASE ~(i <= Len(outbox))
    <3>1. i - Len(outbox) \in DOMAIN more /\ all[i] = more[i - Len(outbox)]
      BY <1>1, <1>2, <2>1, <2>3
    <3>2. all[i].of = r /\ ToSend(r) = left[r]
      BY <1>1, <1>11, <3>1
    <3> QED BY <1>4, <1>6, <3>2
  <2> QED BY <2>2, <2>3
<1>12. Range(buffered) \subseteq Requests
  BY DEF Ours, Range
<1>13. ASSUME NEW q \in Range(buffered') PROVE left'[q] > 0
  <2>1. CASE q = r
    BY <1>6, <1>13, <2>1
  <2>2. CASE q # r
    <3>1. q \in Range(buffered) /\ left'[q] = left[q]
      BY <1>4, <1>6, <1>12, <1>13, <2>2
    <3> QED BY <1>7, <3>1
  <2> QED BY <2>1, <2>2
<1>14. ASSUME NEW q \in responses', left'[q] > 0 PROVE q \in Range(buffered')
  <2>1. CASE q = r
    BY <1>6, <1>14, <2>1
  <2>2. CASE q # r
    <3>1. q \in responses /\ q \in Requests
      BY <1>14, <2>2 DEF Ours
    <3>2. left'[q] = left[q]
      BY <1>4, <1>6, <2>2, <3>1
    <3>3. q \in Range(buffered)
      BY <1>7, <1>14, <3>1, <3>2
    <3> QED BY <1>6, <2>2, <3>3
  <2> QED BY <2>1, <2>2
<1> QED BY <1>2, <1>8, <1>9, <1>11, <1>13, <1>14 DEF Ready, all, more

\* What the homeserver has of the frames that were written.
Written(frames) ==
  /\ got' \in [Requests -> Nat] /\ owed' \in [Requests \cup {Whole} -> Nat] /\ server' \in [Requests -> Servers]
  /\ owed'[Whole] = owed[Whole] + AllBytes(frames)
  /\ \A r \in Requests :
       /\ got'[r] = got[r] + Bytes(frames, r) /\ owed'[r] = owed[r] + Bytes(frames, r)
       /\ server'[r] # server[r] =>
            \/ server'[r] = "whole" /\ \E i \in DOMAIN frames : frames[i].of = r /\ frames[i].end
            \/ server'[r] = "open" /\ r \in responses'

LEMMA WriteDoes ==
  ASSUME Shape, NEW frames \in Seq(Frame), Write(frames)
  PROVE  Written(frames)
PROOF
<1>1. /\ got \in [Requests -> Nat] /\ owed \in [Requests \cup {Whole} -> Nat] /\ server \in [Requests -> Servers]
      /\ Whole \notin Requests
  BY ConstantsAssumption DEF Shape
<1>2. AllBytes(frames) \in Nat /\ \A r : Bytes(frames, r) \in Nat
  BY BytesAdd
<1>3. /\ got' = [r \in Requests |-> got[r] + Bytes(frames, r)]
      /\ owed' = [r \in Requests \cup {Whole} |->
                    owed[r] + IF r = Whole THEN AllBytes(frames) ELSE Bytes(frames, r)]
  BY DEF Write
<1>4. /\ got' \in [Requests -> Nat] /\ owed' \in [Requests \cup {Whole} -> Nat]
      /\ owed'[Whole] = owed[Whole] + AllBytes(frames)
      /\ \A r \in Requests : got'[r] = got[r] + Bytes(frames, r) /\ owed'[r] = owed[r] + Bytes(frames, r)
  BY <1>1, <1>2, <1>3
<1> DEFINE ends(r) == \E i \in DOMAIN frames : frames[i].of = r /\ frames[i].end
           begins(r) == r \in responses'
<1>5. server' = [r \in Requests |->
          CASE server[r] \in {"none", "open"} /\ ends(r)   -> "whole"
            [] server[r] = "none" /\ ~ends(r) /\ begins(r) -> "open"
            [] OTHER -> server[r]]
  BY DEF Write
<1>6. ASSUME NEW r \in Requests
      PROVE  \/ server'[r] = server[r]
             \/ server'[r] = "whole" /\ ends(r)
             \/ server'[r] = "open" /\ begins(r)
  <2> HIDE DEF ends, begins
  <2>1. server'[r] = CASE server[r] \in {"none", "open"} /\ ends(r)   -> "whole"
                       [] server[r] = "none" /\ ~ends(r) /\ begins(r) -> "open"
                       [] OTHER -> server[r]
    BY <1>5
  <2> QED BY <2>1
<1>7. server' \in [Requests -> Servers]
  <2>1. server' = [r \in Requests |-> server'[r]]
    BY <1>5
  <2>2. \A r \in Requests : server'[r] \in Servers
    BY <1>1, <1>6 DEF Servers
  <2> QED BY <2>1, <2>2
<1> QED BY <1>4, <1>6, <1>7 DEF Written

\* The sums after frames were written, and after frames were put aside.
LEMMA WrittenAddsUp ==
  ASSUME Shape, Sums, NEW frames, Ready(frames), Written(frames),
         left' \in [Requests -> Nat], window' \in Nat, stream' \in [Requests -> Nat],
         transport = "http2", outbox' = <<>>, UNCHANGED <<setup, transport, inbound>>
  PROVE  Sums'
PROOF
<1>1. /\ got \in [Requests -> Nat] /\ owed \in [Requests \cup {Whole} -> Nat] /\ inbound \in Seq(Happening)
      /\ frames \in Seq(Frame) /\ setup \in Setups
  BY DEF Shape, Ready
<1>2. AllBytes(frames) \in Nat /\ \A r : Bytes(frames, r) \in Nat
  BY <1>1, BytesAdd
<1>3. AllBytes(<<>>) = 0 /\ \A r : Bytes(<<>>, r) = 0
  BY NoBytes
<1>4. \A w : Opened(inbound, w) \in Nat
  BY <1>1, OpenedAdd
<1>5. WindowsAddUp'
  <2>1. window' + 0 + owed'[Whole] + Opened(inbound, Whole) = Window
    <3>1. window' + AllBytes(frames) + owed[Whole] + Opened(inbound, Whole) = Window
      BY DEF Ready
    <3>2. owed'[Whole] = owed[Whole] + AllBytes(frames) /\ owed[Whole] \in Nat
      BY <1>1 DEF Written
    <3>3. AllBytes(frames) \in Nat /\ owed[Whole] \in Nat /\ Opened(inbound, Whole) \in Nat
      BY <1>2, <1>4, <3>2
    <3> QED BY <3>1, <3>2, <3>3
  <2>2. ASSUME NEW r \in Requests PROVE stream'[r] + 0 + owed'[r] + Opened(inbound, r) = Window
    <3>1. stream'[r] + Bytes(frames, r) + owed[r] + Opened(inbound, r) = Window
      BY DEF Ready
    <3>2. owed'[r] = owed[r] + Bytes(frames, r) /\ owed[r] \in Nat
      BY <1>1 DEF Written
    <3>3. Bytes(frames, r) \in Nat /\ owed[r] \in Nat /\ Opened(inbound, r) \in Nat /\ stream'[r] \in Nat
      BY <1>2, <1>4, <3>2
    <3> QED BY <3>1, <3>2, <3>3
  <2> QED BY <1>3, <2>1, <2>2 DEF WindowsAddUp
<1>6. BodiesAddUp'
  <2>1. ASSUME NEW r \in Requests PROVE got'[r] + 0 + left'[r] = Size(r)
    <3>1. got[r] + Bytes(frames, r) + left'[r] = Size(r) /\ got'[r] = got[r] + Bytes(frames, r)
      BY DEF Ready, Written
    <3>2. got[r] \in Nat /\ Bytes(frames, r) \in Nat /\ left'[r] \in Nat
      BY <1>1, <1>2
    <3> QED BY <3>1, <3>2
  <2>2. ASSUME NEW r \in Requests, server'[r] \in {"whole", "answered"} PROVE got'[r] = Size(r)
    <3>1. CASE server'[r] = server[r]
      <4>1. got[r] = Size(r)
        BY <2>2, <3>1 DEF Sums, BodiesAddUp
      <4>2. got[r] + Bytes(frames, r) + left'[r] = Size(r) /\ got'[r] = got[r] + Bytes(frames, r)
        BY DEF Ready, Written
      <4>3. got[r] \in Nat /\ Bytes(frames, r) \in Nat /\ left'[r] \in Nat
        BY <1>1, <1>2
      <4> QED BY <4>1, <4>2, <4>3
    <3>2. CASE server'[r] # server[r]
      <4>1. \E i \in DOMAIN frames : frames[i].of = r /\ frames[i].end
        BY <2>2, <3>2 DEF Written
      <4>2. left'[r] = 0
        BY <4>1 DEF Ready
      <4>3. got'[r] \in Nat
        BY DEF Written
      <4> QED BY <2>1, <4>2, <4>3
    <3> QED BY <3>1, <3>2
  <2>3. \A r : Size(r)' = Size(r)
    BY DEF Size
  <2>4. /\ \A r \in Range(buffered') : left'[r] > 0
        /\ \A r \in responses' : left'[r] > 0 => r \in Range(buffered')
    BY DEF Ready
  <2>5. /\ \A r \in Requests : /\ (got[r] + Bytes(outbox, r) + left[r] = Size(r))'
                               /\ (server[r] \in {"whole", "answered"} => got[r] = Size(r))'
    BY <1>3, <2>1, <2>2, <2>3
  <2> QED BY <2>4, <2>5 DEF BodiesAddUp
<1> QED BY <1>5, <1>6 DEF Sums

LEMMA PutAsideAddsUp ==
  ASSUME Shape, Sums, Ready(outbox'), transport = "http2", left' \in [Requests -> Nat],
         UNCHANGED <<setup, transport, inbound, got, owed, server>>
  PROVE  Sums'
PROOF
<1>1. \A r : Size(r)' = Size(r)
  BY DEF Size
<1>2. WindowsAddUp'
  BY DEF Ready, WindowsAddUp
<1>3. BodiesAddUp'
  <2>1. \A r \in Requests : server[r] \in {"whole", "answered"} => got[r] = Size(r)
    BY DEF Sums, BodiesAddUp
  <2> QED BY <1>1, <2>1 DEF BodiesAddUp, Ready
<1> QED BY <1>2, <1>3 DEF Sums

-----------------------------------------------------------------------------
(* The steps.                                                              *)

\* A call is made: it is noted, and waited for.
LEMMA SendNotes ==
  ASSUME HttpInv, NEW r \in Requests, Send(r), Waiting' = Waiting \cup {r}
  PROVE  NotesKept'
PROOF
<1>1. /\ r \notin sent /\ sent' = sent \cup {r} /\ UNCHANGED <<setup, parse_queue, spoilt>>
      /\ made' = [u \in DOMAIN made \cup {Tx(r)} |-> IF u = Tx(r) THEN r ELSE made[u]]
  BY DEF Send
<1>2. \A q : Tx(q)' = Tx(q)
  BY <1>1 DEF Tx
<1>3. Uuids' = Uuids /\ Tx(r) \in Uuids
  BY <1>2 DEF Uuids
<1>4. DOMAIN made' = DOMAIN made \cup {Tx(r)}
  BY <1>1
<1> USE DEF HttpInv
<1>5. ASSUME NEW u \in DOMAIN made'
      PROVE  made'[u] \in sent' /\ Tx(made'[u]) = u /\ made'[u] \in Waiting' \cup spoilt'
  BY <1>1, <1>4 DEF NotesKept
<1>6. ASSUME NEW q \in Waiting' PROVE Tx(q) \in DOMAIN made' \/ \E p \in sent' \ {q} : Tx(p) = Tx(q)
  BY <1>1, <1>4 DEF NotesKept
<1>7. ASSUME NEW i \in DOMAIN parse_queue
      PROVE  LET x == parse_queue[i]
             IN /\ x.info \in sent' /\ x.of \in sent' /\ Tx(x.of) = Tx(x.info)
                /\ \A u \in DOMAIN made' : made'[u] # x.info /\ made'[u] # x.of
  <2> DEFINE x == parse_queue[i]
  <2>1. /\ x.info \in sent /\ x.of \in sent /\ Tx(x.of) = Tx(x.info)
        /\ \A u \in DOMAIN made : made[u] # x.info /\ made[u] # x.of
    BY DEF NotesKept
  <2> HIDE DEF x
  <2>2. ASSUME NEW u \in DOMAIN made' PROVE made'[u] # x.info /\ made'[u] # x.of
    BY <1>1, <1>4, <2>1
  <2> QED BY <1>1, <2>1, <2>2 DEF x
<1>8. DOMAIN made \subseteq Uuids /\ parse_queue \in Seq(Note)
  BY DEF NotesKept
<1> QED BY <1>1, <1>2, <1>3, <1>4, <1>5, <1>6, <1>7, <1>8 DEF NotesKept

LEMMA SendHttpKeeps ==
  ASSUME HttpInv, NEW r \in Requests, Send(r), transport = "http"
  PROVE  HttpInv'
PROOF
<1>1. /\ Returned /\ r \notin sent /\ sent' = sent \cup {r} /\ SendHttp(r)
      /\ UNCHANGED <<setup, transport, connects, parse_queue, heads, chunk, loop, spoilt, handled>>
  BY DEF Send, receive_vars
<1>2. /\ IF Idle
         THEN /\ current' = r /\ message_queue' = message_queue
              /\ got' = [got EXCEPT ![r] = Size(r)] /\ server' = [server EXCEPT ![r] = "whole"]
         ELSE message_queue' = Append(message_queue, r) /\ UNCHANGED <<current, got, server>>
      /\ UNCHANGED <<responses, buffered, left, window, stream, outbox, refused, forgotten, owed, inbound>>
  BY <1>1 DEF SendHttp, Asked, h2_vars
<1> USE DEF HttpInv, Base
<1>3. Size(r) \in Nat /\ \A q : Size(q)' = Size(q)
  <2>1. setup \in Setups
    BY DEF Shape
  <2> QED BY <1>1, <2>1, SetupTyped DEF Size
<1>4. chunk = <<>>
  BY <1>1 DEF Returned
<1>5. message_queue \in Seq(sent) /\ server[r] = "none" /\ server \in [Requests -> Servers]
      /\ got \in [Requests -> Nat] /\ current \in sent \cup {NoRequest} /\ sent \subseteq Requests
      /\ NoRequest \notin Requests
  BY <1>1, ConstantsAssumption DEF Ours, Shape
<1>6. Shape'
  <2>1. got' \in [Requests -> Nat] /\ server' \in [Requests -> Servers]
    BY <1>2, <1>3, <1>5 DEF Servers
  <2> QED BY <1>1, <1>2, <2>1 DEF Shape
<1>7. Ours'
  <2>1. message_queue' \in Seq(sent') /\ current' \in sent' \cup {NoRequest}
    <3>1. message_queue \in Seq(sent \cup {r})
      BY <1>5
    <3>2. Append(message_queue, r) \in Seq(sent \cup {r})
      BY <3>1
    <3>3. message_queue' \in {message_queue, Append(message_queue, r)} /\ current' \in {current, r}
      BY <1>2
    <3> QED BY <1>1, <1>5, <3>1, <3>2, <3>3
  <2>2. \A q \in Requests \ sent' : server'[q] = "none"
    BY <1>1, <1>2, <1>5 DEF Ours
  <2>3. /\ About(chunk', sent') /\ About(inbound', sent')
        /\ \A i \in DOMAIN outbox' : outbox'[i].of \in sent'
    BY <1>1, <1>2 DEF Ours, About
  <2>4. buffered' \in Seq(sent') /\ loop' \in Seq(sent')
    BY <1>1, <1>2 DEF Ours
  <2> QED BY <1>1, <1>2, <2>1, <2>2, <2>3, <2>4 DEF Ours
<1>8. Apart'
  BY <1>1, <1>2 DEF Apart
<1>9. InTurn'
  <2>1. r \notin Range(message_queue) /\ current # r
    BY <1>1, <1>5 DEF Range
  <2>2. CASE Idle
    <3>1. inbound = <<>>
      BY <2>2 DEF InTurn, Idle
    <3>2. \A q \in Requests : server[q] # "whole"
      BY <1>5, <2>2 DEF InTurn, Idle
    <3>3. /\ Distinct(message_queue) /\ r \notin Range(message_queue)
          /\ \A q \in Range(message_queue) : server'[q] = "none"
          /\ \A q \in Requests : server'[q] = "whole" => q = r
      <4>1. Distinct(message_queue) /\ \A q \in Range(message_queue) : server[q] = "none" /\ q # r
        BY <2>1 DEF InTurn
      <4>2. server' = [server EXCEPT ![r] = "whole"]
        BY <1>2, <2>2
      <4>3. \A q \in Range(message_queue) : q \in Requests
        BY <1>5 DEF Range
      <4> QED BY <1>5, <2>1, <3>2, <4>1, <4>2, <4>3
    <3> QED BY <1>1, <1>2, <1>4, <2>2, <3>1, <3>3 DEF InTurn
  <2>3. CASE ~Idle
    <3>1. Range(Append(message_queue, r)) = Range(message_queue) \cup {r} /\ Distinct(Append(message_queue, r))
      <4>1. /\ DOMAIN Append(message_queue, r) = 1..(Len(message_queue) + 1)
            /\ Append(message_queue, r)[Len(message_queue) + 1] = r
            /\ \A i \in 1..Len(message_queue) : Append(message_queue, r)[i] = message_queue[i]
            /\ DOMAIN message_queue = 1..Len(message_queue) /\ Len(message_queue) \in Nat
        BY <1>5
      <4>2. Distinct(message_queue)
        BY DEF InTurn
      <4>3. Range(Append(message_queue, r)) = Range(message_queue) \cup {r}
        BY <4>1 DEF Range
      <4>4. Distinct(Append(message_queue, r))
        BY <2>1, <4>1, <4>2 DEF Distinct, Range
      <4> QED BY <4>3, <4>4
    <3>2. message_queue' = Append(message_queue, r) /\ UNCHANGED <<current, got, server>>
      BY <1>2, <2>3
    <3> QED BY <1>1, <1>2, <1>4, <1>5, <2>1, <3>1, <3>2 DEF InTurn
  <2> QED BY <2>2, <2>3
<1>10. Sums'
  <2>1. WindowsAddUp'
    BY <1>2 DEF Sums, WindowsAddUp
  <2>2. \A q \in Requests : got'[q] <= Size(q)
    BY <1>2, <1>3, <1>5 DEF Sums, BodiesAddUp
  <2>3. BodiesAddUp'
    BY <1>1, <1>3, <2>2 DEF BodiesAddUp
  <2> QED BY <2>1, <2>3 DEF Sums
<1>11. NotesKept'
  <2>1. Waiting' = Waiting \cup {r}
    <3>1. CASE Idle
      BY <1>2, <1>5, <3>1 DEF Waiting, Current, Idle
    <3>2. CASE ~Idle
      <4>1. Range(Append(message_queue, r)) = Range(message_queue) \cup {r}
        <5>1. /\ DOMAIN Append(message_queue, r) = 1..(Len(message_queue) + 1)
              /\ Append(message_queue, r)[Len(message_queue) + 1] = r
              /\ \A i \in 1..Len(message_queue) : Append(message_queue, r)[i] = message_queue[i]
              /\ DOMAIN message_queue = 1..Len(message_queue) /\ Len(message_queue) \in Nat
          BY <1>5
        <5> QED BY <5>1 DEF Range
      <4> QED BY <1>2, <3>2, <4>1 DEF Waiting, Current
    <3> QED BY <3>1, <3>2
  <2> QED BY <2>1, SendNotes
<1>12. Handled'
  BY <1>1 DEF Handled, Tx, CallOf
<1> QED BY <1>6, <1>7, <1>8, <1>9, <1>10, <1>11, <1>12

\* Frames of calls that were made are written: nothing else gets to the homeserver.
LEMMA WriteIsOurs ==
  ASSUME Ours, Shape, NEW frames, Written(frames), sent \subseteq sent', responses' \subseteq sent',
         \A i \in DOMAIN frames : frames[i].of \in sent'
  PROVE  \A q \in Requests \ sent' : server'[q] = "none"
PROOF
<1> SUFFICES ASSUME NEW q \in Requests, q \notin sent' PROVE server'[q] = "none"
  OBVIOUS
<1>1. server[q] = "none"
  BY DEF Ours
<1>2. ~\E i \in DOMAIN frames : frames[i].of = q /\ frames[i].end
  BY Zenon
<1>3. q \notin responses'
  OBVIOUS
<1> QED BY <1>1, <1>2, <1>3, Zenon DEF Written

LEMMA SendHttp2Keeps ==
  ASSUME HttpInv, NEW r \in Requests, Send(r), transport = "http2"
  PROVE  HttpInv'
PROOF
<1> DEFINE frames == outbox \o Frames(r)
<1>1. /\ Returned /\ r \notin sent /\ sent' = sent \cup {r} /\ SendHttp2(r)
      /\ UNCHANGED <<setup, transport, connects, parse_queue, heads, chunk, loop, spoilt, handled>>
  BY DEF Send, receive_vars
<1>2. /\ responses' = responses \cup {r} /\ SendData(r) /\ outbox' = <<>> /\ Write(frames)
      /\ forgotten' = refused /\ refused' = refused
      /\ UNCHANGED <<current, message_queue, inbound>>
  BY <1>1 DEF SendHttp2, h1_vars
<1> USE DEF HttpInv, Base
<1>3. Sending(r) /\ Framed(r)
  BY <1>2, SendDataDoes, FramesAre
<1>4. Ready(frames)
  BY <1>2, <1>3, SendingIsReady
<1>5. Written(frames)
  <2>1. frames \in Seq(Frame)
    BY <1>4 DEF Ready
  <2> HIDE DEF frames
  <2> QED BY <1>2, <2>1, WriteDoes
<1>6. \A i \in DOMAIN frames : frames[i].of \in sent'
  <2>1. /\ outbox \in Seq(Frame) /\ Frames(r) \in Seq(Frame)
        /\ \A i \in DOMAIN Frames(r) : Frames(r)[i].of = r
        /\ \A i \in DOMAIN outbox : outbox[i].of \in sent
    BY <1>3 DEF Framed, Shape, Ours
  <2>2. /\ frames \in Seq(Frame) /\ Len(frames) = Len(outbox) + Len(Frames(r))
        /\ \A i \in 1..Len(outbox) + Len(Frames(r)) :
              frames[i] = IF i <= Len(outbox) THEN outbox[i] ELSE Frames(r)[i - Len(outbox)]
    BY <2>1, ConcatProperties, Zenon
  <2> HIDE DEF frames
  <2> SUFFICES ASSUME NEW i \in DOMAIN frames PROVE frames[i].of \in sent'
    OBVIOUS
  <2>3. i \in 1..Len(outbox) + Len(Frames(r)) /\ Len(outbox) \in Nat /\ Len(Frames(r)) \in Nat
    BY <2>1, <2>2
  <2>4. CASE i <= Len(outbox)
    <3>1. i \in DOMAIN outbox /\ frames[i] = outbox[i]
      BY <2>1, <2>2, <2>3, <2>4
    <3> QED BY <1>1, <2>1, <3>1
  <2>5. CASE ~(i <= Len(outbox))
    <3>1. i - Len(outbox) \in DOMAIN Frames(r) /\ frames[i] = Frames(r)[i - Len(outbox)]
      BY <2>1, <2>2, <2>3, <2>5
    <3> QED BY <1>1, <2>1, <3>1
  <2> QED BY <2>4, <2>5
<1> HIDE DEF frames
<1>7. /\ left' \in [Requests -> Nat] /\ window' \in Nat /\ stream' \in [Requests -> Nat]
      /\ buffered' \in Seq(sent \cup {r}) /\ Distinct(buffered')
  BY <1>3 DEF Sending
<1>8. Shape'
  <2>1. got' \in [Requests -> Nat] /\ owed' \in [Requests \cup {Whole} -> Nat] /\ server' \in [Requests -> Servers]
    BY <1>5 DEF Written
  <2>2. outbox' \in Seq(Frame)
    BY <1>2
  <2> QED BY <1>1, <1>2, <1>7, <2>1, <2>2 DEF Shape
<1>9. Ours'
  <2>1. sent' \subseteq Requests /\ sent \subseteq sent' /\ responses' \subseteq sent'
    BY <1>1, <1>2 DEF Ours
  <2>2. \A q \in Requests \ sent' : server'[q] = "none"
    BY <1>5, <1>6, <2>1, WriteIsOurs
  <2>3. message_queue' \in Seq(sent') /\ current' \in sent' \cup {NoRequest} /\ loop' \in Seq(sent')
    BY <1>1, <1>2 DEF Ours
  <2>4. /\ About(chunk', sent') /\ About(inbound', sent') /\ DOMAIN outbox' = {}
    BY <1>1, <1>2 DEF Ours, About
  <2> QED BY <1>1, <1>2, <1>7, <2>1, <2>2, <2>3, <2>4 DEF Ours
<1>10. Apart' /\ InTurn'
  BY <1>1, <1>2 DEF Apart, InTurn
<1>11. Sums'
  BY <1>1, <1>2, <1>4, <1>5, <1>7, WrittenAddsUp
<1>12. NotesKept'
  <2>1. Waiting' = Waiting \cup {r}
    BY <1>2 DEF Waiting, Current
  <2> QED BY <2>1, SendNotes
<1>13. Handled'
  BY <1>1 DEF Handled, Tx, CallOf
<1> QED BY <1>8, <1>9, <1>10, <1>11, <1>12, <1>13

LEMMA SendKeeps == ASSUME HttpInv, NEW r \in Requests, Send(r) PROVE HttpInv'
PROOF
<1>1. transport \in {"http", "http2"}
  BY DEF HttpInv, Base, Shape, Send
<1> QED BY <1>1, SendHttpKeeps, SendHttp2Keeps

\* The first of a sequence, and the others.
LEMMA FirstAndRest ==
  ASSUME NEW S, NEW s \in Seq(S), s # <<>>
  PROVE  /\ Head(s) \in S /\ Tail(s) \in Seq(S) /\ Range(s) = {Head(s)} \cup Range(Tail(s))
         /\ Len(Tail(s)) = Len(s) - 1 /\ \A i \in DOMAIN Tail(s) : i + 1 \in DOMAIN s /\ Tail(s)[i] = s[i + 1]
         /\ Len(s) > 0 /\ Head(s) = s[1] /\ 1 \in DOMAIN s
         /\ Distinct(s) => Head(s) \notin Range(Tail(s)) /\ Distinct(Tail(s))
PROOF
<1>1. DOMAIN s = 1..Len(s) /\ Len(s) \in Nat /\ Len(s) > 0 /\ Head(s) = s[1] /\ 1 \in DOMAIN s
  OBVIOUS
<1>2. /\ Head(s) \in S /\ Tail(s) \in Seq(S) /\ DOMAIN Tail(s) = 1..(Len(s) - 1)
      /\ Len(Tail(s)) = Len(s) - 1
      /\ \A i \in 1..(Len(s) - 1) : Tail(s)[i] = s[i + 1] /\ i + 1 \in DOMAIN s
  OBVIOUS
<1> DEFINE rest == Tail(s)
<1> HIDE DEF rest
<1>3. /\ DOMAIN rest = 1..(Len(s) - 1)
      /\ \A i \in 1..(Len(s) - 1) : rest[i] = s[i + 1] /\ i + 1 \in DOMAIN s
  BY <1>2 DEF rest
<1>4. ASSUME NEW j \in DOMAIN s, j # 1
      PROVE  j - 1 \in DOMAIN rest /\ rest[j - 1] = s[j]
  <2>1. j - 1 \in 1..(Len(s) - 1) /\ (j - 1) + 1 = j
    BY <1>1, <1>4
  <2> QED BY <1>3, <2>1
<1>5. Range(s) = {s[1]} \cup Range(rest)
  <2>1. ASSUME NEW y \in Range(s) PROVE y \in {s[1]} \cup Range(rest)
    BY <1>4 DEF Range
  <2>2. ASSUME NEW y \in {s[1]} \cup Range(rest) PROVE y \in Range(s)
    BY <1>1, <1>3 DEF Range
  <2> QED BY <2>1, <2>2
<1>6. Distinct(s) => s[1] \notin Range(rest) /\ Distinct(rest)
  <2> SUFFICES ASSUME Distinct(s) PROVE s[1] \notin Range(rest) /\ Distinct(rest)
    OBVIOUS
  <2>1. ASSUME NEW i \in DOMAIN rest PROVE rest[i] # s[1]
    <3>1. i \in Nat /\ i + 1 \in DOMAIN s /\ i + 1 # 1 /\ rest[i] = s[i + 1]
      BY <1>1, <1>3
    <3> QED BY <1>1, <3>1 DEF Distinct
  <2>2. ASSUME NEW i \in DOMAIN rest, NEW j \in DOMAIN rest, rest[i] = rest[j] PROVE i = j
    <3>1. i + 1 \in DOMAIN s /\ j + 1 \in DOMAIN s /\ s[i + 1] = s[j + 1]
      BY <1>3, <2>2
    <3>2. i + 1 = j + 1
      BY <3>1 DEF Distinct
    <3> QED BY <1>1, <1>3, <3>2
  <2> QED BY <2>1, <2>2 DEF Distinct, Range
<1> QED BY <1>1, <1>2, <1>3, <1>5, <1>6 DEF rest

\* Nothing but what the HTTP/1 connection has changes, but for the bytes and the
\* state of requests at the homeserver.
LEMMA DataToSendHttpKeeps == ASSUME HttpInv, DataToSendHttp PROVE HttpInv'
PROOF
<1> DEFINE r == NextRequest
<1> USE DEF HttpInv, Base
<1>1. /\ transport = "http" /\ chunk = <<>> /\ current = NoRequest /\ message_queue # <<>>
      /\ current' = r /\ message_queue' = Tail(message_queue)
      /\ got' = [got EXCEPT ![r] = Size(r)] /\ server' = [server EXCEPT ![r] = "whole"]
      /\ UNCHANGED <<setup, transport, connects, made, parse_queue, sent, handled, spoilt>>
      /\ UNCHANGED <<responses, buffered, left, window, stream, outbox, refused, forgotten, owed, inbound>>
      /\ UNCHANGED <<heads, chunk, loop>>
  BY DEF DataToSendHttp, Returned, Idle, Asked, client_vars, h2_vars, receive_vars
<1>2. message_queue \in Seq(sent) /\ Distinct(message_queue) /\ sent \subseteq Requests
  BY <1>1 DEF Ours, InTurn
<1>3. /\ r \in sent /\ Tail(message_queue) \in Seq(sent)
      /\ Range(message_queue) = {r} \cup Range(Tail(message_queue))
      /\ r \notin Range(Tail(message_queue)) /\ Distinct(Tail(message_queue))
  BY <1>1, <1>2, FirstAndRest DEF NextRequest
<1> HIDE DEF r
<1>4. /\ r \in Requests /\ r # NoRequest
      /\ got \in [Requests -> Nat] /\ server \in [Requests -> Servers]
  BY <1>2, <1>3, ConstantsAssumption DEF Shape
<1>5. Size(r) \in Nat /\ \A q : Size(q)' = Size(q)
  <2>1. setup \in Setups
    BY DEF Shape
  <2> QED BY <1>1, <1>4, <2>1, SetupTyped DEF Size
<1>6. Shape'
  <2>1. got' \in [Requests -> Nat] /\ server' \in [Requests -> Servers]
    BY <1>1, <1>4, <1>5 DEF Servers
  <2> QED BY <1>1, <2>1 DEF Shape
<1>7. Ours'
  <2>1. message_queue' \in Seq(sent') /\ current' \in sent' \cup {NoRequest}
    BY <1>1, <1>3
  <2>2. \A q \in Requests \ sent' : server'[q] = "none"
    BY <1>1, <1>3, <1>4 DEF Ours
  <2>3. /\ About(chunk', sent') /\ About(inbound', sent')
        /\ \A i \in DOMAIN outbox' : outbox'[i].of \in sent'
    BY <1>1 DEF Ours, About
  <2> QED BY <1>1, <2>1, <2>2, <2>3 DEF Ours
<1>8. Apart'
  BY <1>1 DEF Apart
<1>9. InTurn'
  <2>1. inbound = <<>>
    BY <1>1 DEF InTurn
  <2>2. \A q \in Requests : server[q] # "whole"
    BY <1>1, <1>4, ConstantsAssumption DEF InTurn
  <2>3. \A q \in Range(Tail(message_queue)) : q \in Requests /\ q # r /\ server[q] = "none"
    <3>1. \A q \in Range(message_queue) : q \in Requests
      BY <1>2 DEF Range
    <3>2. \A q \in Range(message_queue) : server[q] = "none"
      BY <1>1 DEF InTurn
    <3> QED BY <1>3, <3>1, <3>2, Zenon
  <2>4. \A q \in Range(Tail(message_queue)) : server'[q] = "none"
    BY <1>1, <1>4, <2>3
  <2>5. \A q \in Requests : server'[q] = "whole" => q = r
    BY <1>1, <1>4, <2>2
  <2> QED BY <1>1, <1>3, <2>1, <2>4, <2>5 DEF InTurn
<1>10. Sums'
  <2>1. WindowsAddUp'
    BY <1>1 DEF Sums, WindowsAddUp
  <2>2. \A q \in Requests : got'[q] <= Size(q)
    BY <1>1, <1>4, <1>5 DEF Sums, BodiesAddUp
  <2> QED BY <1>1, <1>5, <2>1, <2>2 DEF Sums, BodiesAddUp
<1>11. NotesKept'
  <2>1. Waiting' = Waiting
    BY <1>1, <1>3, <1>4 DEF Waiting, Current
  <2>2. Uuids' = Uuids /\ \A q : Tx(q)' = Tx(q)
    BY <1>1 DEF Uuids, Tx
  <2> QED BY <1>1, <2>1, <2>2 DEF NotesKept
<1>12. Handled'
  BY <1>1 DEF Handled, Tx, CallOf
<1> QED BY <1>6, <1>7, <1>8, <1>9, <1>10, <1>11, <1>12

LEMMA DataToSendHttp2Keeps == ASSUME HttpInv, DataToSendHttp2 PROVE HttpInv'
PROOF
<1> USE DEF HttpInv, Base
<1>1. /\ transport = "http2" /\ outbox' = <<>> /\ Write(outbox)
      /\ UNCHANGED <<setup, transport, connects, made, parse_queue, sent, handled, spoilt>>
      /\ UNCHANGED <<current, message_queue, heads, chunk, loop, inbound>>
      /\ UNCHANGED <<responses, buffered, left, window, stream, refused, forgotten>>
  BY DEF DataToSendHttp2, client_vars, h1_vars, receive_vars
<1>2. outbox \in Seq(Frame) /\ \A i \in DOMAIN outbox : outbox[i].of \in sent'
  BY <1>1 DEF Shape, Ours
<1>3. Ready(outbox)
  <2>1. \A i \in DOMAIN outbox : outbox[i].end => left[outbox[i].of] = 0
    BY <1>1 DEF Sums, BodiesAddUp
  <2> QED BY <1>1, <1>2, <2>1 DEF Ready, Sums, WindowsAddUp, BodiesAddUp
<1>4. Written(outbox)
  BY <1>1, <1>2, WriteDoes
<1>5. Shape'
  <2>1. got' \in [Requests -> Nat] /\ owed' \in [Requests \cup {Whole} -> Nat] /\ server' \in [Requests -> Servers]
    BY <1>4 DEF Written
  <2>2. outbox' \in Seq(Frame)
    BY <1>1
  <2> QED BY <1>1, <2>1, <2>2 DEF Shape
<1>6. Ours'
  <2>1. sent \subseteq sent' /\ responses' \subseteq sent'
    BY <1>1 DEF Ours
  <2>2. \A q \in Requests \ sent' : server'[q] = "none"
    BY <1>2, <1>4, <2>1, WriteIsOurs
  <2>3. About(chunk', sent') /\ About(inbound', sent') /\ DOMAIN outbox' = {}
    BY <1>1 DEF Ours, About
  <2> QED BY <1>1, <2>2, <2>3 DEF Ours
<1>7. Apart' /\ InTurn'
  BY <1>1 DEF Apart, InTurn
<1>8. Sums'
  <2>1. left' \in [Requests -> Nat] /\ window' \in Nat /\ stream' \in [Requests -> Nat]
    BY <1>1 DEF Shape
  <2> QED BY <1>1, <1>3, <1>4, <2>1, WrittenAddsUp
<1>9. NotesKept'
  <2>1. Waiting' = Waiting /\ Uuids' = Uuids /\ \A q : Tx(q)' = Tx(q)
    BY <1>1 DEF Waiting, Current, Uuids, Tx
  <2> QED BY <1>1, <2>1 DEF NotesKept
<1>10. Handled'
  BY <1>1 DEF Handled, Tx, CallOf
<1> QED BY <1>5, <1>6, <1>7, <1>8, <1>9, <1>10

\* What the homeserver does comes after what it has done before.
Comes(events, more, all) ==
  /\ all \in Seq(Happening) /\ About(all, sent)
  /\ \A w : Opened(all, w) = Opened(events, w) + Opened(more, w) /\ Opened(events, w) \in Nat

LEMMA ThenComes ==
  ASSUME NEW events \in Seq(Happening), NEW more \in Seq(Happening), About(events, sent), About(more, sent)
  PROVE  Comes(events, more, events \o more)
PROOF
<1> DEFINE all == events \o more
<1>1. /\ all \in Seq(Happening) /\ Len(all) = Len(events) + Len(more)
      /\ \A i \in 1..Len(events) + Len(more) : all[i] = IF i <= Len(events) THEN events[i] ELSE more[i - Len(events)]
  BY ConcatProperties, Zenon
<1>2. \A w : Opened(all, w) = Opened(events, w) + Opened(more, w) /\ Opened(events, w) \in Nat
  BY OpenedAdd
<1> HIDE DEF all
<1>3. About(all, sent)
  <2> SUFFICES ASSUME NEW i \in DOMAIN all
               PROVE  all[i].of \in sent \cup {Whole} /\ (all[i].kind # "window" => all[i].of \in sent)
    BY DEF About
  <2>1. i \in 1..Len(events) + Len(more) /\ Len(events) \in Nat /\ Len(more) \in Nat
    BY <1>1
  <2>2. CASE i <= Len(events)
    <3>1. i \in DOMAIN events /\ all[i] = events[i]
      BY <1>1, <2>1, <2>2
    <3> QED BY <3>1 DEF About
  <2>3. CASE ~(i <= Len(events))
    <3>1. i - Len(events) \in DOMAIN more /\ all[i] = more[i - Len(events)]
      BY <1>1, <2>1, <2>3
    <3> QED BY <3>1 DEF About
  <2> QED BY <2>2, <2>3
<1> QED BY <1>1, <1>2, <1>3 DEF Comes, all

\* One event, of a call that was made or of a window.
LEMMA OneComes ==
  ASSUME NEW events \in Seq(Happening), About(events, sent), NEW e \in Happening,
         e.of \in sent \/ (e.kind = "window" /\ e.of = Whole)
  PROVE  Comes(events, <<e>>, Append(events, e))
PROOF
<1>1. <<e>> \in Seq(Happening) /\ About(<<e>>, sent)
  BY DEF About
<1>2. Append(events, e) = events \o <<e>>
  BY AppendIsConcat
<1> QED BY <1>1, <1>2, ThenComes

\* What the steps of the homeserver leave alone.
LEMMA HomeserverNotes ==
  ASSUME HttpInv, UNCHANGED <<setup, made, parse_queue, sent, handled, spoilt, current, message_queue, responses>>
  PROVE  NotesKept' /\ Handled'
PROOF
<1>1. Waiting' = Waiting /\ Uuids' = Uuids /\ (\A q : Tx(q)' = Tx(q)) /\ \A q : CallOf(q)' = CallOf(q)
  BY DEF Waiting, Current, Uuids, Tx, CallOf
<1> QED BY <1>1 DEF HttpInv, NotesKept, Handled

LEMMA AnswerKeeps ==
  ASSUME HttpInv, NEW r \in Requests, NEW a \in Answers, Answer(r, a)
  PROVE  HttpInv'
PROOF
<1> DEFINE head == Event("head", r, 0, a)
           end == Event("end", r, 0, a)
           more == <<head, end>>
<1> USE DEF HttpInv, Base
<1>1. /\ chunk = <<>> /\ server[r] = "whole" /\ server' = [server EXCEPT ![r] = "answered"]
      /\ inbound' = inbound \o more
      /\ UNCHANGED <<setup, transport, connects, made, parse_queue, sent, handled, spoilt>>
      /\ UNCHANGED <<current, message_queue, heads, chunk, loop, got, owed>>
      /\ UNCHANGED <<responses, buffered, left, window, stream, outbox, refused, forgotten>>
  BY DEF Answer, Meanwhile, Returned, client_vars, h1_vars, h2_vars, receive_vars
<1>2. r \in sent
  BY <1>1 DEF Ours
<1>3. /\ head \in Happening /\ head.of = r /\ head.kind = "head"
      /\ end \in Happening /\ end.of = r /\ end.kind = "end"
  BY DEF Event, Happening, AnswerKinds
<1> HIDE DEF head, end
<1>4. inbound \in Seq(Happening) /\ About(inbound, sent)
  BY DEF Shape, Ours
<1>5. more \in Seq(Happening) /\ About(more, sent)
  BY <1>2, <1>3 DEF About
<1>6. \A w : Opened(more, w) = 0
  <2>1. <<head>> \in Seq(Happening) /\ <<end>> \in Seq(Happening) /\ more = <<head>> \o <<end>>
    <3>1. <<head>> \in Seq(Happening) /\ <<end>> \in Seq(Happening)
      BY <1>3
    <3>2. <<head, end>> = <<head>> \o <<end>>
      <4>1. <<head, end>> = Append(<<head>>, end)
        OBVIOUS
      <4> QED BY <1>3, <3>1, <4>1, AppendIsConcat
    <3> QED BY <3>1, <3>2
  <2> HIDE DEF more
  <2>2. \A w : Opened(more, w) = Opened(<<head>>, w) + Opened(<<end>>, w)
    BY <2>1, OpenedAdd
  <2>3. \A w : Opened(<<head>>, w) = 0
    BY <1>3, OpenedOne DEF Opens
  <2>4. \A w : Opened(<<end>>, w) = 0
    BY <1>3, OpenedOne DEF Opens
  <2> QED BY <2>2, <2>3, <2>4
<1>7. Len(more) = 2 /\ more[1] = head /\ more[2] = end /\ DOMAIN more = {1, 2}
  OBVIOUS
<1> HIDE DEF more
<1>8. Comes(inbound, more, inbound')
  BY <1>1, <1>4, <1>5, ThenComes
<1>9. inbound' \in Seq(Happening) /\ About(inbound', sent) /\ \A w : Opened(inbound', w) = Opened(inbound, w)
  BY <1>6, <1>8 DEF Comes
<1>10. server \in [Requests -> Servers] /\ server' \in [Requests -> Servers]
  BY <1>1 DEF Shape, Servers
<1>11. Shape'
  BY <1>1, <1>9, <1>10 DEF Shape
<1>12. Ours'
  <2>1. \A q \in Requests \ sent' : server'[q] = "none"
    BY <1>1, <1>2, <1>10 DEF Ours
  <2>2. About(chunk', sent') /\ About(inbound', sent')
    BY <1>1, <1>9 DEF About
  <2> QED BY <1>1, <2>1, <2>2 DEF Ours
<1>13. Apart'
  <2>1. transport # "none"
    BY <1>1 DEF Apart
  <2> QED BY <1>1, <2>1 DEF Apart
<1>14. InTurn'
  <2> SUFFICES ASSUME transport = "http" PROVE InTurn'
    BY <1>1 DEF InTurn
  <2>1. current = r /\ inbound = <<>>
    <3>1. current = r
      BY <1>1 DEF InTurn
    <3> QED BY <1>1, <3>1 DEF InTurn
  <2>2. inbound' = more
    BY <1>1, <1>5, <2>1
  <2>3. \A q \in Range(message_queue) : q \in Requests /\ q # r /\ server[q] = "none"
    <3>1. \A q \in Range(message_queue) : q \in Requests
      BY DEF Ours, Range
    <3>2. current \notin Range(message_queue) /\ \A q \in Range(message_queue) : server[q] = "none"
      BY DEF InTurn
    <3> QED BY <2>1, <3>1, <3>2, Zenon
  <2>4. \A q \in Range(message_queue) : server'[q] = "none"
    BY <1>1, <1>10, <2>3
  <2>5. \A q \in Requests : server'[q] = "whole" => q = r
    BY <1>1, <1>10, <2>1 DEF InTurn
  <2>6. server'[r] = "answered" /\ r # NoRequest
    BY <1>1, <1>10, ConstantsAssumption
  <2>7. Distinct(message_queue) /\ r \notin Range(message_queue)
    BY <2>1 DEF InTurn
  <2>8. \A i \in DOMAIN inbound' : /\ inbound'[i].of = r /\ inbound'[i].kind \in {"head", "end"}
                                   /\ inbound'[i].kind = "end" => i = Len(inbound')
    BY <1>3, <1>7, <2>2
  <2> QED BY <1>1, <2>1, <2>4, <2>5, <2>6, <2>7, <2>8 DEF InTurn
<1>15. Sums'
  <2>1. \A q : Size(q)' = Size(q)
    BY <1>1 DEF Size
  <2>2. WindowsAddUp'
    BY <1>1, <1>9 DEF Sums, WindowsAddUp
  <2>3. \A q \in Requests : server'[q] \in {"whole", "answered"} => server[q] \in {"whole", "answered"}
    BY <1>1, <1>10
  <2> QED BY <1>1, <2>1, <2>2, <2>3 DEF Sums, BodiesAddUp
<1>16. NotesKept' /\ Handled'
  BY <1>1, HomeserverNotes
<1> QED BY <1>11, <1>12, <1>13, <1>14, <1>15, <1>16

LEMMA ResetKeeps == ASSUME HttpInv, NEW r \in Requests, Reset(r) PROVE HttpInv'
PROOF
<1> DEFINE e == Event("reset", r, 0, "nothing")
<1> USE DEF HttpInv, Base
<1>1. /\ transport = "http2" /\ server[r] \in {"open", "whole"} /\ server' = [server EXCEPT ![r] = "reset"]
      /\ inbound' = Append(inbound, e)
      /\ UNCHANGED <<setup, transport, connects, made, parse_queue, sent, handled, spoilt>>
      /\ UNCHANGED <<current, message_queue, heads, chunk, loop, got, owed>>
      /\ UNCHANGED <<responses, buffered, left, window, stream, outbox, refused, forgotten>>
  BY DEF Reset, client_vars, h1_vars, h2_vars, receive_vars
<1>2. r \in sent
  BY <1>1 DEF Ours
<1>3. e \in Happening /\ e.of = r /\ e.kind = "reset"
  BY DEF Event, Happening, AnswerKinds
<1> HIDE DEF e
<1>4. inbound \in Seq(Happening) /\ About(inbound, sent)
  BY DEF Shape, Ours
<1>5. \A w : Opened(<<e>>, w) = 0
  BY <1>3, OpenedOne DEF Opens
<1>6. Comes(inbound, <<e>>, inbound')
  BY <1>1, <1>2, <1>3, <1>4, OneComes
<1>7. inbound' \in Seq(Happening) /\ About(inbound', sent) /\ \A w : Opened(inbound', w) = Opened(inbound, w)
  BY <1>5, <1>6 DEF Comes
<1>8. server \in [Requests -> Servers] /\ server' \in [Requests -> Servers]
  BY <1>1 DEF Shape, Servers
<1>9. Shape'
  BY <1>1, <1>7, <1>8 DEF Shape
<1>10. Ours'
  <2>1. \A q \in Requests \ sent' : server'[q] = "none"
    BY <1>1, <1>2, <1>8 DEF Ours
  <2>2. About(chunk', sent') /\ About(inbound', sent')
    BY <1>1, <1>7 DEF Ours
  <2> QED BY <1>1, <2>1, <2>2 DEF Ours
<1>11. Apart' /\ InTurn'
  BY <1>1 DEF Apart, InTurn
<1>12. Sums'
  <2>1. \A q : Size(q)' = Size(q)
    BY <1>1 DEF Size
  <2>2. WindowsAddUp'
    BY <1>1, <1>7 DEF Sums, WindowsAddUp
  <2>3. \A q \in Requests : server'[q] \in {"whole", "answered"} => server[q] \in {"whole", "answered"}
    BY <1>1, <1>8
  <2> QED BY <1>1, <2>1, <2>2, <2>3 DEF Sums, BodiesAddUp
<1>13. NotesKept' /\ Handled'
  BY <1>1, HomeserverNotes
<1> QED BY <1>9, <1>10, <1>11, <1>12, <1>13

LEMMA OpenWindowKeeps == ASSUME HttpInv, NEW w \in Requests \cup {Whole}, OpenWindow(w) PROVE HttpInv'
PROOF
<1> DEFINE e == Event("window", w, owed[w], "nothing")
<1> USE DEF HttpInv, Base
<1>1. /\ owed[w] > 0 /\ (w \in Requests => server[w] = "open") /\ owed' = [owed EXCEPT ![w] = 0]
      /\ inbound' = Append(inbound, e)
      /\ UNCHANGED <<setup, transport, connects, made, parse_queue, sent, handled, spoilt>>
      /\ UNCHANGED <<current, message_queue, heads, chunk, loop, got, server>>
      /\ UNCHANGED <<responses, buffered, left, window, stream, outbox, refused, forgotten>>
  BY DEF OpenWindow, client_vars, h1_vars, h2_vars, receive_vars
<1>2. transport = "http2"
  BY <1>1 DEF Apart, Shape
<1>3. w \in sent \cup {Whole}
  BY <1>1 DEF Ours
<1>4. owed \in [Requests \cup {Whole} -> Nat] /\ owed[w] \in Nat /\ owed' \in [Requests \cup {Whole} -> Nat]
  BY <1>1 DEF Shape
<1>5. e \in Happening /\ e.of = w /\ e.kind = "window" /\ e.bytes = owed[w]
  BY <1>4 DEF Event, Happening, AnswerKinds
<1> HIDE DEF e
<1>6. inbound \in Seq(Happening) /\ About(inbound, sent)
  BY DEF Shape, Ours
<1>7. \A q : Opened(<<e>>, q) = IF q = w THEN owed[w] ELSE 0
  BY <1>5, OpenedOne DEF Opens
<1>8. Comes(inbound, <<e>>, inbound')
  BY <1>1, <1>3, <1>5, <1>6, OneComes
<1>9. /\ inbound' \in Seq(Happening) /\ About(inbound', sent)
      /\ \A q : Opened(inbound, q) \in Nat /\ Opened(inbound', q) = Opened(inbound, q) + IF q = w THEN owed[w] ELSE 0
  BY <1>7, <1>8 DEF Comes
<1>10. Shape'
  BY <1>1, <1>4, <1>9 DEF Shape
<1>11. Ours'
  <2>1. About(chunk', sent') /\ About(inbound', sent')
    BY <1>1, <1>9 DEF Ours
  <2> QED BY <1>1, <2>1 DEF Ours
<1>12. Apart' /\ InTurn'
  BY <1>1, <1>2 DEF Apart, InTurn
<1>13. Sums'
  <2>1. \A q : Size(q)' = Size(q)
    BY <1>1 DEF Size
  <2>2. ASSUME NEW q \in Requests \cup {Whole}
        PROVE  owed'[q] + Opened(inbound', q) = owed[q] + Opened(inbound, q)
               /\ owed'[q] \in Nat /\ owed[q] \in Nat /\ Opened(inbound, q) \in Nat /\ Opened(inbound', q) \in Nat
    BY <1>1, <1>4, <1>9
  <2>3. outbox \in Seq(Frame) /\ window \in Nat /\ stream \in [Requests -> Nat]
    BY DEF Shape
  <2>4. AllBytes(outbox) \in Nat /\ \A q : Bytes(outbox, q) \in Nat
    BY <2>3, BytesAdd
  <2>5. window + AllBytes(outbox) + owed'[Whole] + Opened(inbound', Whole) = Window
    <3>1. window + AllBytes(outbox) + owed[Whole] + Opened(inbound, Whole) = Window
      BY DEF Sums, WindowsAddUp
    <3>2. /\ owed'[Whole] + Opened(inbound', Whole) = owed[Whole] + Opened(inbound, Whole)
          /\ owed'[Whole] \in Nat /\ owed[Whole] \in Nat
          /\ Opened(inbound, Whole) \in Nat /\ Opened(inbound', Whole) \in Nat
      BY <2>2
    <3>3. window \in Nat /\ AllBytes(outbox) \in Nat
      BY <2>3, <2>4
    <3> QED BY <3>1, <3>2, <3>3
  <2>6. ASSUME NEW q \in Requests
        PROVE  stream[q] + Bytes(outbox, q) + owed'[q] + Opened(inbound', q) = Window
    <3>1. stream[q] + Bytes(outbox, q) + owed[q] + Opened(inbound, q) = Window
      BY DEF Sums, WindowsAddUp
    <3>2. stream[q] \in Nat /\ Bytes(outbox, q) \in Nat
      BY <2>3, <2>4
    <3> QED BY <2>2, <3>1, <3>2
  <2>7. WindowsAddUp'
    BY <1>1, <2>5, <2>6 DEF WindowsAddUp
  <2>8. BodiesAddUp'
    BY <1>1, <2>1 DEF Sums, BodiesAddUp
  <2> QED BY <2>7, <2>8 DEF Sums
<1>14. NotesKept' /\ Handled'
  BY <1>1, HomeserverNotes
<1> QED BY <1>10, <1>11, <1>12, <1>13, <1>14

\* The events that are read, and those that are not yet: the windows are opened.
LEMMA ReceiveKeeps == ASSUME HttpInv, NEW k \in DOMAIN inbound, Receive(k) PROVE HttpInv'
PROOF
<1> USE DEF HttpInv, Base
<1>1. /\ chunk = <<>> /\ loop = <<>>
      /\ chunk' = SubSeq(inbound, 1, k) /\ inbound' = SubSeq(inbound, k + 1, Len(inbound))
      /\ window' = window + Opened(chunk', Whole)
      /\ stream' = [r \in Requests |-> stream[r] + Opened(chunk', r)]
      /\ refused' = refused \cup ResetIn(chunk')
      /\ UNCHANGED <<setup, transport, connects, made, parse_queue, sent, handled, spoilt, current, message_queue>>
      /\ UNCHANGED <<responses, buffered, left, outbox, forgotten, heads, loop, got, server, owed>>
  BY DEF Receive, Returned, client_vars, h1_vars
<1>2. inbound \in Seq(Happening) /\ About(inbound, sent)
  BY DEF Shape, Ours
<1>3. /\ chunk' \in Seq(Happening) /\ inbound' \in Seq(Happening)
      /\ \A w : Opened(inbound, w) = Opened(chunk', w) + Opened(inbound', w)
  BY <1>1, <1>2, OpenedSplit
<1>4. \A w : Opened(chunk', w) \in Nat /\ Opened(inbound', w) \in Nat
  BY <1>3, OpenedAdd
<1>5. Len(inbound) \in Nat /\ k \in 1..Len(inbound) /\ DOMAIN inbound = 1..Len(inbound)
  BY <1>2
<1>6. Len(chunk') = k /\ \A i \in DOMAIN chunk' : i \in DOMAIN inbound /\ i <= k /\ chunk'[i] = inbound[i]
  BY <1>1, <1>2, <1>5
<1>7. /\ Len(inbound') = Len(inbound) - k
      /\ \A i \in DOMAIN inbound' : i \in Nat /\ k + i \in DOMAIN inbound /\ inbound'[i] = inbound[k + i]
  BY <1>1, <1>2, <1>5
<1>8. Shape'
  <2>1. window' \in Nat
    BY <1>1, <1>4 DEF Shape
  <2>2. stream' \in [Requests -> Nat]
    BY <1>1, <1>4 DEF Shape
  <2> QED BY <1>1, <1>3, <2>1, <2>2 DEF Shape
<1>9. Ours'
  <2>1. About(chunk', sent)
    BY <1>2, <1>6 DEF About
  <2>2. About(inbound', sent)
    BY <1>2, <1>7 DEF About
  <2>3. refused' \subseteq sent
    <3>1. ResetIn(chunk') \subseteq sent
      BY <2>1 DEF ResetIn, About, Range
    <3> QED BY <1>1, <3>1 DEF Ours
  <2>4. forgotten' \subseteq refused'
    BY <1>1 DEF Ours
  <2> QED BY <1>1, <2>1, <2>2, <2>3, <2>4 DEF Ours
<1>10. transport # "none"
  BY <1>2, <1>5 DEF Apart
<1>11. Apart'
  BY <1>1, <1>10 DEF Apart
<1>12. InTurn'
  <2> SUFFICES ASSUME transport = "http" PROVE InTurn'
    BY <1>1 DEF InTurn
  <2>1. \A i \in DOMAIN inbound : /\ inbound[i].of = current /\ inbound[i].kind \in {"head", "end"}
                                  /\ inbound[i].kind = "end" => i = Len(inbound)
    BY DEF InTurn
  <2>2. current # NoRequest /\ server[current] = "answered"
    BY <1>2, <1>5 DEF InTurn
  <2>3. ASSUME NEW i \in DOMAIN chunk'
        PROVE  /\ chunk'[i].of = current /\ chunk'[i].kind \in {"head", "end"}
               /\ chunk'[i].kind = "end" => i = Len(chunk') /\ inbound' = <<>>
    <3>1. i \in DOMAIN inbound /\ i <= k /\ chunk'[i] = inbound[i]
      BY <1>6
    <3>2. i = Len(inbound) => i = Len(chunk') /\ inbound' = <<>>
      <4> SUFFICES ASSUME i = Len(inbound) PROVE i = k /\ inbound' = <<>>
        BY <1>6
      <4>1. i = k /\ Len(inbound') = 0
        BY <1>5, <1>7, <3>1
      <4> QED BY <1>3, <4>1
    <3> QED BY <2>1, <3>1, <3>2
  <2>4. ASSUME NEW i \in DOMAIN inbound'
        PROVE  /\ inbound'[i].of = current /\ inbound'[i].kind \in {"head", "end"}
               /\ inbound'[i].kind = "end" => i = Len(inbound')
    <3>1. k + i \in DOMAIN inbound /\ inbound'[i] = inbound[k + i] /\ i \in Nat
      BY <1>7
    <3>2. k + i = Len(inbound) => i = Len(inbound')
      BY <1>5, <1>7, <3>1
    <3> QED BY <2>1, <3>1, <3>2
  <2> QED BY <1>1, <2>2, <2>3, <2>4 DEF InTurn
<1>13. Sums'
  <2>1. \A q : Size(q)' = Size(q)
    BY <1>1 DEF Size
  <2>2. outbox \in Seq(Frame) /\ window \in Nat /\ stream \in [Requests -> Nat]
        /\ owed \in [Requests \cup {Whole} -> Nat]
    BY DEF Shape
  <2>3. AllBytes(outbox) \in Nat /\ \A q : Bytes(outbox, q) \in Nat
    BY <2>2, BytesAdd
  <2>4. window' + AllBytes(outbox) + owed[Whole] + Opened(inbound', Whole) = Window
    <3>1. window + AllBytes(outbox) + owed[Whole] + Opened(inbound, Whole) = Window
      BY DEF Sums, WindowsAddUp
    <3>2. Opened(inbound, Whole) = Opened(chunk', Whole) + Opened(inbound', Whole)
      BY <1>3
    <3>3. window \in Nat /\ AllBytes(outbox) \in Nat /\ owed[Whole] \in Nat
          /\ Opened(chunk', Whole) \in Nat /\ Opened(inbound', Whole) \in Nat
      BY <1>4, <2>2, <2>3
    <3>4. window' = window + Opened(chunk', Whole)
      BY <1>1
    <3> QED BY <3>1, <3>2, <3>3, <3>4
  <2>5. ASSUME NEW q \in Requests
        PROVE  stream'[q] + Bytes(outbox, q) + owed[q] + Opened(inbound', q) = Window
    <3>1. stream[q] + Bytes(outbox, q) + owed[q] + Opened(inbound, q) = Window
      BY DEF Sums, WindowsAddUp
    <3>2. Opened(inbound, q) = Opened(chunk', q) + Opened(inbound', q)
      BY <1>3
    <3>3. stream[q] \in Nat /\ Bytes(outbox, q) \in Nat /\ owed[q] \in Nat
          /\ Opened(chunk', q) \in Nat /\ Opened(inbound', q) \in Nat
      BY <1>4, <2>2, <2>3
    <3>4. stream'[q] = stream[q] + Opened(chunk', q)
      BY <1>1
    <3> QED BY <3>1, <3>2, <3>3, <3>4
  <2>6. WindowsAddUp'
    BY <1>1, <2>4, <2>5 DEF WindowsAddUp
  <2>7. BodiesAddUp'
    BY <1>1, <2>1 DEF Sums, BodiesAddUp
  <2> QED BY <2>6, <2>7 DEF Sums
<1>14. NotesKept' /\ Handled'
  BY <1>1, HomeserverNotes
<1> QED BY <1>8, <1>9, <1>11, <1>12, <1>13, <1>14

\* The chunk without its first event.
LEMMA RestOfChunk ==
  ASSUME Base, chunk # <<>>
  PROVE  /\ Tail(chunk) \in Seq(Happening) /\ About(Tail(chunk), sent)
         /\ Head(chunk) \in Happening /\ Head(chunk).of \in sent \cup {Whole}
         /\ Head(chunk).kind # "window" => Head(chunk).of \in sent
         /\ transport # "none"
         /\ transport = "http" =>
              /\ Head(chunk).of = current /\ Head(chunk).kind \in {"head", "end"}
              /\ Head(chunk).kind = "end" => inbound = <<>>
              /\ \A i \in DOMAIN Tail(chunk) :
                   /\ Tail(chunk)[i].of = current /\ Tail(chunk)[i].kind \in {"head", "end"}
                   /\ Tail(chunk)[i].kind = "end" => i = Len(Tail(chunk)) /\ inbound = <<>>
PROOF
<1> DEFINE rest == Tail(chunk)
<1>1. chunk \in Seq(Happening) /\ About(chunk, sent)
  BY DEF Base, Shape, Ours
<1>2. /\ Head(chunk) \in Happening /\ rest \in Seq(Happening) /\ Len(rest) = Len(chunk) - 1
      /\ \A i \in DOMAIN rest : i + 1 \in DOMAIN chunk /\ rest[i] = chunk[i + 1]
      /\ Head(chunk) = chunk[1] /\ 1 \in DOMAIN chunk
  BY <1>1, FirstAndRest
<1>3. Len(chunk) \in Nat /\ DOMAIN chunk = 1..Len(chunk)
  BY <1>1
<1> HIDE DEF rest
<1>4. About(rest, sent)
  BY <1>1, <1>2 DEF About
<1>5. /\ chunk[1].of \in sent \cup {Whole}
      /\ chunk[1].kind # "window" => chunk[1].of \in sent
  BY <1>1, <1>2 DEF About
<1>6. transport # "none"
  BY DEF Base, Apart
<1>7. ASSUME transport = "http"
      PROVE  /\ chunk[1].of = current /\ chunk[1].kind \in {"head", "end"}
             /\ chunk[1].kind = "end" => inbound = <<>>
             /\ \A i \in DOMAIN rest :
                  /\ rest[i].of = current /\ rest[i].kind \in {"head", "end"}
                  /\ rest[i].kind = "end" => i = Len(rest) /\ inbound = <<>>
  <2>1. \A i \in DOMAIN chunk : /\ chunk[i].of = current /\ chunk[i].kind \in {"head", "end"}
                                /\ chunk[i].kind = "end" => i = Len(chunk) /\ inbound = <<>>
    BY <1>7 DEF Base, InTurn
  <2>2. ASSUME NEW i \in DOMAIN rest, i + 1 = Len(chunk) PROVE i = Len(rest)
    <3>1. i \in Nat
      BY <1>2
    <3> QED BY <1>2, <1>3, <2>2, <3>1
  <2> QED BY <1>2, <2>1, <2>2
<1> QED BY <1>2, <1>4, <1>5, <1>6, <1>7 DEF rest

\* What the steps of receive that only take events leave alone.
LEMMA ReceiverSums ==
  ASSUME Sums, responses' \subseteq responses,
         UNCHANGED <<setup, transport, buffered, left, window, stream, outbox, got, server, owed, inbound>>
  PROVE  Sums'
PROOF
<1>1. \A q : Size(q)' = Size(q)
  BY DEF Size
<1>2. WindowsAddUp'
  BY DEF Sums, WindowsAddUp
<1>3. BodiesAddUp'
  BY <1>1 DEF Sums, BodiesAddUp
<1> QED BY <1>2, <1>3 DEF Sums

LEMMA HandleHeadKeeps == ASSUME HttpInv, HandleHead PROVE HttpInv'
PROOF
<1> USE DEF HttpInv
<1>1. /\ loop = <<>> /\ chunk # <<>> /\ Head(chunk).kind = "head"
      /\ heads' = heads \cup {Head(chunk).of} /\ chunk' = Tail(chunk)
      /\ UNCHANGED <<setup, transport, connects, made, parse_queue, sent, handled, spoilt, current, message_queue>>
      /\ UNCHANGED <<responses, buffered, left, window, stream, outbox, refused, forgotten, loop>>
      /\ UNCHANGED <<got, server, owed, inbound>>
  BY DEF HandleHead, Handling, Rest, client_vars, h1_vars, h2_vars, server_vars
<1>2. /\ chunk' \in Seq(Happening) /\ About(chunk', sent) /\ Head(chunk).of \in sent /\ transport # "none"
      /\ transport = "http" =>
           \A i \in DOMAIN chunk' :
              /\ chunk'[i].of = current /\ chunk'[i].kind \in {"head", "end"}
              /\ chunk'[i].kind = "end" => i = Len(chunk') /\ inbound = <<>>
  BY <1>1, RestOfChunk
<1>3. Shape' /\ Apart'
  BY <1>1, <1>2 DEF Base, Shape, Apart
<1>4. Ours'
  BY <1>1, <1>2 DEF Base, Ours
<1>5. InTurn'
  BY <1>1, <1>2 DEF Base, InTurn
<1>6. Sums'
  BY <1>1, ReceiverSums
<1>7. NotesKept' /\ Handled'
  BY <1>1, HomeserverNotes
<1> QED BY <1>3, <1>4, <1>5, <1>6, <1>7 DEF Base

LEMMA HandleWindowKeeps == ASSUME HttpInv, HandleWindow PROVE HttpInv'
PROOF
<1> USE DEF HttpInv
<1>1. /\ loop = <<>> /\ chunk # <<>> /\ Head(chunk).kind = "window"
      /\ loop' = Updated(Head(chunk).of)
      /\ chunk' = IF loop' = <<>> THEN Tail(chunk) ELSE chunk
      /\ UNCHANGED <<setup, transport, connects, made, parse_queue, sent, handled, spoilt, current, message_queue>>
      /\ UNCHANGED <<responses, buffered, left, window, stream, outbox, refused, forgotten, heads>>
      /\ UNCHANGED <<got, server, owed, inbound>>
  BY DEF HandleWindow, Handling, client_vars, h1_vars, h2_vars, server_vars
<1>2. /\ Tail(chunk) \in Seq(Happening) /\ About(Tail(chunk), sent)
      /\ transport # "none" /\ transport # "http"
  BY <1>1, RestOfChunk
<1>3. loop' \in Seq(sent)
  <2>1. buffered \in Seq(sent)
    BY DEF Base, Ours
  <2> DEFINE w == Head(chunk).of
  <2>2. Contains(buffered, w) => w \in sent
    BY <2>1 DEF Contains
  <2>3. IF Contains(buffered, w) THEN Updated(w) = <<w>> ELSE Updated(w) \in {buffered, <<>>}
    BY DEF Updated
  <2> HIDE DEF w
  <2>4. <<>> \in Seq(sent) /\ (w \in sent => <<w>> \in Seq(sent))
    OBVIOUS
  <2>5. Updated(w) \in Seq(sent)
    BY <2>1, <2>2, <2>3, <2>4, Zenon
  <2> QED BY <1>1, <2>5 DEF w
<1>4. Shape' /\ Apart' /\ InTurn'
  BY <1>1, <1>2 DEF Base, Shape, Apart, InTurn
<1>5. Ours'
  BY <1>1, <1>2, <1>3 DEF Base, Ours
<1>6. Sums'
  BY <1>1, ReceiverSums
<1>7. NotesKept' /\ Handled'
  BY <1>1, HomeserverNotes
<1> QED BY <1>4, <1>5, <1>6, <1>7 DEF Base

\* receive is over: the events that were not handled are spoilt for their calls.
LEMMA LeaveIsOurs ==
  ASSUME Base, chunk # <<>>, NEW streams, streams \subseteq sent, Leave(streams)
  PROVE  /\ chunk' = <<>> /\ loop' = <<>>
         /\ spoilt' \subseteq sent /\ spoilt \subseteq spoilt'
PROOF
<1>1. About(Tail(chunk), sent)
  BY RestOfChunk
<1>2. Lost(Tail(chunk)) \ {Whole} \subseteq sent
  BY <1>1 DEF Lost, About, Range
<1>3. Range(buffered) \subseteq sent /\ spoilt \subseteq sent
  BY DEF Base, Ours, Range
<1> QED BY <1>2, <1>3 DEF Leave

LEMMA HandleEndKeeps == ASSUME HttpInv, HandleEnd PROVE HttpInv'
PROOF
<1> DEFINE r == Head(chunk).of
<1> USE DEF HttpInv
<1>1. /\ chunk # <<>> /\ Head(chunk).kind \in {"end", "reset"}
      /\ Noted(ResponseOf) /\ Leave({})
      /\ current' = NoRequest /\ responses' = responses \ {ResponseOf} /\ heads' = heads \ {ResponseOf}
      /\ UNCHANGED <<setup, transport, connects, sent, handled, message_queue, buffered, left, window, stream, outbox>>
      /\ UNCHANGED <<refused, forgotten, got, server, owed, inbound>>
  BY DEF HandleEnd, Handling, server_vars
<1>2. /\ r \in sent /\ transport # "none" /\ Head(chunk).answer \in AnswerKinds
      /\ transport = "http" => r = current /\ inbound = <<>>
  <2>1. /\ Head(chunk) \in Happening /\ transport # "none"
        /\ Head(chunk).kind # "window" => r \in sent
        /\ transport = "http" => /\ r = current /\ Head(chunk).kind \in {"head", "end"}
                                 /\ Head(chunk).kind = "end" => inbound = <<>>
    BY <1>1, RestOfChunk
  <2> QED BY <1>1, <2>1 DEF Happening
<1>3. ResponseOf = r
  BY <1>2 DEF ResponseOf
<1>4. chunk' = <<>> /\ loop' = <<>> /\ spoilt' \subseteq sent /\ spoilt \subseteq spoilt'
  BY <1>1, LeaveIsOurs
<1> DEFINE answer == IF r \in heads THEN Head(chunk).answer ELSE "nothing"
           x == [info |-> made[Tx(r)], of |-> r, answer |-> answer,
                 typed |-> transport = "http2" /\ answer # "nothing"]
<1>5. IF Tx(r) \in DOMAIN made
      THEN made' = Without(made, Tx(r)) /\ parse_queue' = Append(parse_queue, x)
      ELSE UNCHANGED <<made, parse_queue>>
  BY <1>1, <1>3 DEF Noted
<1>6. answer \in AnswerKinds
  BY <1>2 DEF AnswerKinds
<1> HIDE DEF answer, r
<1>7. Shape'
  BY <1>1, <1>4 DEF Base, Shape
<1>8. Ours'
  <2>1. DOMAIN chunk' = {}
    BY <1>4
  <2>2. About(chunk', sent') /\ About(inbound', sent')
    BY <1>1, <2>1 DEF About, Base, Ours
  <2>3. heads' \subseteq sent' /\ responses' \subseteq sent' /\ loop' \in Seq(sent')
    BY <1>1, <1>4 DEF Base, Ours
  <2> QED BY <1>1, <1>4, <2>2, <2>3 DEF Base, Ours
<1>9. Apart'
  BY <1>1, <1>2, <1>4 DEF Base, Apart
<1>10. InTurn'
  <2> SUFFICES ASSUME transport = "http" PROVE InTurn'
    BY <1>1 DEF InTurn
  <2>1. current = r /\ server[current] = "answered" /\ inbound = <<>>
    BY <1>1, <1>2 DEF Base, InTurn
  <2>2. \A q \in Requests : server[q] # "whole"
    BY <2>1 DEF Base, InTurn
  <2>3. NoRequest \notin Range(message_queue)
    BY ConstantsAssumption DEF Base, Ours, Range
  <2> QED BY <1>1, <1>4, <2>1, <2>2, <2>3 DEF Base, InTurn
<1>11. Sums'
  BY <1>1, ReceiverSums
<1>12. Waiting' \subseteq Waiting \ {r} /\ Waiting \ {r} \subseteq Waiting'
  <2>1. CASE transport = "http"
    <3>1. current = r /\ responses = {} /\ current \notin Range(message_queue)
      BY <1>2, <2>1 DEF Base, Apart, InTurn
    <3> QED BY <1>1, <3>1 DEF Waiting, Current
  <2>2. CASE transport # "http"
    <3>1. current = NoRequest /\ Range(message_queue) = {}
      BY <2>2 DEF Base, Apart, Range
    <3> QED BY <1>1, <1>3, <3>1 DEF Waiting, Current
  <2> QED BY <2>1, <2>2
<1>13. \A q : Tx(q)' = Tx(q) /\ CallOf(q)' = CallOf(q)
  BY <1>1 DEF Tx, CallOf
<1>14. /\ DOMAIN made' = DOMAIN made \ {Tx(r)}
       /\ \A u \in DOMAIN made' : made'[u] = made[u]
  BY <1>5 DEF Without
<1>15. ASSUME NEW u \in DOMAIN made'
       PROVE  /\ made'[u] \in sent /\ Tx(made'[u]) = u /\ made'[u] \in Waiting' \cup spoilt'
              /\ made'[u] # r
  <2>1. u \in DOMAIN made /\ u # Tx(r) /\ made'[u] = made[u]
    BY <1>14
  <2>2. made[u] \in sent /\ Tx(made[u]) = u /\ made[u] \in Waiting \cup spoilt
    BY <2>1 DEF NotesKept
  <2> QED BY <1>4, <1>12, <2>1, <2>2
<1>16. ASSUME NEW q \in Waiting' PROVE Tx(q) \in DOMAIN made' \/ \E p \in sent \ {q} : Tx(p) = Tx(q)
  <2>1. q \in Waiting /\ q # r
    BY <1>12
  <2>2. CASE Tx(q) = Tx(r)
    BY <1>2, <2>1, <2>2
  <2>3. CASE Tx(q) # Tx(r)
    <3>1. Tx(q) \in DOMAIN made \/ \E p \in sent \ {q} : Tx(p) = Tx(q)
      BY <2>1 DEF NotesKept
    <3> QED BY <1>14, <2>3, <3>1
  <2> QED BY <2>2, <2>3
<1>17. ASSUME NEW y, y \in Note /\ y.info \in sent /\ y.of \in sent /\ Tx(y.of) = Tx(y.info),
              \A u \in DOMAIN made : made[u] # y.info /\ made[u] # y.of
       PROVE  \A u \in DOMAIN made' : made'[u] # y.info /\ made'[u] # y.of
  BY <1>14, <1>17
<1>18. /\ parse_queue' \in Seq(Note)
       /\ \A i \in DOMAIN parse_queue' :
             LET y == parse_queue'[i]
             IN /\ y.info \in sent /\ y.of \in sent /\ Tx(y.of) = Tx(y.info)
                /\ \A u \in DOMAIN made' : made'[u] # y.info /\ made'[u] # y.of
  <2>1. parse_queue \in Seq(Note)
    BY DEF NotesKept
  <2>2. ASSUME NEW i \in DOMAIN parse_queue
        PROVE  LET y == parse_queue[i]
               IN /\ y.info \in sent /\ y.of \in sent /\ Tx(y.of) = Tx(y.info)
                  /\ \A u \in DOMAIN made' : made'[u] # y.info /\ made'[u] # y.of
    <3> DEFINE y == parse_queue[i]
    <3>1. /\ y.info \in sent /\ y.of \in sent /\ Tx(y.of) = Tx(y.info)
          /\ \A u \in DOMAIN made : made[u] # y.info /\ made[u] # y.of
      BY DEF NotesKept
    <3> HIDE DEF y
    <3>2. \A u \in DOMAIN made' : made'[u] # y.info /\ made'[u] # y.of
      BY <1>14, <3>1
    <3> QED BY <3>1, <3>2 DEF y
  <2>3. CASE Tx(r) \notin DOMAIN made
    <3>1. parse_queue' = parse_queue
      BY <1>5, <2>3
    <3> QED BY <2>1, <2>2, <3>1
  <2>4. CASE Tx(r) \in DOMAIN made
    <3>1. parse_queue' = Append(parse_queue, x)
      BY <1>5, <2>4
    <3>2. made[Tx(r)] \in sent /\ Tx(made[Tx(r)]) = Tx(r) /\ sent \subseteq Requests
      BY <2>4 DEF NotesKept, Base, Ours
    <3>3. x \in Note /\ x.info = made[Tx(r)] /\ x.of = r
      BY <1>2, <1>6, <3>2 DEF Note
    <3> HIDE DEF x
    <3>4. \A u \in DOMAIN made' : made'[u] # x.info /\ made'[u] # x.of
      <4> SUFFICES ASSUME NEW u \in DOMAIN made' PROVE made'[u] # x.info /\ made'[u] # x.of
        OBVIOUS
      <4>1. Tx(made'[u]) = u /\ made'[u] # r /\ u # Tx(r)
        BY <1>14, <1>15
      <4> QED BY <3>2, <3>3, <4>1
    <3>5. x.info \in sent /\ x.of \in sent /\ Tx(x.of) = Tx(x.info)
      BY <1>2, <3>2, <3>3
    <3>6. /\ Append(parse_queue, x) \in Seq(Note)
          /\ \A i \in DOMAIN Append(parse_queue, x) :
                Append(parse_queue, x)[i] = x \/ (i \in DOMAIN parse_queue /\ Append(parse_queue, x)[i] = parse_queue[i])
      BY <2>1, <3>3
    <3> QED BY <2>2, <3>1, <3>4, <3>5, <3>6
  <2> QED BY <2>3, <2>4
<1>19. NotesKept'
  <2>1. Uuids' = Uuids /\ DOMAIN made' \subseteq Uuids
    BY <1>13, <1>14 DEF Uuids, NotesKept
  <2> QED BY <1>1, <1>13, <1>15, <1>16, <1>18, <2>1 DEF NotesKept
<1>20. Handled'
  BY <1>1, <1>13 DEF Handled
<1> QED BY <1>7, <1>8, <1>9, <1>10, <1>11, <1>19, <1>20 DEF Base

\* A part of a body that was kept back is sent, or an exception ends receive.
LEMMA SendBufferedKeeps == ASSUME HttpInv, SendBuffered PROVE HttpInv'
PROOF
<1> DEFINE r == Head(loop)
<1> USE DEF HttpInv
<1>1. /\ loop # <<>>
      /\ \/ /\ UNCHANGED <<buffered, left, window, stream, outbox>> /\ Raise
         \/ /\ SendData(r) /\ outbox' = outbox \o Frames(r)
            /\ \/ Raise
               \/ /\ loop' = Tail(loop) /\ spoilt' = spoilt
                  /\ chunk' = IF loop' = <<>> THEN Tail(chunk) ELSE chunk
      /\ UNCHANGED <<setup, transport, connects, made, parse_queue, sent, handled, current, message_queue>>
      /\ UNCHANGED <<responses, refused, forgotten, heads, got, server, owed, inbound>>
  BY DEF SendBuffered, client_vars, h1_vars, server_vars
<1>2. chunk # <<>> /\ loop \in Seq(sent) /\ sent \subseteq Requests
  BY <1>1 DEF Base, Ours
<1>3. transport = "http2"
  BY <1>1 DEF Base, Apart
<1>4. r \in sent /\ r \in Requests /\ Tail(loop) \in Seq(sent)
  BY <1>1, <1>2, FirstAndRest
<1> HIDE DEF r
<1>5. /\ Tail(chunk) \in Seq(Happening) /\ About(Tail(chunk), sent)
  BY <1>2, RestOfChunk
<1>6. /\ chunk' \in Seq(Happening) /\ About(chunk', sent) /\ loop' \in Seq(sent)
      /\ (loop' # <<>> => chunk' # <<>>) /\ spoilt' \subseteq sent /\ spoilt \subseteq spoilt'
  <2>1. CASE Raise
    <3>1. Range(buffered) \subseteq sent
      BY DEF Base, Ours, Range
    <3>2. chunk' = <<>> /\ loop' = <<>> /\ spoilt' \subseteq sent /\ spoilt \subseteq spoilt'
      BY <1>2, <2>1, <3>1, LeaveIsOurs DEF Raise
    <3>3. <<>> \in Seq(Happening) /\ About(<<>>, sent) /\ <<>> \in Seq(sent)
      BY DEF About
    <3> QED BY <3>2, <3>3
  <2>2. CASE /\ loop' = Tail(loop) /\ spoilt' = spoilt
             /\ chunk' = IF loop' = <<>> THEN Tail(chunk) ELSE chunk
    <3>1. chunk \in Seq(Happening) /\ About(chunk, sent) /\ spoilt \subseteq sent
      BY DEF Base, Shape, Ours
    <3> QED BY <1>2, <1>4, <1>5, <2>2, <3>1
  <2> QED BY <1>1, <2>1, <2>2
<1>7. /\ Shape' /\ Sums' /\ buffered' \in Seq(sent) /\ Distinct(buffered')
      /\ \A i \in DOMAIN outbox' : outbox'[i].of \in sent
  <2>1. CASE UNCHANGED <<buffered, left, window, stream, outbox>>
    <3>1. Shape'
      BY <1>1, <1>6, <2>1 DEF Base, Shape
    <3>2. Sums'
      BY <1>1, <2>1, ReceiverSums
    <3> QED BY <2>1, <3>1, <3>2 DEF Base, Ours
  <2>2. CASE SendData(r) /\ outbox' = outbox \o Frames(r)
    <3>1. Sending(r) /\ Framed(r)
      BY <1>4, <2>2, SendDataDoes, FramesAre DEF Base
    <3>2. Ready(outbox')
      BY <1>1, <1>3, <1>4, <2>2, <3>1, SendingIsReady DEF Base
    <3>3. /\ left' \in [Requests -> Nat] /\ window' \in Nat /\ stream' \in [Requests -> Nat]
          /\ buffered' \in Seq(sent \cup {r}) /\ Distinct(buffered')
      BY <3>1 DEF Sending
    <3>4. sent \cup {r} = sent
      BY <1>4
    <3>5. outbox' \in Seq(Frame)
      BY <3>2 DEF Ready
    <3>6. Shape'
      BY <1>1, <1>6, <3>3, <3>5 DEF Base, Shape
    <3>7. Sums'
      BY <1>1, <1>3, <3>2, <3>3, PutAsideAddsUp DEF Base
    <3>8. \A i \in DOMAIN outbox' : outbox'[i].of \in sent
      <4>1. /\ outbox \in Seq(Frame) /\ Frames(r) \in Seq(Frame)
            /\ \A i \in DOMAIN Frames(r) : Frames(r)[i].of = r
            /\ \A i \in DOMAIN outbox : outbox[i].of \in sent
        BY <3>1 DEF Framed, Base, Shape, Ours
      <4>2. /\ Len(outbox \o Frames(r)) = Len(outbox) + Len(Frames(r))
            /\ \A i \in 1..Len(outbox) + Len(Frames(r)) :
                  (outbox \o Frames(r))[i] = IF i <= Len(outbox) THEN outbox[i] ELSE Frames(r)[i - Len(outbox)]
        BY <4>1, ConcatProperties, Zenon
      <4>3. /\ Len(outbox') = Len(outbox) + Len(Frames(r))
            /\ \A i \in 1..Len(outbox) + Len(Frames(r)) :
                  outbox'[i] = IF i <= Len(outbox) THEN outbox[i] ELSE Frames(r)[i - Len(outbox)]
        BY <2>2, <4>2, Zenon
      <4> SUFFICES ASSUME NEW i \in DOMAIN outbox' PROVE outbox'[i].of \in sent
        OBVIOUS
      <4>4. i \in 1..Len(outbox) + Len(Frames(r)) /\ Len(outbox) \in Nat /\ Len(Frames(r)) \in Nat
        BY <3>5, <4>1, <4>3
      <4>5. CASE i <= Len(outbox)
        <5>1. i \in DOMAIN outbox /\ outbox'[i] = outbox[i]
          BY <4>1, <4>3, <4>4, <4>5
        <5> QED BY <4>1, <5>1
      <4>6. CASE ~(i <= Len(outbox))
        <5>1. i - Len(outbox) \in DOMAIN Frames(r) /\ outbox'[i] = Frames(r)[i - Len(outbox)]
          BY <4>1, <4>3, <4>4, <4>6
        <5> QED BY <1>4, <4>1, <5>1
      <4> QED BY <4>5, <4>6
    <3> QED BY <3>3, <3>4, <3>6, <3>7, <3>8
  <2> QED BY <1>1, <2>1, <2>2
<1>8. Ours'
  <2>1. About(inbound', sent')
    BY <1>1 DEF Base, Ours
  <2> QED BY <1>1, <1>6, <1>7, <2>1 DEF Base, Ours
<1>9. Apart' /\ InTurn'
  BY <1>1, <1>3 DEF Base, Apart, InTurn
<1>10. NotesKept'
  <2>1. Waiting' = Waiting /\ Uuids' = Uuids /\ \A q : Tx(q)' = Tx(q)
    BY <1>1 DEF Waiting, Current, Uuids, Tx
  <2>2. \A u \in DOMAIN made : made[u] \in Waiting' \cup spoilt'
    BY <1>6, <2>1 DEF NotesKept
  <2> QED BY <1>1, <2>1, <2>2 DEF NotesKept
<1>11. Handled'
  BY <1>1 DEF Handled, Tx, CallOf
<1> QED BY <1>7, <1>8, <1>9, <1>10, <1>11 DEF Base

\* A response is made of what was put down: it is for the call that waited for it.
LEMMA NextResponseKeeps == ASSUME HttpInv, NextResponse PROVE HttpInv'
PROOF
<1> DEFINE x == Head(parse_queue)
           outcome == CreateResponse(CallOf(x.info), AnswerTo(CallOf(x.info), x.answer), x.typed)
           y == [info |-> x.info, of |-> x.of, answer |-> x.answer, outcome |-> outcome]
<1> USE DEF HttpInv
<1>1. /\ parse_queue # <<>> /\ parse_queue' = Tail(parse_queue)
      /\ handled' = handled \cup {y} /\ spoilt' = spoilt \ {x.info, x.of}
      /\ UNCHANGED <<setup, transport, connects, made, sent, current, message_queue, heads, chunk, loop>>
      /\ UNCHANGED <<responses, buffered, left, window, stream, outbox, refused, forgotten>>
      /\ UNCHANGED <<got, server, owed, inbound>>
  BY DEF NextResponse, h1_vars, h2_vars, receive_vars, server_vars
<1>2. parse_queue \in Seq(Note)
  BY DEF NotesKept
<1>3. /\ x \in Note /\ Tail(parse_queue) \in Seq(Note) /\ x = parse_queue[1] /\ 1 \in DOMAIN parse_queue
      /\ \A i \in DOMAIN Tail(parse_queue) :
            i + 1 \in DOMAIN parse_queue /\ Tail(parse_queue)[i] = parse_queue[i + 1]
  BY <1>1, <1>2, FirstAndRest
<1>4. /\ x.info \in sent /\ x.of \in sent /\ Tx(x.of) = Tx(x.info)
      /\ \A u \in DOMAIN made : made[u] # x.info /\ made[u] # x.of
  BY <1>3 DEF NotesKept
<1>5. x.info \in Requests /\ x.answer \in AnswerKinds
  BY <1>3 DEF Note
<1> HIDE DEF x
<1>6. CallOf(x.info) \in Calls
  BY <1>5, SetupTyped DEF Base, Shape
<1>7. outcome \in {"success", "error", "raises"} /\ Earned(CallOf(x.info), x.answer, outcome)
  BY <1>5, <1>6, OutcomesAreEarned, ConstantsAssumption
<1> HIDE DEF outcome
<1>8. Shape' /\ Apart' /\ InTurn'
  <2>1. parse_queue = <<>> => parse_queue' = <<>>
    BY <1>1
  <2>2. transport # "none"
    BY <1>1 DEF Base, Apart
  <2> QED BY <1>1, <2>2 DEF Base, Shape, Apart, InTurn
<1>9. Ours'
  BY <1>1 DEF Base, Ours
<1>10. Sums'
  BY <1>1, ReceiverSums
<1>11. (\A q : Tx(q)' = Tx(q) /\ CallOf(q)' = CallOf(q)) /\ Waiting' = Waiting /\ Uuids' = Uuids
  BY <1>1 DEF Waiting, Current, Uuids, Tx, CallOf
<1>12. NotesKept'
  <2>1. \A u \in DOMAIN made : made[u] \in Waiting \cup spoilt'
    BY <1>1, <1>4 DEF NotesKept
  <2>2. ASSUME NEW i \in DOMAIN parse_queue'
        PROVE  LET z == parse_queue'[i]
               IN /\ z.info \in sent /\ z.of \in sent /\ Tx(z.of) = Tx(z.info)
                  /\ \A u \in DOMAIN made : made[u] # z.info /\ made[u] # z.of
    <3>1. i + 1 \in DOMAIN parse_queue /\ parse_queue'[i] = parse_queue[i + 1]
      BY <1>1, <1>3
    <3> QED BY <3>1 DEF NotesKept
  <2>3. parse_queue' \in Seq(Note)
    BY <1>1, <1>3
  <2> QED BY <1>1, <1>11, <2>1, <2>2, <2>3 DEF NotesKept
<1>13. Handled'
  <2> SUFFICES ASSUME NEW z \in handled'
               PROVE  /\ Tx(z.of) = Tx(z.info) /\ z.outcome \in {"success", "error", "raises"}
                      /\ Earned(CallOf(z.info), z.answer, z.outcome)
    BY <1>11 DEF Handled
  <2>1. CASE z \in handled
    BY <2>1 DEF Handled
  <2>2. CASE z = y
    BY <1>4, <1>7, <2>2
  <2> QED BY <1>1, <2>1, <2>2
<1> QED BY <1>8, <1>9, <1>10, <1>12, <1>13 DEF Base

LEMMA StutterKeeps == ASSUME HttpInv, UNCHANGED vars PROVE HttpInv'
PROOF
<1>1. /\ UNCHANGED <<setup, transport, connects, made, parse_queue, sent, handled, spoilt, current, message_queue>>
      /\ UNCHANGED <<responses, buffered, left, window, stream, outbox, refused, forgotten, heads, chunk, loop>>
      /\ UNCHANGED <<got, server, owed, inbound>>
  BY DEF vars, client_vars, h1_vars, h2_vars, receive_vars, server_vars
<1>2. Base'
  BY <1>1 DEF HttpInv, Base, Shape, Ours, Apart, InTurn
<1>3. Sums'
  BY <1>1, ReceiverSums DEF HttpInv
<1>4. NotesKept' /\ Handled'
  BY <1>1, HomeserverNotes
<1> QED BY <1>2, <1>3, <1>4 DEF HttpInv

\* Every step keeps what is inductive.
LEMMA NextKeeps == HttpInv /\ [Next]_vars => HttpInv'
PROOF
<1> SUFFICES ASSUME HttpInv, [Next]_vars PROVE HttpInv'
  OBVIOUS
<1>1. ASSUME NEW t \in {"http", "http2"}, Connect(t) PROVE HttpInv'
  BY <1>1, ConnectKeeps
<1>2. ASSUME Disconnect PROVE HttpInv'
  BY <1>2, DisconnectKeeps
<1>3. ASSUME NEW r \in Requests, Send(r) PROVE HttpInv'
  BY <1>3, SendKeeps
<1>4. ASSUME NEW r \in Requests, Reset(r) PROVE HttpInv'
  BY <1>4, ResetKeeps
<1>5. ASSUME NEW r \in Requests, NEW a \in Answers, Answer(r, a) PROVE HttpInv'
  BY <1>5, AnswerKeeps
<1>6. ASSUME NEW w \in Requests \cup {Whole}, OpenWindow(w) PROVE HttpInv'
  BY <1>6, OpenWindowKeeps
<1>7. ASSUME DataToSend PROVE HttpInv'
  BY <1>7, DataToSendHttpKeeps, DataToSendHttp2Keeps DEF DataToSend
<1>8. ASSUME NEW k \in DOMAIN inbound, Receive(k) PROVE HttpInv'
  BY <1>8, ReceiveKeeps
<1>9. ASSUME Handle PROVE HttpInv'
  BY <1>9, HandleHeadKeeps, HandleEndKeeps, HandleWindowKeeps, SendBufferedKeeps DEF Handle
<1>10. ASSUME NextResponse PROVE HttpInv'
  BY <1>10, NextResponseKeeps
<1>11. ASSUME UNCHANGED vars PROVE HttpInv'
  BY <1>11, StutterKeeps
<1> HIDE DEF HttpInv
<1> QED BY <1>1, <1>2, <1>3, <1>4, <1>5, <1>6, <1>7, <1>8, <1>9, <1>10, <1>11, Zenon DEF Next

\* The invariant of a connection: the other theorems follow from it.
THEOREM ConnectionInvariant == Spec => []HttpInv
PROOF
<1> HIDE DEF HttpInv
<1> QED BY InitKeeps, NextKeeps, PTL DEF Spec

-----------------------------------------------------------------------------
(* What follows.                                                           *)

LEMMA MatchFollows == HttpInv => AnswersTrue
PROOF
<1> SUFFICES ASSUME HttpInv PROVE AnswersTrue
  OBVIOUS
<1>1. AnswersMatch
  BY DEF HttpInv, Handled, NotesKept, AnswersMatch, Range
<1>2. SuccessIsReal
  <2> SUFFICES ASSUME NEW x \in handled, x.outcome = "success" /\ x.answer # "full"
               PROVE  LET class == CallOf(x.info).response
                      IN \/ class.file \/ (x.answer # "error" /\ class.schema.closed)
                         \/ x.answer # "error" /\ CallOf(x.info) = get_profile
    BY DEF SuccessIsReal
  <2>1. Earned(CallOf(x.info), x.answer, x.outcome)
    BY DEF HttpInv, Handled
  <2> QED BY <2>1, Zenon DEF Earned
<1> QED BY <1>1, <1>2 DEF AnswersTrue

\* A response that the client has made, or is about to make, is that of a request
\* with the uuid of the one it was the answer to, and is one of success only where
\* the homeserver has said so, but for the classes that take nothing, or a file,
\* for it.
THEOREM AnswersAreTrue == Spec => []AnswersTrue
BY ConnectionInvariant, MatchFollows, PTL

LEMMA FlowFollows == HttpInv => FlowControl
PROOF
<1> SUFFICES ASSUME HttpInv PROVE FlowControl
  OBVIOUS
<1> USE DEF HttpInv, Base
<1>1. /\ inbound \in Seq(Happening) /\ window \in Nat /\ stream \in [Requests -> Nat]
      /\ owed \in [Requests \cup {Whole} -> Nat] /\ outbox \in Seq(Frame) /\ left \in [Requests -> Nat]
  BY DEF Shape
<1>2. \A w : Opened(inbound, w) \in Nat
  BY <1>1, OpenedAdd
<1>3. AllBytes(outbox) \in Nat /\ \A r : Bytes(outbox, r) \in Nat
  BY <1>1, BytesAdd
<1>4. BodyWhole
  <2> SUFFICES ASSUME transport = "http2", NEW r \in responses
               PROVE  /\ got[r] + Bytes(outbox, r) + left[r] = Size(r)
                      /\ server[r] \in {"whole", "answered"} => got[r] = Size(r)
                      /\ left[r] > 0 <=> Contains(buffered, r)
    BY DEF BodyWhole
  <2>1. r \in Requests
    BY DEF Ours
  <2>2. Contains(buffered, r) <=> r \in Range(buffered)
    <3>1. buffered \in Seq(sent)
      BY DEF Ours
    <3> QED BY <3>1 DEF Contains, Range
  <2> QED BY <2>1, <2>2 DEF Sums, BodiesAddUp
<1>5. owed[Whole] + AllBytes(outbox) <= Window
  <2>1. window + AllBytes(outbox) + owed[Whole] + Opened(inbound, Whole) = Window
    BY DEF Sums, WindowsAddUp
  <2>2. window \in Nat /\ AllBytes(outbox) \in Nat /\ owed[Whole] \in Nat /\ Opened(inbound, Whole) \in Nat
    BY <1>1, <1>2, <1>3
  <2> QED BY <2>1, <2>2
<1>6. ASSUME NEW r \in Requests PROVE owed[r] + Bytes(outbox, r) <= Window
  <2>1. stream[r] + Bytes(outbox, r) + owed[r] + Opened(inbound, r) = Window
    BY DEF Sums, WindowsAddUp
  <2>2. stream[r] \in Nat /\ Bytes(outbox, r) \in Nat /\ owed[r] \in Nat /\ Opened(inbound, r) \in Nat
    BY <1>1, <1>2, <1>3
  <2> QED BY <2>1, <2>2
<1> QED BY <1>4, <1>5, <1>6 DEF FlowControl, WindowKept

\* However the windows cut the bodies: what the homeserver has of one, what is on
\* its way and what is kept back are all of it; the end of a body does not come
\* before the rest; and no more is on its way than a window allows.
THEOREM FlowIsControlled == Spec => []FlowControl
BY ConnectionInvariant, FlowFollows, PTL

LEMMA TypeFollows == HttpInv => TypeOK
PROOF
<1> SUFFICES ASSUME HttpInv PROVE TypeOK
  OBVIOUS
<1> USE DEF HttpInv, Base
<1>1. /\ inbound \in Seq(Happening) /\ window \in Nat /\ stream \in [Requests -> Nat]
      /\ owed \in [Requests \cup {Whole} -> Nat] /\ outbox \in Seq(Frame) /\ left \in [Requests -> Nat]
      /\ got \in [Requests -> Nat] /\ server \in [Requests -> Servers] /\ setup \in Setups
  BY DEF Shape
<1>2. \A w : Opened(inbound, w) \in Nat
  BY <1>1, OpenedAdd
<1>3. AllBytes(outbox) \in Nat /\ \A r : Bytes(outbox, r) \in Nat
  BY <1>1, BytesAdd
<1>4. window \in 0..Window /\ owed[Whole] \in 0..Window
  <2>1. window + AllBytes(outbox) + owed[Whole] + Opened(inbound, Whole) = Window
    BY DEF Sums, WindowsAddUp
  <2>2. window \in Nat /\ AllBytes(outbox) \in Nat /\ owed[Whole] \in Nat /\ Opened(inbound, Whole) \in Nat
    BY <1>1, <1>2, <1>3
  <2> QED BY <2>1, <2>2, ConstantsAssumption
<1>5. ASSUME NEW r \in Requests
      PROVE  /\ left[r] \in 0..Size(r) /\ got[r] \in 0..Size(r)
             /\ stream[r] \in 0..Window /\ owed[r] \in 0..Window
             /\ server[r] \in {"none", "open", "whole", "answered", "reset"}
  <2>1. stream[r] + Bytes(outbox, r) + owed[r] + Opened(inbound, r) = Window
    BY DEF Sums, WindowsAddUp
  <2>2. /\ stream[r] \in Nat /\ Bytes(outbox, r) \in Nat /\ owed[r] \in Nat /\ Opened(inbound, r) \in Nat
        /\ left[r] \in Nat /\ got[r] \in Nat /\ Size(r) \in Nat
    BY <1>1, <1>2, <1>3, SetupTyped
  <2>3. stream[r] \in 0..Window /\ owed[r] \in 0..Window
    BY <2>1, <2>2, ConstantsAssumption
  <2>4. left[r] \in 0..Size(r) /\ got[r] \in 0..Size(r)
    <3>1. CASE transport = "http2"
      <4>1. got[r] + Bytes(outbox, r) + left[r] = Size(r)
        BY <3>1 DEF Sums, BodiesAddUp
      <4> QED BY <2>2, <4>1
    <3>2. CASE transport # "http2"
      <4>1. got[r] <= Size(r) /\ left[r] = Size(r)
        BY <3>2 DEF Sums, BodiesAddUp, Apart, Size
      <4> QED BY <2>2, <4>1
    <3> QED BY <3>1, <3>2
  <2> QED BY <1>1, <2>3, <2>4 DEF Servers
<1>6. /\ DOMAIN made \subseteq Uuids /\ Range(made) \subseteq sent
  BY DEF NotesKept, Range
<1>7. Waiting \subseteq sent /\ Range(buffered) \subseteq sent
  BY DEF Ours, Waiting, Current, Range
<1>8. \A x \in handled : x.outcome \in {"success", "error", "raises"}
  BY DEF Handled
<1> QED BY <1>4, <1>5, <1>6, <1>7, <1>8 DEF TypeOK, Shape, Ours

LEMMA TrackFollows == HttpInv => Tracked
PROOF
<1> SUFFICES ASSUME HttpInv PROVE Tracked
  OBVIOUS
<1>1. TypeOK
  BY TypeFollows
<1>2. RequestsTracked
  <2>1. \A u \in DOMAIN made : (\E r \in Waiting : Tx(r) = u) \/ made[u] \in spoilt
    BY DEF HttpInv, NotesKept
  <2> QED BY <2>1 DEF HttpInv, NotesKept, Base, Apart, RequestsTracked
<1>3. OneAtATime
  BY DEF HttpInv, Base, InTurn, OneAtATime
<1> QED BY <1>1, <1>2, <1>3 DEF Tracked

\* What the connection waits for is noted under its uuid, unless a second request
\* has the same one; what is noted is waited for, or its answer has got lost; and
\* over HTTP/1 the homeserver has one request at a time.
THEOREM RequestsAreTracked == Spec => []Tracked
BY ConnectionInvariant, TrackFollows, PTL
=============================================================================
