------------------------------ MODULE BudgetProofs ------------------------------
(***************************************************************************)
(* Proofs about Budget, for any prompts, files, sessions and parameters:   *)
(* the bar shows what the panel holds, it counts what is sent, and the     *)
(* banner follows the bar.                                                 *)
(***************************************************************************)
EXTENDS Budget, FiniteSetTheorems, SequenceTheorems, TLAPS

(* Sums and sequences of sequences, as the community modules define them. *)

\* A set of numbers that has zero, and with a number the next one, has them all: induction
\* without an operator as a parameter.
LEMMA Induction ==
  ASSUME NEW S, 0 \in S, \A n \in Nat : n \in S => n + 1 \in S
  PROVE  Nat \subseteq S
<1>1. SUFFICES ASSUME Nat \ S # {} PROVE FALSE
  OBVIOUS
<1> DEFINE R == {pair \in Nat \X Nat : pair[1] < pair[2]}
<1>2. IsWellFoundedOn(R, Nat)
  BY NatLessThanWellFounded DEF OpToRel
<1> HIDE DEF R
<1>3. PICK x \in Nat \ S : \A y \in Nat \ S : ~(<<y, x>> \in R)
  BY <1>1, <1>2, WFMin
<1>4. x - 1 \in Nat /\ (x - 1) + 1 = x
  <2>1. x # 0
    OBVIOUS
  <2> QED BY <2>1
<1>5. x - 1 \notin S
  BY <1>4
<1>6. <<x - 1, x>> \in R
  BY <1>4 DEF R
<1> QED BY <1>3, <1>4, <1>5, <1>6

\* T gives each subset of the first n indices of w the sum of its weights.
Sums(T, w, n) ==
  /\ T \in [SUBSET (1..n) -> Nat]
  /\ T[{}] = 0
  /\ \A s \in SUBSET (1..n) : \A x \in s : T[s] = w[x] + T[s \ {x}]

\* P[k] is the sum of the first k weights.
PrefixSums(P, w) ==
  /\ P \in [0..Len(w) -> Nat]
  /\ P[0] = 0
  /\ \A k \in 1..Len(w) : P[k] = P[k - 1] + w[k]

LEMMA SumsExist ==
  ASSUME NEW w \in Seq(Nat)
  PROVE  \E T : Sums(T, w, Len(w))
<1> DEFINE S == {n \in Nat : n <= Len(w) => \E T : Sums(T, w, n)}
<1>1. Len(w) \in Nat /\ \A i \in 1..Len(w) : w[i] \in Nat
  BY LenProperties, ElementOfSeq
<1>2. 0 \in S
  <2> DEFINE T == [s \in SUBSET (1..0) |-> 0]
  <2>1. Sums(T, w, 0)
    BY DEF Sums
  <2> QED BY <2>1
<1>3. ASSUME NEW n \in Nat, n \in S PROVE n + 1 \in S
  <2>1. SUFFICES ASSUME n + 1 <= Len(w) PROVE \E U : Sums(U, w, n + 1)
    OBVIOUS
  <2>2. PICK T : Sums(T, w, n)
    BY <1>1, <1>3, <2>1
  <2> DEFINE m == n + 1
             U == [s \in SUBSET (1..m) |-> IF m \in s THEN T[s \ {m}] + w[m] ELSE T[s]]
  <2>3. /\ m \in 1..Len(w) /\ w[m] \in Nat /\ m \in 1..m /\ m \notin 1..n
        /\ \A s \in SUBSET (1..m) : s \ {m} \in SUBSET (1..n)
        /\ \A s \in SUBSET (1..m) : m \notin s => s \in SUBSET (1..n)
        /\ {} \in SUBSET (1..m)
    BY <1>1, <2>1
  <2> HIDE DEF m
  <2>4. T \in [SUBSET (1..n) -> Nat] /\ T[{}] = 0
        /\ \A s \in SUBSET (1..n) : \A x \in s : T[s] = w[x] + T[s \ {x}]
    BY <2>2 DEF Sums
  <2>5. U \in [SUBSET (1..m) -> Nat]
    BY <2>3, <2>4
  <2>6. U[{}] = 0
    BY <2>3, <2>4
  <2>7. ASSUME NEW s \in SUBSET (1..m), NEW x \in s PROVE U[s] = w[x] + U[s \ {x}]
    <3>1. CASE x = m
      <4>1. s \ {m} \in SUBSET (1..m) /\ m \notin s \ {m}
        OBVIOUS
      <4>2. U[s] = T[s \ {m}] + w[m] /\ U[s \ {m}] = T[s \ {m}]
        BY <3>1, <4>1
      <4>3. T[s \ {m}] \in Nat
        BY <2>3, <2>4
      <4> HIDE DEF U
      <4> QED BY <2>3, <3>1, <4>2, <4>3
    <3>2. CASE x # m /\ m \in s
      <4> DEFINE r == s \ {m}
      <4>1. /\ s \ {x} \in SUBSET (1..m) /\ m \in s \ {x} /\ x \in r /\ r \in SUBSET (1..n)
            /\ (s \ {x}) \ {m} = r \ {x}
        BY <2>3, <3>2
      <4>2. U[s] = T[r] + w[m] /\ U[s \ {x}] = T[r \ {x}] + w[m]
        BY <3>2, <4>1
      <4>3. T[r] = w[x] + T[r \ {x}]
        BY <2>4, <4>1
      <4>4. r \ {x} \in SUBSET (1..n) /\ x \in 1..Len(w)
        BY <2>1, <4>1, <1>1
      <4>5. T[r \ {x}] \in Nat /\ w[x] \in Nat /\ w[m] \in Nat
        BY <1>1, <2>3, <2>4, <4>4
      <4> HIDE DEF U, r
      <4> QED BY <4>2, <4>3, <4>5
    <3>3. CASE m \notin s
      <4>1. s \in SUBSET (1..n) /\ s \ {x} \in SUBSET (1..m) /\ m \notin s \ {x}
        BY <2>3, <3>3
      <4>2. U[s] = T[s] /\ U[s \ {x}] = T[s \ {x}]
        BY <3>3, <4>1
      <4> HIDE DEF U
      <4> QED BY <2>4, <4>1, <4>2
    <3> QED BY <3>1, <3>2, <3>3
  <2> HIDE DEF U
  <2>8. Sums(U, w, m)
    BY <2>5, <2>6, <2>7 DEF Sums
  <2> QED BY <2>8 DEF m
<1> HIDE DEF S
<1>4. Nat \subseteq S
  BY <1>2, <1>3, Induction
<1>5. Len(w) \in S
  BY <1>1, <1>4
<1> QED BY <1>1, <1>5 DEF S

\* The sum of the community modules is the one of all indices.
LEMMA SumOfAll ==
  ASSUME NEW w \in Seq(Nat), NEW T, Sums(T, w, Len(w))
  PROVE  SumFunction(w) = T[1..Len(w)]
<1> DEFINE D == 1..Len(w)
           pick(s) == CHOOSE x \in s : TRUE
           Rec(f) == f = [s \in SUBSET D |-> IF s = {} THEN 0 ELSE w[pick(s)] + f[s \ {pick(s)}]]
           it == CHOOSE f : Rec(f)
<1>1. Len(w) \in Nat /\ DOMAIN w = D
  BY LenProperties
<1>2. SumFunction(w) = it[D]
  BY <1>1 DEF SumFunction, SumFunctionOnSet, FoldFunctionOnSet, MapThenFoldSet
<1>3. \A s \in SUBSET D : s # {} => pick(s) \in s
  OBVIOUS
<1> HIDE DEF pick
<1>4. Rec(T)
  <2> DEFINE g == [s \in SUBSET D |-> IF s = {} THEN 0 ELSE w[pick(s)] + T[s \ {pick(s)}]]
  <2>1. \A s \in SUBSET D : T[s] = IF s = {} THEN 0 ELSE w[pick(s)] + T[s \ {pick(s)}]
    BY <1>3 DEF Sums
  <2>2. T = [s \in SUBSET D |-> T[s]]
    BY DEF Sums
  <2>3. T = g
    BY <2>1, <2>2
  <2> QED BY <2>3
<1> HIDE DEF Rec
<1>5. Rec(it)
  BY <1>4, Zenon
<1>6. \A s \in SUBSET D : it[s] = IF s = {} THEN 0 ELSE w[pick(s)] + it[s \ {pick(s)}]
  BY <1>5 DEF Rec
<1> HIDE DEF it
<1> DEFINE S == {n \in Nat : \A s \in SUBSET D : Cardinality(s) = n => it[s] = T[s]}
<1>7. \A s \in SUBSET D : IsFiniteSet(s)
  <2>1. IsFiniteSet(D)
    BY <1>1, FS_Interval
  <2> QED BY <2>1, FS_Subset
<1>8. 0 \in S
  <2>1. \A s \in SUBSET D : Cardinality(s) = 0 => s = {}
    BY <1>7, FS_EmptySet
  <2> QED BY <1>6, <2>1 DEF Sums
<1>9. ASSUME NEW n \in Nat, n \in S PROVE n + 1 \in S
  <2>1. SUFFICES ASSUME NEW s \in SUBSET D, Cardinality(s) = n + 1 PROVE it[s] = T[s]
    OBVIOUS
  <2>2. s # {}
    <3>1. Cardinality({}) = 0
      BY FS_EmptySet
    <3>2. n + 1 # 0
      OBVIOUS
    <3> HIDE DEF S
    <3> QED BY <2>1, <3>1, <3>2
  <2>3. pick(s) \in s /\ s \ {pick(s)} \in SUBSET D
    BY <1>3, <2>2
  <2>4. Cardinality(s \ {pick(s)}) = n
    BY <1>7, <1>9, <2>1, <2>3, FS_RemoveElement, FS_CardinalityType
  <2>5. it[s \ {pick(s)}] = T[s \ {pick(s)}]
    BY <1>9, <2>3, <2>4
  <2>6. T[s] = w[pick(s)] + T[s \ {pick(s)}]
    BY <2>3 DEF Sums
  <2> QED BY <1>6, <2>2, <2>5, <2>6
<1> HIDE DEF S
<1>10. Nat \subseteq S
  BY <1>8, <1>9, Induction
<1>11. D \in SUBSET D /\ Cardinality(D) \in Nat
  BY <1>7, FS_CardinalityType
<1>12. it[D] = T[D]
  <2>1. Cardinality(D) \in S
    BY <1>10, <1>11
  <2> QED BY <1>11, <2>1 DEF S
<1> QED BY <1>2, <1>12

\* The sum is the last of the prefix sums.
LEMMA SumByPrefixes ==
  ASSUME NEW w \in Seq(Nat)
  PROVE  \E P : PrefixSums(P, w) /\ SumFunction(w) = P[Len(w)]
<1>1. PICK T : Sums(T, w, Len(w))
  BY SumsExist
<1> DEFINE n == Len(w)
           P == [k \in 0..n |-> T[1..k]]
<1>2. n \in Nat
  BY LenProperties
<1>3. \A k \in 0..n : 1..k \in SUBSET (1..n)
  BY <1>2
<1> HIDE DEF n
<1>4. P \in [0..n -> Nat]
  BY <1>1, <1>3 DEF Sums, n
<1>5. P[0] = 0
  <2>1. 1..0 = {} /\ 0 \in 0..n
    BY <1>2
  <2> QED BY <1>1, <2>1 DEF Sums
<1>6. ASSUME NEW k \in 1..n PROVE P[k] = P[k - 1] + w[k]
  <2>1. k \in 0..n /\ k - 1 \in 0..n /\ k \in 1..k /\ 1..(k - 1) = (1..k) \ {k}
    BY <1>2
  <2>2. T[1..k] = w[k] + T[1..(k - 1)]
    <3>1. 1..k \in SUBSET (1..n) /\ k \in 1..k
      BY <1>3, <2>1
    <3>2. T[1..k] = w[k] + T[(1..k) \ {k}]
      BY <1>1, <3>1 DEF Sums, n
    <3> QED BY <2>1, <3>2
  <2>3. T[1..(k - 1)] \in Nat /\ w[k] \in Nat
    BY <1>1, <1>3, <2>1, ElementOfSeq DEF Sums, n
  <2> QED BY <2>1, <2>2, <2>3
<1>7. SumFunction(w) = P[n]
  <2>1. n \in 0..n
    BY <1>2
  <2> QED BY <1>1, <2>1, SumOfAll DEF n
<1> QED BY <1>4, <1>5, <1>6, <1>7 DEF PrefixSums, n

LEMMA PrefixesGiveSum ==
  ASSUME NEW w \in Seq(Nat), NEW P, PrefixSums(P, w)
  PROVE  SumFunction(w) = P[Len(w)] /\ SumFunction(w) \in Nat
<1>1. PICK Q : PrefixSums(Q, w) /\ SumFunction(w) = Q[Len(w)]
  BY SumByPrefixes
<1>2. Len(w) \in Nat
  BY LenProperties
<1> DEFINE S == {n \in Nat : n <= Len(w) => P[n] = Q[n]}
<1>3. 0 \in S
  BY <1>1 DEF PrefixSums
<1>4. ASSUME NEW n \in Nat, n \in S PROVE n + 1 \in S
  <2>1. SUFFICES ASSUME n + 1 <= Len(w) PROVE P[n + 1] = Q[n + 1]
    OBVIOUS
  <2>2. n + 1 \in 1..Len(w) /\ (n + 1) - 1 = n
    BY <1>2, <2>1
  <2>3. P[n + 1] = P[n] + w[n + 1] /\ Q[n + 1] = Q[n] + w[n + 1]
    BY <1>1, <2>2 DEF PrefixSums
  <2>4. P[n] = Q[n]
    BY <1>2, <1>4, <2>1
  <2> QED BY <2>3, <2>4
<1> HIDE DEF S
<1>5. Len(w) \in S
  BY <1>2, <1>3, <1>4, Induction
<1> QED BY <1>1, <1>2, <1>5 DEF S, PrefixSums

LEMMA SumOfAppend ==
  ASSUME NEW w \in Seq(Nat), NEW x \in Nat
  PROVE  SumFunction(Append(w, x)) = SumFunction(w) + x
<1>1. PICK P : PrefixSums(P, w) /\ SumFunction(w) = P[Len(w)]
  BY SumByPrefixes
<1> DEFINE n == Len(w)
           v == Append(w, x)
           Q == [k \in 0..(n + 1) |-> IF k = n + 1 THEN P[n] + x ELSE P[k]]
<1>2. /\ n \in Nat /\ v \in Seq(Nat) /\ Len(v) = n + 1 /\ v[n + 1] = x
      /\ \A k \in 1..n : v[k] = w[k]
  BY AppendProperties, LenProperties
<1>3. P \in [0..n -> Nat] /\ P[0] = 0 /\ \A k \in 1..n : P[k] = P[k - 1] + w[k]
  BY <1>1 DEF PrefixSums
<1> HIDE DEF n, v
<1>4. Q \in [0..(n + 1) -> Nat] /\ Q[0] = 0 /\ Q[n + 1] = P[n] + x
  BY <1>2, <1>3
<1>5. ASSUME NEW k \in 1..(n + 1) PROVE Q[k] = Q[k - 1] + v[k]
  <2>1. CASE k = n + 1
    BY <1>2, <1>3, <2>1
  <2>2. CASE k # n + 1
    BY <1>2, <1>3, <2>2
  <2> QED BY <2>1, <2>2
<1> HIDE DEF Q
<1>6. PrefixSums(Q, v)
  BY <1>2, <1>4, <1>5 DEF PrefixSums
<1>7. SumFunction(v) = Q[n + 1]
  BY <1>2, <1>6, PrefixesGiveSum
<1> QED BY <1>1, <1>4, <1>7 DEF n, v

\* F[k] is what the first k sequences of ss are together.
Joins(F, ss, n, S) ==
  /\ F \in [0..n -> Seq(S)]
  /\ F[0] = <<>>
  /\ \A k \in 1..n : F[k] = F[k - 1] \o ss[k]

LEMMA JoinsExist ==
  ASSUME NEW S, NEW ss \in Seq(Seq(S))
  PROVE  \E F : Joins(F, ss, Len(ss), S)
<1> DEFINE N == {n \in Nat : n <= Len(ss) => \E F : Joins(F, ss, n, S)}
<1>1. Len(ss) \in Nat /\ \A i \in 1..Len(ss) : ss[i] \in Seq(S)
  BY LenProperties, ElementOfSeq
<1>2. 0 \in N
  <2> DEFINE F == [k \in 0..0 |-> <<>>]
  <2>1. <<>> \in Seq(S)
    OBVIOUS
  <2>2. Joins(F, ss, 0, S)
    BY <2>1 DEF Joins
  <2> QED BY <2>2
<1>3. ASSUME NEW n \in Nat, n \in N PROVE n + 1 \in N
  <2>1. SUFFICES ASSUME n + 1 <= Len(ss) PROVE \E F : Joins(F, ss, n + 1, S)
    OBVIOUS
  <2>2. PICK F : Joins(F, ss, n, S)
    BY <1>1, <1>3, <2>1
  <2> DEFINE G == [k \in 0..(n + 1) |-> IF k = n + 1 THEN F[n] \o ss[n + 1] ELSE F[k]]
  <2>3. F[n] \in Seq(S) /\ ss[n + 1] \in Seq(S)
    BY <1>1, <2>1, <2>2 DEF Joins
  <2>4. F[n] \o ss[n + 1] \in Seq(S)
    BY <2>3, ConcatProperties
  <2>5. G \in [0..(n + 1) -> Seq(S)]
    BY <2>2, <2>4 DEF Joins
  <2>6. G[0] = <<>>
    BY <2>2 DEF Joins
  <2>7. ASSUME NEW k \in 1..(n + 1) PROVE G[k] = G[k - 1] \o ss[k]
    <3>1. CASE k = n + 1
      <4>1. k \in 0..(n + 1) /\ k - 1 \in 0..(n + 1) /\ k - 1 = n /\ n # n + 1
        BY <3>1
      <4> QED BY <3>1, <4>1
    <3>2. CASE k # n + 1
      <4>1. k \in 1..n /\ k - 1 \in 0..(n + 1) /\ k \in 0..(n + 1) /\ k - 1 # n + 1
        BY <3>2
      <4> QED BY <2>2, <3>2, <4>1 DEF Joins
    <3> QED BY <3>1, <3>2
  <2> HIDE DEF G
  <2> QED BY <2>5, <2>6, <2>7 DEF Joins
<1> HIDE DEF N
<1>4. Len(ss) \in N
  BY <1>1, <1>2, <1>3, Induction
<1> QED BY <1>1, <1>4 DEF N

\* What the community modules flatten a sequence of sequences to is the last of these.
LEMMA FlattenByJoins ==
  ASSUME NEW S, NEW ss \in Seq(Seq(S)), NEW F, Joins(F, ss, Len(ss), S)
  PROVE  FlattenSeq(ss) = F[Len(ss)] /\ FlattenSeq(ss) \in Seq(S)
<1> DEFINE n == Len(ss)
           Rec(g) == g = [i \in 1..n |-> IF i = 1 THEN ss[i] ELSE g[i - 1] \o ss[i]]
           it == CHOOSE g : Rec(g)
<1>1. n \in Nat /\ \A i \in 1..n : ss[i] \in Seq(S)
  BY LenProperties, ElementOfSeq
<1>2. FlattenSeq(ss) = IF n = 0 THEN ss ELSE it[n]
  BY DEF FlattenSeq
<1> HIDE DEF n
<1>3. Rec([i \in 1..n |-> F[i]])
  <2> DEFINE f == [i \in 1..n |-> F[i]]
  <2>1. ASSUME NEW i \in 1..n, i = 1 PROVE F[i] = ss[i]
    <3>1. F[i] = F[i - 1] \o ss[i] /\ F[0] = <<>>
      BY DEF Joins, n
    <3>2. i - 1 = 0
      BY <2>1
    <3>3. F[i] = <<>> \o ss[i]
      BY <3>1, <3>2
    <3>4. ss[i] \in Seq(S)
      BY <1>1
    <3> HIDE DEF f
    <3>5. <<>> \o ss[i] = ss[i]
      BY <3>4, ConcatEmptySeq
    <3> QED BY <3>3, <3>5
  <2>2. ASSUME NEW i \in 1..n, i # 1 PROVE F[i] = f[i - 1] \o ss[i]
    <3>1. i - 1 \in 1..n
      BY <1>1, <2>2
    <3> QED BY <3>1 DEF Joins, n
  <2>3. f = [i \in 1..n |-> IF i = 1 THEN ss[i] ELSE f[i - 1] \o ss[i]]
    BY <2>1, <2>2
  <2> QED BY <2>3
<1> HIDE DEF Rec
<1>4. Rec(it)
  BY <1>3, Zenon
<1>5. \A i \in 1..n : it[i] = IF i = 1 THEN ss[i] ELSE it[i - 1] \o ss[i]
  BY <1>4 DEF Rec
<1> HIDE DEF it
<1> DEFINE N == {k \in Nat : k \in 1..n => it[k] = F[k]}
<1>6. 0 \in N
  OBVIOUS
<1>7. ASSUME NEW k \in Nat, k \in N PROVE k + 1 \in N
  <2>1. SUFFICES ASSUME k + 1 \in 1..n PROVE it[k + 1] = F[k + 1]
    OBVIOUS
  <2>2. F[k + 1] = F[k] \o ss[k + 1]
    <3>1. (k + 1) - 1 = k
      BY <1>7
    <3> QED BY <2>1, <3>1 DEF Joins, n
  <2>3. CASE k = 0
    <3>1. F[0] = <<>>
      BY DEF Joins
    <3>2. F[1] = ss[1]
      BY <1>1, <2>1, <2>2, <2>3, <3>1, ConcatEmptySeq
    <3> QED BY <1>5, <2>1, <2>3, <3>2
  <2>4. CASE k # 0
    <3>1. k \in 1..n /\ k + 1 # 1 /\ (k + 1) - 1 = k
      BY <1>1, <2>1, <2>4
    <3>2. it[k] = F[k]
      BY <1>7, <3>1
    <3>3. it[k + 1] = it[k] \o ss[k + 1]
      BY <1>5, <2>1, <3>1
    <3> QED BY <2>2, <3>2, <3>3
  <2> QED BY <2>3, <2>4
<1> HIDE DEF N
<1>8. n \in N
  BY <1>1, <1>6, <1>7, Induction
<1>9. FlattenSeq(ss) = F[n]
  <2>1. CASE n = 0
    <3>1. ss = <<>>
      BY <2>1, EmptySeq DEF n
    <3> QED BY <1>2, <2>1, <3>1 DEF Joins
  <2>2. CASE n # 0
    <3>1. n \in 1..n
      BY <1>1, <2>2
    <3> QED BY <1>2, <1>8, <2>2, <3>1 DEF N
  <2> QED BY <2>1, <2>2
<1> QED BY <1>1, <1>9 DEF Joins, n

LEMMA FlattenType ==
  ASSUME NEW S, NEW ss \in Seq(Seq(S))
  PROVE  FlattenSeq(ss) \in Seq(S)
BY JoinsExist, FlattenByJoins

-----------------------------------------------------------------------------
(* The last of some indices. *)

LEMMA LastIndex ==
  ASSUME NEW n \in Nat, NEW s \in SUBSET (1..n), s # {}
  PROVE  Max(s) \in s
<1> DEFINE N == {m \in Nat : \A r \in SUBSET (1..m) : r # {} => \E x \in r : \A y \in r : x >= y}
<1>1. 0 \in N
  <2>1. \A r \in SUBSET (1..0) : r = {}
    OBVIOUS
  <2> QED BY <2>1
<1>2. ASSUME NEW m \in Nat, m \in N PROVE m + 1 \in N
  <2>1. SUFFICES ASSUME NEW r \in SUBSET (1..(m + 1)), r # {}
                 PROVE  \E x \in r : \A y \in r : x >= y
    OBVIOUS
  <2>2. CASE m + 1 \in r
    BY <1>2, <2>1, <2>2
  <2>3. CASE m + 1 \notin r
    <3>1. r \in SUBSET (1..m)
      BY <1>2, <2>1, <2>3
    <3> QED BY <1>2, <2>1, <3>1
  <2> QED BY <2>2, <2>3
<1> HIDE DEF N
<1>3. n \in N
  BY <1>1, <1>2, Induction
<1>4. \E x \in s : \A y \in s : x >= y
  BY <1>3 DEF N
<1> QED BY <1>4 DEF Max

-----------------------------------------------------------------------------
(* What texts, messages and files count. *)

LEMMA TextCounts ==
  ASSUME NEW text \in Text
  PROVE  EstimateText(text) \in Nat
<1>1. Len(text) \in Nat /\ CharsPerToken \in Nat \ {0}
  BY LenProperties, NumberAssumption DEF Text
<1>2. \A a \in Nat, c \in Nat \ {0} : a \div c \in Nat
  OBVIOUS
<1> QED BY <1>1, <1>2 DEF EstimateText

\* A longer text counts no less, however it is rounded.
LEMMA LongerCountsMore ==
  ASSUME NEW t \in Text, NEW u \in Text, Len(t) <= Len(u)
  PROVE  EstimateText(t) <= EstimateText(u)
<1>1. Len(t) \in Nat /\ Len(u) \in Nat /\ CharsPerToken \in Nat \ {0}
  BY LenProperties, NumberAssumption DEF Text
<1>2. /\ \A a, b \in Nat, c \in Nat \ {0} : a <= b => a \div c <= b \div c
      /\ \A a \in Nat, c \in Nat \ {0} : c <= a => a \div c >= 1
      /\ \A a \in Nat, c \in Nat \ {0} : a \div c \in Nat
  <2>1. ASSUME NEW a \in Nat, NEW b \in Nat, NEW c \in Nat \ {0}, a <= b
        PROVE  a \div c <= b \div c
    BY <2>1
  <2>2. ASSUME NEW a \in Nat, NEW c \in Nat \ {0}, c <= a PROVE a \div c >= 1
    BY <2>2
  <2>3. \A a \in Nat, c \in Nat \ {0} : a \div c \in Nat
    OBVIOUS
  <2> QED BY <2>1, <2>2, <2>3
<1>3. u = <<>> => t = <<>>
  BY <1>1, EmptySeq DEF Text
<1>4. CASE t = <<>>
  BY <1>4, TextCounts DEF EstimateText
<1>5. CASE t # <<>> /\ Len(t) < CharsPerToken
  BY <1>1, <1>2, <1>3, <1>5 DEF EstimateText
<1>6. CASE t # <<>> /\ ~(Len(t) < CharsPerToken)
  <2>1. EstimateText(t) = Len(t) \div CharsPerToken /\ EstimateText(u) = Len(u) \div CharsPerToken
    BY <1>1, <1>3, <1>6 DEF EstimateText
  <2> QED BY <1>1, <1>2, <2>1
<1> QED BY <1>4, <1>5, <1>6

Counts(log) == [i \in DOMAIN log |-> EstimateText(log[i].content) + Overhead]

LEMMA CountsType ==
  ASSUME NEW log \in Seq(Message)
  PROVE  /\ Counts(log) \in Seq(Nat) /\ Len(Counts(log)) = Len(log) /\ Len(log) \in Nat
         /\ \A i \in 1..Len(log) : Counts(log)[i] = EstimateText(log[i].content) + Overhead
         /\ EstimateMessages(log) = SumFunction(Counts(log))
<1>1. Len(log) \in Nat /\ DOMAIN log = 1..Len(log)
  BY LenProperties
<1>2. ASSUME NEW i \in 1..Len(log) PROVE EstimateText(log[i].content) + Overhead \in Nat
  <2>1. log[i] \in Message
    BY ElementOfSeq
  <2>2. log[i].content \in Text
    BY <2>1 DEF Message, NonEmpty
  <2> QED BY <2>2, TextCounts, NumberAssumption
<1>3. Counts(log) \in [1..Len(log) -> Nat]
  BY <1>1, <1>2 DEF Counts
<1>4. Counts(log) \in Seq(Nat)
  BY <1>1, <1>3
<1>5. Len(Counts(log)) = Len(log)
  BY <1>1, <1>3, <1>4, LenProperties
<1> QED BY <1>1, <1>4, <1>5 DEF EstimateMessages, Counts

LEMMA MessagesCount ==
  ASSUME NEW log \in Seq(Message)
  PROVE  EstimateMessages(log) \in Nat
<1>1. PICK P : PrefixSums(P, Counts(log))
  BY CountsType, SumByPrefixes
<1> QED BY <1>1, CountsType, PrefixesGiveSum

\* One more message adds its text and the overhead.
LEMMA OneMoreMessage ==
  ASSUME NEW log \in Seq(Message), NEW m \in Message
  PROVE  EstimateMessages(Append(log, m))
           = EstimateMessages(log) + (EstimateText(m.content) + Overhead)
<1> DEFINE t == Append(log, m)
           x == EstimateText(m.content) + Overhead
           v == Append(Counts(log), x)
<1>1. x \in Nat
  <2>1. m.content \in Text
    BY DEF Message, NonEmpty
  <2> QED BY <2>1, TextCounts, NumberAssumption
<1>2. /\ t \in Seq(Message) /\ Len(t) = Len(log) + 1 /\ t[Len(log) + 1] = m
      /\ \A i \in 1..Len(log) : t[i] = log[i]
  BY AppendProperties
<1>3. /\ v \in Seq(Nat) /\ Len(v) = Len(log) + 1 /\ v[Len(log) + 1] = x
      /\ \A i \in 1..Len(log) : v[i] = Counts(log)[i]
  BY <1>1, CountsType, AppendProperties
<1> HIDE DEF t, v
<1>4. /\ Counts(t) \in Seq(Nat) /\ Len(Counts(t)) = Len(log) + 1
      /\ \A i \in 1..(Len(log) + 1) : Counts(t)[i] = EstimateText(t[i].content) + Overhead
  BY <1>2, CountsType
<1>5. \A i \in 1..(Len(log) + 1) : Counts(t)[i] = v[i]
  <2>1. Len(log) \in Nat
        /\ \A i \in 1..Len(log) : Counts(log)[i] = EstimateText(log[i].content) + Overhead
    BY CountsType
  <2>2. ASSUME NEW i \in 1..Len(log) PROVE Counts(t)[i] = v[i]
    <3>1. i \in 1..(Len(log) + 1)
      BY <2>1
    <3>2. Counts(t)[i] = EstimateText(t[i].content) + Overhead
      BY <1>4, <3>1
    <3> QED BY <1>2, <1>3, <2>1, <3>2
  <2>3. Counts(t)[Len(log) + 1] = v[Len(log) + 1]
    <3>1. Len(log) + 1 \in 1..(Len(log) + 1)
      BY <2>1
    <3>2. Counts(t)[Len(log) + 1] = EstimateText(t[Len(log) + 1].content) + Overhead
      BY <1>4, <3>1
    <3> QED BY <1>2, <1>3, <3>2
  <2>4. \A i \in 1..(Len(log) + 1) : i \in 1..Len(log) \/ i = Len(log) + 1
    BY <2>1
  <2> QED BY <2>2, <2>3, <2>4
<1>6. Counts(t) = v
  BY <1>3, <1>4, <1>5, SeqEqual
<1> HIDE DEF x
<1>7. SumFunction(v) = SumFunction(Counts(log)) + x
  BY <1>1, CountsType, SumOfAppend DEF v
<1> QED BY <1>2, <1>6, <1>7, CountsType DEF t, x

LEMMA PendingCounts ==
  ASSUME NEW files \in Seq(Files)
  PROVE  EstimatePending(files) \in Nat
<1> DEFINE w == [i \in DOMAIN files |-> IF files[i].image THEN 0 ELSE EstimateText(files[i].text)]
<1>1. Len(files) \in Nat /\ DOMAIN files = 1..Len(files)
  BY LenProperties
<1>2. ASSUME NEW i \in 1..Len(files)
      PROVE  (IF files[i].image THEN 0 ELSE EstimateText(files[i].text)) \in Nat
  <2>1. files[i] \in Files
    BY ElementOfSeq
  <2>2. files[i].text \in Text
    BY <2>1, TextAssumption
  <2> QED BY <2>2, TextCounts
<1>3. w \in [1..Len(files) -> Nat]
  BY <1>1, <1>2
<1>4. w \in Seq(Nat)
  BY <1>1, <1>3
<1>5. EstimatePending(files) = SumFunction(w)
  BY DEF EstimatePending
<1> HIDE DEF w
<1>6. PICK P : PrefixSums(P, w)
  BY <1>4, SumByPrefixes
<1> QED BY <1>4, <1>5, <1>6, PrefixesGiveSum

-----------------------------------------------------------------------------
(* The banner. *)

\* The alert is shown only while the bar is at its limit or over it.
AlertJustified == warned => Over

LEMMA UpdateWarns ==
  ASSUME Update
  PROVE  warned' = Over'
<1>1. bar'.used = Estimate' /\ bar'.limit = Limit' /\ warned' = (Estimate' >= Limit')
  BY DEF Update
<1> QED BY <1>1, Zenon DEF Over

LEMMA ParametersWarn ==
  ASSUME ShowParameters
  PROVE  UNCHANGED display \/ warned' = Over'
<1>1. CASE open
  BY <1>1 DEF ShowParameters
<1>2. CASE ~open
  <2>1. bar'.used = Estimate /\ bar'.limit = Limit /\ warned' = (Estimate >= Limit)
    BY <1>2 DEF ShowParameters
  <2> QED BY <2>1, Zenon DEF Over
<1> QED BY <1>1, <1>2

\* Every step updates the display, or leaves it alone, or the user hides the banner.
LEMMA DisplayChanges ==
  ASSUME [Next]_vars
  PROVE  \/ warned' = Over'
         \/ UNCHANGED display
         \/ UNCHANGED bar /\ ~warned' /\ (Dismiss \/ OpenAttach)
<1>1. CASE OpenAttach
  BY <1>1 DEF OpenAttach
<1>2. CASE CancelAttach
  BY <1>2 DEF CancelAttach
<1>3. CASE Send
  BY <1>3, UpdateWarns DEF Send
<1>4. CASE NewChat
  BY <1>4, UpdateWarns DEF NewChat, Load
<1>5. CASE Dismiss
  BY <1>5 DEF Dismiss
<1>6. CASE DropPrompt
  BY <1>6 DEF DropPrompt
<1>7. CASE HandlePrompt
  BY <1>7, UpdateWarns, ParametersWarn DEF HandlePrompt
<1>8. ASSUME NEW text \in Prompts, Type(text) PROVE warned' = Over'
  BY <1>8, UpdateWarns DEF Type
<1>9. ASSUME NEW accepted, FinishAttach(accepted) PROVE warned' = Over'
  BY <1>9, UpdateWarns DEF FinishAttach
<1>10. ASSUME NEW i \in DOMAIN pending, RemoveChip(i) PROVE warned' = Over'
  BY <1>10, UpdateWarns DEF RemoveChip
<1>11. ASSUME NEW chat \in Chats, LoadSession(chat) PROVE warned' = Over'
  BY <1>11, UpdateWarns DEF LoadSession, Load
<1>12. ASSUME NEW p \in Params, SetParameters(p) PROVE warned' = Over'
  BY <1>12, UpdateWarns DEF SetParameters
<1>13. ASSUME NEW text \in Tokens, AppendToken(text) PROVE warned' = Over'
  BY <1>13, UpdateWarns DEF AppendToken
<1>14. CASE UNCHANGED vars
  BY <1>14 DEF vars
<1> QED
  BY <1>1, <1>2, <1>3, <1>4, <1>5, <1>6, <1>7, <1>8, <1>9, <1>10, <1>11, <1>12, <1>13, <1>14
     DEF Next

LEMMA StepJustified ==
  ASSUME AlertJustified, [Next]_vars
  PROVE  AlertJustified' /\ BannerStep
<1>1. CASE warned' = Over'
  BY <1>1, Zenon DEF AlertJustified, BannerStep
<1>2. CASE UNCHANGED display
  BY <1>2, Zenon DEF AlertJustified, BannerStep, Over, display
<1>3. CASE UNCHANGED bar /\ ~warned' /\ (Dismiss \/ OpenAttach)
  BY <1>3, Zenon DEF AlertJustified, BannerStep
<1> QED BY <1>1, <1>2, <1>3, DisplayChanges

\* The alert is never left over from a larger prompt, another session or a smaller limit.
THEOREM AlertIsJustified == Spec => []AlertJustified
<1>1. Init => AlertJustified
  BY DEF Init, AlertJustified
<1>2. AlertJustified /\ [Next]_vars => AlertJustified'
  BY StepJustified
<1> QED BY <1>1, <1>2, PTL DEF Spec

\* The banner comes and goes with the bar, and is hidden in between by the user alone:
\* the half of OverrunAnnounced that is about the banner.
THEOREM BannerFollowsBar == Spec => [][BannerStep]_vars
<1>1. AlertJustified /\ [Next]_vars => BannerStep \/ UNCHANGED vars
  BY StepJustified
<1> QED BY <1>1, AlertIsJustified, PTL DEF Spec
-----------------------------------------------------------------------------
(* The bar. *)

Inductive == TypeOK /\ BarInStep

LEMMA Counted ==
  ASSUME NEW log \in Seq(Message), NEW files \in Seq(Files), NEW t \in Text, NEW u \in Text,
         NEW p \in Params
  PROVE  /\ EstimateMessages(log) + EstimatePending(files) + EstimateText(t)
              + EstimateText(p.system) + EstimateText(u) \in Nat
         /\ (IF p.context = 0 THEN Fallback ELSE p.context) \in Nat \ {0}
<1>1. p.context \in Nat /\ p.system \in Text
  BY ParamsAssumption
<1>2. /\ EstimateMessages(log) \in Nat /\ EstimatePending(files) \in Nat
      /\ EstimateText(t) \in Nat /\ EstimateText(p.system) \in Nat /\ EstimateText(u) \in Nat
  BY <1>1, MessagesCount, PendingCounts, TextCounts
<1>3. \A a, b, c, d, e \in Nat : a + b + c + d + e \in Nat
  OBVIOUS
<1>4. EstimateMessages(log) + EstimatePending(files) + EstimateText(t)
        + EstimateText(p.system) + EstimateText(u) \in Nat
  BY <1>2, <1>3, Zenon
<1>5. (IF p.context = 0 THEN Fallback ELSE p.context) \in Nat \ {0}
  BY <1>1, NumberAssumption
<1> QED BY <1>4, <1>5

\* After an update the bar shows what the panel holds now.
LEMMA UpdateInStep ==
  ASSUME Update, messages' \in Seq(Message), pending' \in Seq(Files),
         {stream', typed'} \subseteq Text, params' \in Params
  PROVE  /\ bar' \in [used : Nat, limit : Nat \ {0}] /\ warned' \in BOOLEAN
         /\ bar'.used = Estimate' /\ bar'.limit = Limit' /\ BarInStep'
<1>1. Estimate' \in Nat /\ Limit' \in Nat \ {0}
  BY Counted DEF Estimate, Limit
<1>2. bar' = [used |-> Estimate', limit |-> Limit'] /\ warned' = (Estimate' >= Limit')
  BY DEF Update
<1>3. bar'.used = Estimate' /\ bar'.limit = Limit'
  BY <1>2
<1>4. bar' \in [used : Nat, limit : Nat \ {0}]
  BY <1>1, <1>2
<1>5. warned' \in BOOLEAN
  BY <1>2
<1> QED BY <1>3, <1>4, <1>5 DEF BarInStep

LEMMA AnswerType ==
  ASSUME stream \in Text
  PROVE  /\ Answer \in Seq(Message)
         /\ stream = <<>> => Answer = <<>>
         /\ stream # <<>> => /\ Answer = <<[role |-> "assistant", content |-> stream]>>
                             /\ [role |-> "assistant", content |-> stream] \in Message
<1> DEFINE m == [role |-> "assistant", content |-> stream]
<1>1. stream # <<>> => m \in Message
  BY DEF Message, NonEmpty
<1> HIDE DEF m
<1>2. stream # <<>> => <<m>> \in Seq(Message)
  BY <1>1
<1>3. <<>> \in Seq(Message)
  OBVIOUS
<1> QED BY <1>1, <1>2, <1>3 DEF Answer, m

LEMMA EmptyRepeats ==
  ASSUME last \in Text
  PROVE  Repeats(<<>>)
<1>1. Len(<<>>) = 0 /\ Len(last) \in Nat
  BY LenProperties DEF Text
<1>2. SubSeq(<<>>, 1, 0) = <<>> /\ SubSeq(last, 1, 0) = <<>>
  BY SubSeqEmpty
<1> QED BY <1>1, <1>2 DEF Repeats, IsPrefix

\* What a prompt does to the transcript: the open answer is closed, and the prompt
\* entered unless it repeats the last one.
LEMMA EnterType ==
  ASSUME TypeOK, NEW text \in Text, Enter(text)
  PROVE  /\ messages' \in Seq(Message) /\ stream' = <<>> /\ last' \in Text
         /\ messages \o Answer \in Seq(Message)
         /\ Repeats(text) => messages' = messages \o Answer
         /\ ~Repeats(text) =>
              /\ [role |-> "user", content |-> text] \in Message
              /\ messages' = Append(messages \o Answer, [role |-> "user", content |-> text])
<1> DEFINE m == [role |-> "user", content |-> text]
           log == messages \o Answer
<1>1. log \in Seq(Message)
  BY AnswerType, ConcatProperties DEF TypeOK
<1>2. ASSUME ~Repeats(text) PROVE m \in Message
  <2>1. text # <<>>
    BY <1>2, EmptyRepeats DEF TypeOK
  <2> QED BY <2>1 DEF Message, NonEmpty
<1> HIDE DEF log, m
<1>3. CASE Repeats(text)
  BY <1>1, <1>3 DEF Enter, TypeOK, log
<1>4. CASE ~Repeats(text)
  <2>1. messages' = log \o <<m>> /\ last' = text /\ stream' = <<>>
    BY <1>4 DEF Enter, log, m
  <2>2. log \o <<m>> = Append(log, m) /\ Append(log, m) \in Seq(Message)
    BY <1>1, <1>2, <1>4, AppendIsConcat, AppendProperties
  <2> QED BY <1>1, <1>2, <1>4, <2>1, <2>2 DEF log, m
<1> QED BY <1>3, <1>4

\* A closed answer counts as much as the open one, and the overhead of a message.
LEMMA ClosedAnswerCounts ==
  ASSUME TypeOK
  PROVE  EstimateMessages(messages \o Answer)
           = EstimateMessages(messages) + EstimateText(stream)
               + (IF stream = <<>> THEN 0 ELSE Overhead)
<1>1. messages \in Seq(Message) /\ stream \in Text /\ EstimateMessages(messages) \in Nat
  BY MessagesCount DEF TypeOK
<1>2. CASE stream = <<>>
  <2>1. messages \o Answer = messages
    BY <1>1, <1>2, AnswerType, ConcatEmptySeq
  <2>2. EstimateText(stream) = 0
    BY <1>2 DEF EstimateText
  <2> QED BY <1>1, <1>2, <2>1, <2>2
<1>3. CASE stream # <<>>
  <2> DEFINE m == [role |-> "assistant", content |-> stream]
  <2>1. Answer = <<m>> /\ m \in Message /\ m.content = stream
    BY <1>1, <1>3, AnswerType
  <2> HIDE DEF m
  <2>2. messages \o Answer = Append(messages, m)
    BY <1>1, <2>1, AppendIsConcat
  <2>3. EstimateText(stream) \in Nat /\ Overhead \in Nat
    BY <1>1, TextCounts, NumberAssumption
  <2>4. EstimateMessages(Append(messages, m))
          = EstimateMessages(messages) + (EstimateText(stream) + Overhead)
    BY <1>1, <2>1, OneMoreMessage
  <2> QED BY <1>1, <1>3, <2>2, <2>3, <2>4
<1> QED BY <1>2, <1>3

LEMMA LastPromptType ==
  ASSUME NEW log \in Seq(Message)
  PROVE  LastPrompt(log) \in Text
<1> DEFINE prompts == {i \in DOMAIN log : log[i].role = "user"}
<1>1. Len(log) \in Nat /\ DOMAIN log = 1..Len(log)
  BY LenProperties
<1>2. prompts \in SUBSET (1..Len(log))
  BY <1>1
<1>3. LastPrompt(log) = IF prompts = {} THEN <<>> ELSE log[Max(prompts)].content
  BY DEF LastPrompt
<1> HIDE DEF prompts
<1>4. ASSUME prompts # {} PROVE log[Max(prompts)].content \in Text
  <2>1. Max(prompts) \in 1..Len(log)
    BY <1>1, <1>2, <1>4, LastIndex
  <2>2. log[Max(prompts)] \in Message
    BY <2>1, ElementOfSeq
  <2> QED BY <2>2 DEF Message, NonEmpty
<1>5. <<>> \in Text
  BY DEF Text
<1> QED BY <1>3, <1>4, <1>5

LEMMA SendStep ==
  ASSUME TypeOK, Send
  PROVE  Inductive'
<1> DEFINE images == [i \in DOMAIN pending |-> IF pending[i].image THEN Indicator ELSE <<>>]
           documents == [i \in DOMAIN pending |-> IF pending[i].image THEN <<>> ELSE pending[i].text]
<1>1. Len(pending) \in Nat /\ DOMAIN pending = 1..Len(pending)
  BY LenProperties DEF TypeOK
<1>2. \A i \in 1..Len(pending) : pending[i].text \in Seq(Atom)
  <2>1. \A i \in 1..Len(pending) : pending[i] \in Files
    BY ElementOfSeq DEF TypeOK
  <2> QED BY <2>1, TextAssumption DEF Text
<1>3. Indicator \in Seq(Atom) /\ <<>> \in Seq(Atom)
  BY TextAssumption DEF NonEmpty, Text
<1>4. images \in Seq(Seq(Atom)) /\ documents \in Seq(Seq(Atom))
  <2>1. images \in [1..Len(pending) -> Seq(Atom)] /\ documents \in [1..Len(pending) -> Seq(Atom)]
    BY <1>1, <1>2, <1>3
  <2> QED BY <1>1, <2>1
<1>5. /\ Enter(typed \o FlattenSeq(images))
      /\ submitted' = Append(submitted, typed \o FlattenSeq(documents))
      /\ typed' = <<>> /\ pending' = <<>> /\ Update
      /\ UNCHANGED <<params, open, choosing>>
  BY DEF Send
<1> HIDE DEF images, documents
<1>6. typed \o FlattenSeq(images) \in Text /\ typed \o FlattenSeq(documents) \in Text
  <2>1. FlattenSeq(images) \in Seq(Atom) /\ FlattenSeq(documents) \in Seq(Atom)
    BY <1>4, FlattenType
  <2> QED BY <2>1, ConcatProperties DEF TypeOK, Text
<1>7. messages' \in Seq(Message) /\ stream' = <<>> /\ last' \in Text
  BY <1>5, <1>6, EnterType
<1>8. submitted' \in Seq(Text)
  BY <1>5, <1>6, AppendProperties DEF TypeOK
<1>9. pending' \in Seq(Files) /\ Len(pending') <= MaxPending /\ {stream', typed'} \subseteq Text
  <2>1. Len(<<>>) = 0 /\ <<>> \in Seq(Files) /\ <<>> \in Text
    BY DEF Text
  <2> QED BY <1>5, <1>7, <2>1, NumberAssumption
<1>10. params' \in Params /\ open' \in BOOLEAN /\ choosing' \in BOOLEAN
  BY <1>5 DEF TypeOK
<1>11. bar' \in [used : Nat, limit : Nat \ {0}] /\ warned' \in BOOLEAN /\ BarInStep'
  BY <1>5, <1>7, <1>9, <1>10, UpdateInStep
<1> QED BY <1>7, <1>8, <1>9, <1>10, <1>11 DEF Inductive, TypeOK

\* A chat that replaces the one shown.
LEMMA LoadStep ==
  ASSUME TypeOK, NEW log \in Seq(Message), Load(log), params' \in Params, open' \in BOOLEAN,
         UNCHANGED <<input, submitted>>
  PROVE  Inductive'
<1>1. messages' = log /\ stream' = <<>> /\ last' = LastPrompt(log) /\ Update
  BY DEF Load
<1>2. last' \in Text /\ stream' \in Text
  BY <1>1, LastPromptType DEF Text
<1>3. UNCHANGED <<typed, pending, choosing, submitted>>
  BY DEF input
<1>4. bar' \in [used : Nat, limit : Nat \ {0}] /\ warned' \in BOOLEAN /\ BarInStep'
  BY <1>1, <1>2, <1>3, UpdateInStep DEF TypeOK
<1> QED BY <1>1, <1>2, <1>3, <1>4 DEF Inductive, TypeOK

LEMMA TypeStep ==
  ASSUME TypeOK, NEW text \in Prompts, Type(text)
  PROVE  Inductive'
<1>1. text \in Text /\ typed' = text /\ Update
      /\ UNCHANGED <<messages, params, stream, last, open, pending, choosing, submitted>>
  BY TextAssumption DEF Type, panel
<1>2. bar' \in [used : Nat, limit : Nat \ {0}] /\ warned' \in BOOLEAN /\ BarInStep'
  BY <1>1, UpdateInStep DEF TypeOK
<1> QED BY <1>1, <1>2 DEF Inductive, TypeOK

LEMMA FinishAttachStep ==
  ASSUME TypeOK, NEW accepted \in BoundedSeq(Files, MaxPending - Len(pending)),
         FinishAttach(accepted)
  PROVE  Inductive'
<1>1. /\ pending' = pending \o accepted /\ choosing' = FALSE /\ Update
      /\ UNCHANGED <<messages, params, stream, last, open, typed, submitted>>
  BY DEF FinishAttach, panel
<1>2. Len(pending) \in Nat /\ Len(pending) <= MaxPending /\ MaxPending \in Nat
  BY LenProperties, NumberAssumption DEF TypeOK
<1>3. PICK n \in 0..(MaxPending - Len(pending)) : accepted \in [1..n -> Files]
  BY DEF BoundedSeq, SeqOf
<1>4. accepted \in Seq(Files) /\ Len(accepted) = n
  <2>1. n \in Nat
    BY <1>2, <1>3
  <2>2. accepted \in Seq(Files)
    BY <1>3, <2>1
  <2> QED BY <1>3, <2>1, <2>2, LenProperties
<1>5. pending' \in Seq(Files) /\ Len(pending') = Len(pending) + Len(accepted)
  BY <1>1, <1>4, ConcatProperties DEF TypeOK
<1>6. Len(pending') <= MaxPending
  BY <1>2, <1>3, <1>4, <1>5
<1>7. bar' \in [used : Nat, limit : Nat \ {0}] /\ warned' \in BOOLEAN /\ BarInStep'
  BY <1>1, <1>5, UpdateInStep DEF TypeOK
<1> QED BY <1>1, <1>5, <1>6, <1>7 DEF Inductive, TypeOK

LEMMA RemoveChipStep ==
  ASSUME TypeOK, NEW i \in DOMAIN pending, RemoveChip(i)
  PROVE  Inductive'
<1> DEFINE n == Len(pending)
           front == SubSeq(pending, 1, i - 1)
           back == SubSeq(pending, i + 1, n)
<1>1. pending \in Seq(Files) /\ n \in Nat /\ n <= MaxPending /\ i \in 1..n
  BY LenProperties DEF TypeOK
<1>2. \A j \in 1..n : pending[j] \in Files
  BY <1>1, ElementOfSeq
<1>3. pending' = front \o back
  BY DEF RemoveChip, RemoveAt
<1> HIDE DEF n
<1>4. front \in Seq(Files) /\ Len(front) = i - 1
  BY <1>1, <1>2, SubSeqProperties
<1>5. back \in Seq(Files) /\ Len(back) = n - i
  BY <1>1, <1>2, SubSeqProperties
<1> HIDE DEF front, back
<1>6. pending' \in Seq(Files) /\ Len(pending') = Len(front) + Len(back)
  BY <1>3, <1>4, <1>5, ConcatProperties
<1>7. Len(pending') <= MaxPending
  <2>1. Len(pending') = (i - 1) + (n - i) /\ MaxPending \in Nat
    BY <1>4, <1>5, <1>6, NumberAssumption
  <2> QED BY <1>1, <2>1
<1>8. UNCHANGED <<messages, params, stream, last, open, typed, choosing, submitted>> /\ Update
  BY DEF RemoveChip, panel
<1>9. bar' \in [used : Nat, limit : Nat \ {0}] /\ warned' \in BOOLEAN /\ BarInStep'
  BY <1>6, <1>8, UpdateInStep DEF TypeOK
<1> QED BY <1>6, <1>7, <1>8, <1>9 DEF Inductive, TypeOK

LEMMA SetParametersStep ==
  ASSUME TypeOK, NEW p \in Params, SetParameters(p)
  PROVE  Inductive'
<1>1. /\ params' = p /\ Update
      /\ UNCHANGED <<messages, stream, last, open, typed, pending, choosing, submitted>>
  BY DEF SetParameters, input
<1>2. bar' \in [used : Nat, limit : Nat \ {0}] /\ warned' \in BOOLEAN /\ BarInStep'
  BY <1>1, UpdateInStep DEF TypeOK
<1> QED BY <1>1, <1>2 DEF Inductive, TypeOK

LEMMA AppendTokenStep ==
  ASSUME TypeOK, NEW text \in Tokens, AppendToken(text)
  PROVE  Inductive'
<1>1. /\ stream' = stream \o text /\ Update
      /\ UNCHANGED <<messages, params, last, open, typed, pending, choosing, submitted>>
  BY DEF AppendToken, input
<1>2. stream' \in Text
  BY <1>1, TextAssumption, ConcatProperties DEF TypeOK, Text
<1>3. bar' \in [used : Nat, limit : Nat \ {0}] /\ warned' \in BOOLEAN /\ BarInStep'
  BY <1>1, <1>2, UpdateInStep DEF TypeOK
<1> QED BY <1>1, <1>2, <1>3 DEF Inductive, TypeOK

\* What is cut off the transcript by closing the answer is what the bar misses, if it is
\* not updated.
LEMMA ClosingMisses ==
  ASSUME TypeOK, messages' = messages \o Answer, stream' = <<>>,
         UNCHANGED <<params, typed, pending>>
  PROVE  /\ Limit' = Limit
         /\ stream = <<>> => messages' = messages /\ Estimate' = Estimate
         /\ stream # <<>> => AnswerClosed' /\ Estimate' = Estimate + Overhead
<1>1. /\ EstimateMessages(messages) \in Nat /\ EstimatePending(pending) \in Nat
      /\ EstimateText(typed) \in Nat /\ EstimateText(params.system) \in Nat
      /\ EstimateText(stream) \in Nat /\ Overhead \in Nat
  <2>1. params.system \in Text
    BY ParamsAssumption DEF TypeOK
  <2> QED BY <2>1, MessagesCount, PendingCounts, TextCounts, NumberAssumption DEF TypeOK
<1>2. EstimateMessages(messages') = EstimateMessages(messages) + EstimateText(stream)
                                      + (IF stream = <<>> THEN 0 ELSE Overhead)
  BY ClosedAnswerCounts
<1>3. EstimateText(stream') = 0 /\ (stream = <<>> => EstimateText(stream) = 0)
  BY DEF EstimateText
<1>4. Estimate = EstimateMessages(messages) + EstimatePending(pending) + EstimateText(typed)
                   + EstimateText(params.system) + EstimateText(stream)
  BY DEF Estimate
<1>5. Estimate' = EstimateMessages(messages') + EstimatePending(pending) + EstimateText(typed)
                    + EstimateText(params.system) + EstimateText(stream')
  BY DEF Estimate
<1>6. CASE stream = <<>>
  <2>1. messages' = messages
    BY <1>6, AnswerType, ConcatEmptySeq DEF TypeOK
  <2> QED BY <1>3, <1>4, <1>5, <1>6, <2>1 DEF Limit
<1>7. CASE stream # <<>>
  <2>1. Estimate' = Estimate + Overhead
    <3>1. PICK a \in Nat : a = EstimateMessages(messages)
      BY <1>1
    <3>2. PICK b \in Nat, c \in Nat :
             b = EstimatePending(pending) /\ c = EstimateText(typed)
      BY <1>1
    <3>3. PICK d \in Nat, e \in Nat :
             d = EstimateText(params.system) /\ e = EstimateText(stream)
      BY <1>1
    <3>4. EstimateMessages(messages') = a + e + Overhead
      BY <1>2, <1>7, <3>1, <3>3
    <3>5. Estimate' = (a + e + Overhead) + b + c + d + 0
      BY <1>3, <1>5, <3>2, <3>3, <3>4
    <3>6. Estimate = a + b + c + d + e
      BY <1>4, <3>1, <3>2, <3>3
    <3> QED BY <1>1, <3>5, <3>6
  <2> DEFINE m == [role |-> "assistant", content |-> stream]
  <2>2. Answer = <<m>> /\ m \in Message /\ m.role = "assistant"
    BY <1>7, AnswerType DEF TypeOK
  <2> HIDE DEF m
  <2>3. messages' = Append(messages, m)
    BY <2>2, AppendIsConcat DEF TypeOK
  <2>4. Len(messages') = Len(messages) + 1 /\ messages'[Len(messages) + 1] = m
        /\ Len(messages) \in Nat
    BY <2>2, <2>3, AppendProperties, LenProperties DEF TypeOK
  <2>5. messages' # <<>> /\ Last(messages').role = "assistant"
    BY <2>2, <2>4, EmptySeq DEF Last
  <2> QED BY <1>7, <2>1, <2>5 DEF AnswerClosed, Limit
<1> QED BY <1>6, <1>7

LEMMA HandlePromptStep ==
  ASSUME Inductive, HandlePrompt
  PROVE  Inductive'
<1> DEFINE text == Head(submitted)
<1>1. text \in Text /\ submitted' \in Seq(Text)
  BY HeadTailProperties DEF Inductive, TypeOK, HandlePrompt
<1>2. /\ Enter(text) /\ open' = TRUE /\ UNCHANGED <<params, typed, pending, choosing>>
      /\ IF Repeats(text) THEN ShowParameters ELSE Update
  BY DEF HandlePrompt, input
<1> HIDE DEF text
<1>3. messages' \in Seq(Message) /\ stream' = <<>> /\ last' \in Text /\ stream' \in Text
  <2>1. messages' \in Seq(Message) /\ stream' = <<>> /\ last' \in Text
    BY <1>1, <1>2, EnterType DEF Inductive
  <2>2. <<>> \in Text
    BY DEF Text
  <2> QED BY <2>1, <2>2
<1>4. bar' \in [used : Nat, limit : Nat \ {0}] /\ warned' \in BOOLEAN /\ BarInStep'
  <2>1. CASE ~Repeats(text)
    BY <1>2, <1>3, <2>1, UpdateInStep DEF Inductive, TypeOK
  <2>2. CASE Repeats(text)
    <3>1. messages' = messages \o Answer
      BY <1>1, <1>2, <2>2, EnterType DEF Inductive
    <3>2. /\ Limit' = Limit
          /\ stream = <<>> => messages' = messages /\ Estimate' = Estimate
          /\ stream # <<>> => AnswerClosed' /\ Estimate' = Estimate + Overhead
      BY <1>2, <1>3, <3>1, ClosingMisses DEF Inductive
    <3>3. CASE open
      <4>1. UNCHANGED <<bar, warned>>
        BY <1>2, <2>2, <3>3 DEF ShowParameters, display
      <4>2. CASE bar.limit = Limit /\ bar.used = Estimate
        BY <3>2, <4>1, <4>2 DEF Inductive, TypeOK, BarInStep
      <4>3. CASE bar.limit = Limit /\ AnswerClosed /\ bar.used + Overhead = Estimate
        BY <1>3, <3>2, <4>1, <4>3 DEF Inductive, TypeOK, BarInStep, AnswerClosed
      <4>4. CASE Fresh
        BY <1>2, <1>3, <3>2, <4>1, <4>4 DEF Inductive, TypeOK, BarInStep, Fresh
      <4> QED BY <4>2, <4>3, <4>4 DEF Inductive, BarInStep
    <3>4. CASE ~open
      <4>1. bar' = [used |-> Estimate, limit |-> Limit] /\ warned' = (Estimate >= Limit)
        BY <1>2, <2>2, <3>4 DEF ShowParameters
      <4>2. Estimate \in Nat /\ Limit \in Nat \ {0}
        BY Counted DEF Inductive, TypeOK, Estimate, Limit
      <4>3. bar' \in [used : Nat, limit : Nat \ {0}]
        BY <4>1, <4>2
      <4>4. bar'.used = Estimate /\ bar'.limit = Limit
        BY <4>1
      <4>5. warned' \in BOOLEAN
        BY <4>1
      <4> QED BY <3>2, <4>3, <4>4, <4>5 DEF BarInStep
    <3> QED BY <3>3, <3>4
  <2> QED BY <2>1, <2>2
<1> QED BY <1>1, <1>2, <1>3, <1>4 DEF Inductive, TypeOK

\* The steps that leave the panel and the bar alone.
LEMMA QuietStep ==
  ASSUME Inductive,
         UNCHANGED <<messages, params, stream, last, open, typed, pending, bar>>,
         choosing' \in BOOLEAN, warned' \in BOOLEAN, submitted' \in Seq(Text)
  PROVE  Inductive'
<1>1. TypeOK'
  BY DEF Inductive, TypeOK
<1>2. BarInStep'
  BY DEF Inductive, BarInStep, AnswerClosed, Fresh, Estimate, Limit
<1> QED BY <1>1, <1>2 DEF Inductive

LEMMA InductiveStep ==
  ASSUME Inductive, [Next]_vars
  PROVE  Inductive'
<1>1. CASE OpenAttach
  BY <1>1, QuietStep DEF OpenAttach, panel, Inductive, TypeOK
<1>2. CASE CancelAttach
  BY <1>2, QuietStep DEF CancelAttach, panel, display, Inductive, TypeOK
<1>3. CASE Send
  BY <1>3, SendStep DEF Inductive
<1>4. CASE NewChat
  <2>1. <<>> \in Seq(Message) /\ params' \in Params /\ open' \in BOOLEAN
    <3>1. <<>> \in Seq(Message)
      OBVIOUS
    <3>2. params' = Default /\ open' = FALSE
      BY <1>4 DEF NewChat
    <3> QED BY <3>1, <3>2, ParamsAssumption
  <2> QED BY <1>4, <2>1, LoadStep DEF NewChat, Inductive
<1>5. CASE Dismiss
  BY <1>5, QuietStep DEF Dismiss, panel, input, Inductive, TypeOK
<1>6. CASE DropPrompt
  <2>1. submitted' \in Seq(Text)
    BY <1>6, HeadTailProperties DEF DropPrompt, Inductive, TypeOK
  <2> QED BY <1>6, <2>1, QuietStep DEF DropPrompt, panel, input, display, Inductive, TypeOK
<1>7. CASE HandlePrompt
  BY <1>7, HandlePromptStep
<1>8. ASSUME NEW text \in Prompts, Type(text) PROVE Inductive'
  BY <1>8, TypeStep DEF Inductive
<1>9. ASSUME NEW accepted \in BoundedSeq(Files, MaxPending - Len(pending)),
             FinishAttach(accepted)
      PROVE  Inductive'
  BY <1>9, FinishAttachStep DEF Inductive
<1>10. ASSUME NEW i \in DOMAIN pending, RemoveChip(i) PROVE Inductive'
  BY <1>10, RemoveChipStep DEF Inductive
<1>11. ASSUME NEW chat \in Chats, LoadSession(chat) PROVE Inductive'
  <2>1. chat.messages \in Seq(Message) /\ params' \in Params /\ open' \in BOOLEAN
    BY <1>11, ParamsAssumption DEF LoadSession
  <2> QED BY <1>11, <2>1, LoadStep DEF LoadSession, Inductive
<1>12. ASSUME NEW p \in Params, SetParameters(p) PROVE Inductive'
  BY <1>12, SetParametersStep DEF Inductive
<1>13. ASSUME NEW text \in Tokens, AppendToken(text) PROVE Inductive'
  BY <1>13, AppendTokenStep DEF Inductive
<1>14. CASE UNCHANGED vars
  BY <1>14, QuietStep DEF vars, panel, input, display, Inductive, TypeOK
<1> QED
  BY <1>1, <1>2, <1>3, <1>4, <1>5, <1>6, <1>7, <1>8, <1>9, <1>10, <1>11, <1>12, <1>13, <1>14
     DEF Next

LEMMA InductiveInit == Init => Inductive
<1> SUFFICES ASSUME Init PROVE Inductive
  OBVIOUS
<1>1. Len(<<>>) = 0 /\ <<>> \in Text
  BY DEF Text
<1>2. TypeOK
  <2>1. messages \in Seq(Message) /\ pending \in Seq(Files) /\ submitted \in Seq(Text)
    BY DEF Init
  <2>2. Len(pending) <= MaxPending /\ bar \in [used : Nat, limit : Nat \ {0}]
    BY <1>1, NumberAssumption DEF Init
  <2>3. params \in Params /\ {stream, last, typed} \subseteq Text
    BY <1>1, ParamsAssumption DEF Init
  <2>4. open \in BOOLEAN /\ choosing \in BOOLEAN /\ warned \in BOOLEAN
    BY DEF Init
  <2> QED BY <2>1, <2>2, <2>3, <2>4 DEF TypeOK
<1>3. BarInStep
  BY DEF Init, BarInStep, Fresh
<1> QED BY <1>2, <1>3 DEF Inductive

\* A request counts no more than the bar, whichever way the prompt came into the
\* transcript.
LEMMA RequestCounted ==
  ASSUME Inductive, [Next]_vars
  PROVE  RequestStep
<1> SUFFICES ASSUME HandlePrompt, stream = <<>>, messages' # <<>>,
                    Last(messages').role = "user",
                    IsPrefix(Head(submitted), Last(messages').content)
             PROVE  RequestTokens <= bar'.used
  BY DEF RequestStep
<1> DEFINE text == Head(submitted)
           front == Front(messages')
           m == Last(messages')
<1>1. text \in Text
  BY HeadTailProperties DEF Inductive, TypeOK, HandlePrompt
<1>2. /\ Enter(text) /\ UNCHANGED <<params, typed, pending>>
      /\ IF Repeats(text) THEN ShowParameters ELSE Update
  BY DEF HandlePrompt, input
<1>3. Len(text) <= Len(m.content)
  BY DEF IsPrefix
<1>4. RequestTokens = EstimateMessages(front) + EstimateText(text) + Overhead
                        + EstimateText(params.system)
  BY <1>2 DEF RequestTokens
<1> HIDE DEF text
<1>5. messages' \in Seq(Message) /\ stream' = <<>>
  BY <1>1, <1>2, EnterType DEF Inductive
<1>6. front \in Seq(Message) /\ m \in Message /\ messages' = Append(front, m)
  <2>1. PICK n \in Nat : n = Len(messages') /\ n >= 1
    BY <1>5, EmptySeq, LenProperties
  <2>2. /\ SubSeq(messages', 1, n - 1) \in Seq(Message) /\ messages'[n] \in Message
        /\ messages' = Append(SubSeq(messages', 1, n - 1), messages'[n])
    <3>1. \A i \in 1..n : messages'[i] \in Message
      BY <1>5, <2>1, ElementOfSeq
    <3>2. SubSeq(messages', 1, n) = messages'
      BY <1>5, <2>1, SubSeqFull
    <3>3. SubSeq(messages', 1, n) = Append(SubSeq(messages', 1, n - 1), messages'[n])
      BY <1>5, <2>1, SubSeqRecursiveSecond
    <3>4. SubSeq(messages', 1, n - 1) \in Seq(Message)
      BY <1>5, <2>1, <3>1, SubSeqProperties
    <3> QED BY <2>1, <3>1, <3>2, <3>3, <3>4
  <2> QED BY <2>1, <2>2 DEF Front, Last
<1> HIDE DEF front, m
<1>7. m.content \in Text
  BY <1>6 DEF Message, NonEmpty
<1>8. EstimateMessages(messages') = EstimateMessages(front) + (EstimateText(m.content) + Overhead)
  BY <1>6, OneMoreMessage
<1>9. EstimateText(text) <= EstimateText(m.content)
  BY <1>1, <1>3, <1>7, LongerCountsMore
<1>10. /\ EstimateMessages(front) \in Nat /\ EstimatePending(pending) \in Nat
       /\ EstimateText(typed) \in Nat /\ EstimateText(params.system) \in Nat
       /\ EstimateText(text) \in Nat /\ EstimateText(m.content) \in Nat /\ Overhead \in Nat
  <2>1. params.system \in Text
    BY ParamsAssumption DEF Inductive, TypeOK
  <2> QED BY <1>1, <1>6, <1>7, <2>1, MessagesCount, PendingCounts, TextCounts, NumberAssumption
          DEF Inductive, TypeOK
<1>11. Estimate' = EstimateMessages(messages') + EstimatePending(pending) + EstimateText(typed)
                     + EstimateText(params.system) + 0
  <2>1. EstimateText(stream') = 0
    BY <1>5 DEF EstimateText
  <2> QED BY <1>2, <2>1 DEF Estimate
<1>12. bar'.used = Estimate'
  <2>1. CASE ~Repeats(text)
    BY <1>2, <2>1 DEF Update
  <2>2. CASE Repeats(text)
    <3>1. messages' = messages \o Answer
      BY <1>1, <1>2, <2>2, EnterType DEF Inductive
    <3>2. messages' = messages /\ Estimate' = Estimate
      BY <1>2, <1>5, <3>1, ClosingMisses DEF Inductive
    <3>3. CASE open
      <4>1. bar' = bar
        BY <1>2, <2>2, <3>3 DEF ShowParameters, display
      <4>2. ~AnswerClosed
        BY <3>2 DEF AnswerClosed
      <4>3. ~Fresh
        BY <3>2 DEF Fresh
      <4> QED BY <3>2, <4>1, <4>2, <4>3 DEF Inductive, BarInStep
    <3>4. CASE ~open
      <4>1. bar' = [used |-> Estimate, limit |-> Limit]
        BY <1>2, <2>2, <3>4 DEF ShowParameters
      <4> QED BY <3>2, <4>1
    <3> QED BY <3>3, <3>4
  <2> QED BY <2>1, <2>2
<1> QED BY <1>4, <1>8, <1>9, <1>10, <1>11, <1>12

-----------------------------------------------------------------------------
(* Theorems. *)

\* Every state of every behaviour satisfies the strengthened invariant.
THEOREM InductiveInvariant == Spec => []Inductive
<1>1. Inductive /\ [Next]_vars => Inductive'
  BY InductiveStep
<1> QED BY <1>1, InductiveInit, PTL DEF Spec

\* The transcript, the attachments, the prompts and the numbers of the bar keep their types.
THEOREM TypeCorrect == Spec => []TypeOK
<1>1. Inductive => TypeOK
  BY DEF Inductive
<1> QED BY <1>1, InductiveInvariant, PTL

\* Whatever is typed, attached, loaded, sent and received, the bar shows what the panel
\* holds against the limit of the session, but for the overhead of one closed answer.
THEOREM BarStaysInStep == Spec => []BarInStep
<1>1. Inductive => BarInStep
  BY DEF Inductive
<1> QED BY <1>1, InductiveInvariant, PTL

\* The banner follows the bar, and the bar counts what is sent: no request overruns the
\* context without the user being told.
THEOREM OverrunIsAnnounced == Spec => OverrunAnnounced
<1>1. AlertJustified /\ Inductive /\ [Next]_vars => (BannerStep /\ RequestStep) \/ UNCHANGED vars
  BY StepJustified, RequestCounted
<1> QED BY <1>1, AlertIsJustified, InductiveInvariant, PTL DEF Spec, OverrunAnnounced
=============================================================================
