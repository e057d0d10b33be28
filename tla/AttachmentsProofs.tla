--------------------------- MODULE AttachmentsProofs ---------------------------
(***************************************************************************)
(* Proofs about Attachments, for any files, prompts and limits.            *)
(***************************************************************************)
EXTENDS Attachments, FiniteSetTheorems, SequenceTheorems, TLAPS

\* What is staged for a prompt says so, and the slot holds the images of one prompt that
\* no request has taken yet, or none.
StagedUnderItsName ==
  \A p \in DOMAIN staged : \A i \in DOMAIN staged[p] : staged[p][i].prompt = p

TransitUntaken ==
  \/ transit = <<>>
  \/ \E p \in DOMAIN staged :
        transit = staged[p] /\ \A i \in DOMAIN requests : requests[i].images # staged[p]

Inductive ==
  /\ TypeOK
  /\ BudgetKept
  /\ ChipRemovesItsFile
  /\ StagedUnderItsName
  /\ TransitUntaken
  /\ ImagesOfOnePrompt

-----------------------------------------------------------------------------
(* Sums.  The number of tokens that wait is a fold of the community         *)
(* modules over a set of indices, in an order that is left open.           *)

\* A set of numbers that has zero, and with a number the next one, has them all: induction
\* without an operator as a parameter.
LEMMA Induction ==
  ASSUME NEW S, 0 \in S, \A n \in Nat : n \in S => n + 1 \in S
  PROVE  Nat \subseteq S
<1>1. SUFFICES ASSUME Nat \ S # {} PROVE FALSE
  OBVIOUS
<1> DEFINE R == {pair \in Nat \X Nat : pair[1] < pair[2]}
<1>2. IsWellFoundedOn(R, Nat)
  BY NatLessThanWellFounded DEF OpToRel
<1> HIDE DEF R
<1>3. PICK x \in Nat \ S : \A y \in Nat \ S : ~(<<y, x>> \in R)
  BY <1>1, <1>2, WFMin
<1>4. x - 1 \in Nat /\ (x - 1) + 1 = x
  <2>1. x # 0
    OBVIOUS
  <2> QED BY <2>1
<1>5. x - 1 \notin S
  BY <1>4
<1>6. <<x - 1, x>> \in R
  BY <1>4 DEF R
<1> QED BY <1>3, <1>4, <1>5, <1>6

\* T gives each subset of the first n indices of w the sum of its weights.
Sums(T, w, n) ==
  /\ T \in [SUBSET (1..n) -> Nat]
  /\ T[{}] = 0
  /\ \A s \in SUBSET (1..n) : \A x \in s : T[s] = w[x] + T[s \ {x}]

\* P[k] is the sum of the first k weights.
PrefixSums(P, w) ==
  /\ P \in [0..Len(w) -> Nat]
  /\ P[0] = 0
  /\ \A k \in 1..Len(w) : P[k] = P[k - 1] + w[k]

LEMMA SumsExist ==
  ASSUME NEW w \in Seq(Nat)
  PROVE  \E T : Sums(T, w, Len(w))
<1> DEFINE S == {n \in Nat : n <= Len(w) => \E T : Sums(T, w, n)}
<1>1. Len(w) \in Nat /\ \A i \in 1..Len(w) : w[i] \in Nat
  BY LenProperties, ElementOfSeq
<1>2. 0 \in S
  <2> DEFINE T == [s \in SUBSET (1..0) |-> 0]
  <2>1. Sums(T, w, 0)
    BY DEF Sums
  <2> QED BY <2>1
<1>3. ASSUME NEW n \in Nat, n \in S PROVE n + 1 \in S
  <2>1. SUFFICES ASSUME n + 1 <= Len(w) PROVE \E U : Sums(U, w, n + 1)
    OBVIOUS
  <2>2. PICK T : Sums(T, w, n)
    BY <1>1, <1>3, <2>1
  <2> DEFINE m == n + 1
             U == [s \in SUBSET (1..m) |-> IF m \in s THEN T[s \ {m}] + w[m] ELSE T[s]]
  <2>3. /\ m \in 1..Len(w) /\ w[m] \in Nat /\ m \in 1..m /\ m \notin 1..n
        /\ \A s \in SUBSET (1..m) : s \ {m} \in SUBSET (1..n)
        /\ \A s \in SUBSET (1..m) : m \notin s => s \in SUBSET (1..n)
        /\ {} \in SUBSET (1..m)
    BY <1>1, <2>1
  <2> HIDE DEF m
  <2>4. T \in [SUBSET (1..n) -> Nat] /\ T[{}] = 0
        /\ \A s \in SUBSET (1..n) : \A x \in s : T[s] = w[x] + T[s \ {x}]
    BY <2>2 DEF Sums
  <2>5. U \in [SUBSET (1..m) -> Nat]
    BY <2>3, <2>4
  <2>6. U[{}] = 0
    BY <2>3, <2>4
  <2>7. ASSUME NEW s \in SUBSET (1..m), NEW x \in s PROVE U[s] = w[x] + U[s \ {x}]
    <3>1. CASE x = m
      <4>1. s \ {m} \in SUBSET (1..m) /\ m \notin s \ {m}
        OBVIOUS
      <4>2. U[s] = T[s \ {m}] + w[m] /\ U[s \ {m}] = T[s \ {m}]
        BY <3>1, <4>1
      <4>3. T[s \ {m}] \in Nat
        BY <2>3, <2>4
      <4> HIDE DEF U
      <4> QED BY <2>3, <3>1, <4>2, <4>3
    <3>2. CASE x # m /\ m \in s
      <4> DEFINE r == s \ {m}
      <4>1. /\ s \ {x} \in SUBSET (1..m) /\ m \in s \ {x} /\ x \in r /\ r \in SUBSET (1..n)
            /\ (s \ {x}) \ {m} = r \ {x}
        BY <2>3, <3>2
      <4>2. U[s] = T[r] + w[m] /\ U[s \ {x}] = T[r \ {x}] + w[m]
        BY <3>2, <4>1
      <4>3. T[r] = w[x] + T[r \ {x}]
        BY <2>4, <4>1
      <4>4. r \ {x} \in SUBSET (1..n) /\ x \in 1..Len(w)
        BY <2>1, <4>1, <1>1
      <4>5. T[r \ {x}] \in Nat /\ w[x] \in Nat /\ w[m] \in Nat
        BY <1>1, <2>3, <2>4, <4>4
      <4> HIDE DEF U, r
      <4> QED BY <4>2, <4>3, <4>5
    <3>3. CASE m \notin s
      <4>1. s \in SUBSET (1..n) /\ s \ {x} \in SUBSET (1..m) /\ m \notin s \ {x}
        BY <2>3, <3>3
      <4>2. U[s] = T[s] /\ U[s \ {x}] = T[s \ {x}]
        BY <3>3, <4>1
      <4> HIDE DEF U
      <4> QED BY <2>4, <4>1, <4>2
    <3> QED BY <3>1, <3>2, <3>3
  <2> HIDE DEF U
  <2>8. Sums(U, w, m)
    BY <2>5, <2>6, <2>7 DEF Sums
  <2> QED BY <2>8 DEF m
<1> HIDE DEF S
<1>4. Nat \subseteq S
  BY <1>2, <1>3, Induction
<1>5. Len(w) \in S
  BY <1>1, <1>4
<1> QED BY <1>1, <1>5 DEF S

\* The sum of the community modules is the one of all indices.
LEMMA SumOfAll ==
  ASSUME NEW w \in Seq(Nat), NEW T, Sums(T, w, Len(w))
  PROVE  SumFunction(w) = T[1..Len(w)]
<1> DEFINE D == 1..Len(w)
           pick(s) == CHOOSE x \in s : TRUE
           Rec(f) == f = [s \in SUBSET D |-> IF s = {} THEN 0 ELSE w[pick(s)] + f[s \ {pick(s)}]]
           it == CHOOSE f : Rec(f)
<1>1. Len(w) \in Nat /\ DOMAIN w = D
  BY LenProperties
<1>2. SumFunction(w) = it[D]
  BY <1>1 DEF SumFunction, SumFunctionOnSet, FoldFunctionOnSet, MapThenFoldSet
<1>3. \A s \in SUBSET D : s # {} => pick(s) \in s
  OBVIOUS
<1> HIDE DEF pick
<1>4. Rec(T)
  <2> DEFINE g == [s \in SUBSET D |-> IF s = {} THEN 0 ELSE w[pick(s)] + T[s \ {pick(s)}]]
  <2>1. \A s \in SUBSET D : T[s] = IF s = {} THEN 0 ELSE w[pick(s)] + T[s \ {pick(s)}]
    BY <1>3 DEF Sums
  <2>2. T = [s \in SUBSET D |-> T[s]]
    BY DEF Sums
  <2>3. T = g
    BY <2>1, <2>2
  <2> QED BY <2>3
<1> HIDE DEF Rec
<1>5. Rec(it)
  BY <1>4, Zenon
<1>6. \A s \in SUBSET D : it[s] = IF s = {} THEN 0 ELSE w[pick(s)] + it[s \ {pick(s)}]
  BY <1>5 DEF Rec
<1> HIDE DEF it
<1> DEFINE S == {n \in Nat : \A s \in SUBSET D : Cardinality(s) = n => it[s] = T[s]}
<1>7. \A s \in SUBSET D : IsFiniteSet(s)
  <2>1. IsFiniteSet(D)
    BY <1>1, FS_Interval
  <2> QED BY <2>1, FS_Subset
<1>8. 0 \in S
  <2>1. \A s \in SUBSET D : Cardinality(s) = 0 => s = {}
    BY <1>7, FS_EmptySet
  <2> QED BY <1>6, <2>1 DEF Sums
<1>9. ASSUME NEW n \in Nat, n \in S PROVE n + 1 \in S
  <2>1. SUFFICES ASSUME NEW s \in SUBSET D, Cardinality(s) = n + 1 PROVE it[s] = T[s]
    OBVIOUS
  <2>2. s # {}
    <3>1. Cardinality({}) = 0
      BY FS_EmptySet
    <3>2. n + 1 # 0
      OBVIOUS
    <3> HIDE DEF S
    <3> QED BY <2>1, <3>1, <3>2
  <2>3. pick(s) \in s /\ s \ {pick(s)} \in SUBSET D
    BY <1>3, <2>2
  <2>4. Cardinality(s \ {pick(s)}) = n
    BY <1>7, <1>9, <2>1, <2>3, FS_RemoveElement, FS_CardinalityType
  <2>5. it[s \ {pick(s)}] = T[s \ {pick(s)}]
    BY <1>9, <2>3, <2>4
  <2>6. T[s] = w[pick(s)] + T[s \ {pick(s)}]
    BY <2>3 DEF Sums
  <2> QED BY <1>6, <2>2, <2>5, <2>6
<1> HIDE DEF S
<1>10. Nat \subseteq S
  BY <1>8, <1>9, Induction
<1>11. D \in SUBSET D /\ Cardinality(D) \in Nat
  BY <1>7, FS_CardinalityType
<1>12. it[D] = T[D]
  <2>1. Cardinality(D) \in S
    BY <1>10, <1>11
  <2> QED BY <1>11, <2>1 DEF S
<1> QED BY <1>2, <1>12

\* The sum is the last of the prefix sums.
LEMMA SumByPrefixes ==
  ASSUME NEW w \in Seq(Nat)
  PROVE  \E P : PrefixSums(P, w) /\ SumFunction(w) = P[Len(w)]
<1>1. PICK T : Sums(T, w, Len(w))
  BY SumsExist
<1> DEFINE n == Len(w)
           P == [k \in 0..n |-> T[1..k]]
<1>2. n \in Nat
  BY LenProperties
<1>3. \A k \in 0..n : 1..k \in SUBSET (1..n)
  BY <1>2
<1> HIDE DEF n
<1>4. P \in [0..n -> Nat]
  BY <1>1, <1>3 DEF Sums, n
<1>5. P[0] = 0
  <2>1. 1..0 = {} /\ 0 \in 0..n
    BY <1>2
  <2> QED BY <1>1, <2>1 DEF Sums
<1>6. ASSUME NEW k \in 1..n PROVE P[k] = P[k - 1] + w[k]
  <2>1. k \in 0..n /\ k - 1 \in 0..n /\ k \in 1..k /\ 1..(k - 1) = (1..k) \ {k}
    BY <1>2
  <2>2. T[1..k] = w[k] + T[1..(k - 1)]
    <3>1. 1..k \in SUBSET (1..n) /\ k \in 1..k
      BY <1>3, <2>1
    <3>2. T[1..k] = w[k] + T[(1..k) \ {k}]
      BY <1>1, <3>1 DEF Sums, n
    <3> QED BY <2>1, <3>2
  <2>3. T[1..(k - 1)] \in Nat /\ w[k] \in Nat
    BY <1>1, <1>3, <2>1, ElementOfSeq DEF Sums, n
  <2> QED BY <2>1, <2>2, <2>3
<1>7. SumFunction(w) = P[n]
  <2>1. n \in 0..n
    BY <1>2
  <2> QED BY <1>1, <2>1, SumOfAll DEF n
<1> QED BY <1>4, <1>5, <1>6, <1>7 DEF PrefixSums, n

LEMMA PrefixesGiveSum ==
  ASSUME NEW w \in Seq(Nat), NEW P, PrefixSums(P, w)
  PROVE  SumFunction(w) = P[Len(w)] /\ SumFunction(w) \in Nat
<1>1. PICK Q : PrefixSums(Q, w) /\ SumFunction(w) = Q[Len(w)]
  BY SumByPrefixes
<1>2. Len(w) \in Nat
  BY LenProperties
<1> DEFINE S == {n \in Nat : n <= Len(w) => P[n] = Q[n]}
<1>3. 0 \in S
  BY <1>1 DEF PrefixSums
<1>4. ASSUME NEW n \in Nat, n \in S PROVE n + 1 \in S
  <2>1. SUFFICES ASSUME n + 1 <= Len(w) PROVE P[n + 1] = Q[n + 1]
    OBVIOUS
  <2>2. n + 1 \in 1..Len(w) /\ (n + 1) - 1 = n
    BY <1>2, <2>1
  <2>3. P[n + 1] = P[n] + w[n + 1] /\ Q[n + 1] = Q[n] + w[n + 1]
    BY <1>1, <2>2 DEF PrefixSums
  <2>4. P[n] = Q[n]
    BY <1>2, <1>4, <2>1
  <2> QED BY <2>3, <2>4
<1> HIDE DEF S
<1>5. Len(w) \in S
  BY <1>2, <1>3, <1>4, Induction
<1> QED BY <1>1, <1>2, <1>5 DEF S, PrefixSums

LEMMA SumOfAppend ==
  ASSUME NEW w \in Seq(Nat), NEW x \in Nat
  PROVE  SumFunction(Append(w, x)) = SumFunction(w) + x
<1>1. PICK P : PrefixSums(P, w) /\ SumFunction(w) = P[Len(w)]
  BY SumByPrefixes
<1> DEFINE n == Len(w)
           v == Append(w, x)
           Q == [k \in 0..(n + 1) |-> IF k = n + 1 THEN P[n] + x ELSE P[k]]
<1>2. /\ n \in Nat /\ v \in Seq(Nat) /\ Len(v) = n + 1 /\ v[n + 1] = x
      /\ \A k \in 1..n : v[k] = w[k]
  BY AppendProperties, LenProperties
<1>3. P \in [0..n -> Nat] /\ P[0] = 0 /\ \A k \in 1..n : P[k] = P[k - 1] + w[k]
  BY <1>1 DEF PrefixSums
<1> HIDE DEF n, v
<1>4. Q \in [0..(n + 1) -> Nat] /\ Q[0] = 0 /\ Q[n + 1] = P[n] + x
  BY <1>2, <1>3
<1>5. ASSUME NEW k \in 1..(n + 1) PROVE Q[k] = Q[k - 1] + v[k]
  <2>1. CASE k = n + 1
    BY <1>2, <1>3, <2>1
  <2>2. CASE k # n + 1
    BY <1>2, <1>3, <2>2
  <2> QED BY <2>1, <2>2
<1> HIDE DEF Q
<1>6. PrefixSums(Q, v)
  BY <1>2, <1>4, <1>5 DEF PrefixSums
<1>7. SumFunction(v) = Q[n + 1]
  BY <1>2, <1>6, PrefixesGiveSum
<1> QED BY <1>1, <1>4, <1>7 DEF n, v

LEMMA SumOfRest ==
  ASSUME NEW w \in Seq(Nat), NEW i \in 1..Len(w),
         NEW v \in Seq(Nat), Len(v) = Len(w) - 1,
         \A k \in 1..Len(v) : v[k] = IF k <= i - 1 THEN w[k] ELSE w[k + 1]
  PROVE  SumFunction(w) = SumFunction(v) + w[i]
<1>1. PICK P : PrefixSums(P, v) /\ SumFunction(v) = P[Len(v)]
  BY SumByPrefixes
<1> DEFINE n == Len(v)
           Q == [k \in 0..(n + 1) |-> IF k <= i - 1 THEN P[k] ELSE P[k - 1] + w[i]]
<1>2. n \in Nat /\ Len(w) = n + 1 /\ i \in 1..(n + 1) /\ w[i] \in Nat
  BY LenProperties, ElementOfSeq
<1>3. P \in [0..n -> Nat] /\ P[0] = 0 /\ \A k \in 1..n : P[k] = P[k - 1] + v[k]
  BY <1>1 DEF PrefixSums
<1>4. \A k \in 1..n : v[k] = IF k <= i - 1 THEN w[k] ELSE w[k + 1]
  OBVIOUS
<1> HIDE DEF n
<1>5. Q \in [0..(n + 1) -> Nat] /\ Q[0] = 0 /\ Q[n + 1] = P[n] + w[i]
  BY <1>2, <1>3
<1>6. ASSUME NEW k \in 1..(n + 1) PROVE Q[k] = Q[k - 1] + w[k]
  <2>1. CASE k <= i - 1
    BY <1>2, <1>3, <1>4, <2>1
  <2>2. CASE k = i
    BY <1>2, <1>3, <1>4, <2>2
  <2>3. CASE k > i
    <3>1. k - 1 \in 1..n /\ k - 2 \in 0..n /\ ~(k - 1 <= i - 1) /\ ~(k <= i - 1) /\ k - 1 + 1 = k
      BY <1>2, <2>3
    <3>2. Q[k] = P[k - 1] + w[i] /\ Q[k - 1] = P[k - 2] + w[i]
      BY <1>2, <3>1
    <3>3. v[k - 1] = w[k] /\ P[k - 1] = P[k - 2] + v[k - 1]
      BY <1>3, <1>4, <3>1
    <3>4. w[k] \in Nat
      BY <1>2, ElementOfSeq
    <3>5. P[k - 2] \in Nat
      BY <1>3, <3>1
    <3>6. k - 1 \in 0..(n + 1) /\ k \in 0..(n + 1)
      BY <1>2
    <3> HIDE DEF Q
    <3> QED BY <1>2, <3>2, <3>3, <3>4, <3>5
  <2> QED BY <1>2, <2>1, <2>2, <2>3
<1> HIDE DEF Q
<1>7. PrefixSums(Q, w)
  BY <1>2, <1>5, <1>6 DEF PrefixSums
<1>8. SumFunction(w) = Q[n + 1]
  BY <1>2, <1>7, PrefixesGiveSum
<1> QED BY <1>1, <1>5, <1>8 DEF n

-----------------------------------------------------------------------------
(* The tokens of the files that wait. *)

Weights(attachments) == [i \in DOMAIN attachments |-> attachments[i].tokens]

LEMMA WeightsType ==
  ASSUME NEW s \in Seq(Attachment)
  PROVE  /\ Weights(s) \in Seq(Nat) /\ Len(Weights(s)) = Len(s) /\ Len(s) \in Nat
         /\ \A i \in 1..Len(s) : Weights(s)[i] = s[i].tokens
         /\ Total(s) = SumFunction(Weights(s))
<1>1. Len(s) \in Nat /\ DOMAIN s = 1..Len(s)
  BY LenProperties
<1>2. \A i \in 1..Len(s) : s[i] \in Attachment
  BY ElementOfSeq
<1>3. \A i \in 1..Len(s) : s[i].tokens \in Nat
  BY <1>2 DEF Attachment
<1>4. Weights(s) \in [1..Len(s) -> Nat]
  BY <1>1, <1>3 DEF Weights
<1>5. Weights(s) \in Seq(Nat)
  BY <1>1, <1>4
<1>6. Len(Weights(s)) = Len(s)
  BY <1>1, <1>4, <1>5, LenProperties
<1> QED BY <1>1, <1>5, <1>6 DEF Total, Weights

LEMMA TotalType ==
  ASSUME NEW s \in Seq(Attachment)
  PROVE  Total(s) \in Nat
<1>1. PICK P : PrefixSums(P, Weights(s))
  BY WeightsType, SumByPrefixes
<1> QED BY <1>1, WeightsType, PrefixesGiveSum

LEMMA TotalOfNone == Total(<<>>) = 0
<1> DEFINE w == Weights(<<>>)
           P == [k \in 0..0 |-> 0]
<1>1. w \in Seq(Nat) /\ Len(w) = 0 /\ Total(<<>>) = SumFunction(w)
  <2>1. <<>> \in Seq(Attachment) /\ Len(<<>>) = 0
    OBVIOUS
  <2> QED BY <2>1, WeightsType
<1> HIDE DEF w
<1>2. PrefixSums(P, w)
  BY <1>1 DEF PrefixSums
<1>3. SumFunction(w) = P[Len(w)]
  BY <1>1, <1>2, PrefixesGiveSum
<1> QED BY <1>1, <1>3

\* One more file adds its tokens.
LEMMA TotalOfMore ==
  ASSUME NEW s \in Seq(Attachment), NEW a \in Attachment
  PROVE  Total(Append(s, a)) = Total(s) + a.tokens
<1> DEFINE t == Append(s, a)
           v == Append(Weights(s), a.tokens)
<1>1. a.tokens \in Nat
  BY DEF Attachment
<1>2. /\ t \in Seq(Attachment) /\ Len(t) = Len(s) + 1 /\ t[Len(s) + 1] = a
      /\ \A i \in 1..Len(s) : t[i] = s[i]
  BY AppendProperties
<1>3. /\ v \in Seq(Nat) /\ Len(v) = Len(s) + 1 /\ v[Len(s) + 1] = a.tokens
      /\ \A i \in 1..Len(s) : v[i] = Weights(s)[i]
  BY <1>1, WeightsType, AppendProperties
<1> HIDE DEF t, v
<1>4. /\ Weights(t) \in Seq(Nat) /\ Len(Weights(t)) = Len(s) + 1
      /\ \A i \in 1..(Len(s) + 1) : Weights(t)[i] = t[i].tokens
  BY <1>2, WeightsType
<1>5. \A i \in 1..(Len(s) + 1) : Weights(t)[i] = v[i]
  <2>1. Len(s) \in Nat /\ \A i \in 1..Len(s) : Weights(s)[i] = s[i].tokens
    BY WeightsType
  <2>2. ASSUME NEW i \in 1..Len(s) PROVE Weights(t)[i] = v[i]
    <3>1. i \in 1..(Len(s) + 1)
      BY <2>1
    <3>2. Weights(t)[i] = t[i].tokens
      BY <1>4, <3>1
    <3> QED BY <1>2, <1>3, <2>1, <3>2
  <2>3. Weights(t)[Len(s) + 1] = v[Len(s) + 1]
    BY <1>2, <1>3, <1>4, <2>1
  <2>4. \A i \in 1..(Len(s) + 1) : i \in 1..Len(s) \/ i = Len(s) + 1
    BY <2>1
  <2> QED BY <2>2, <2>3, <2>4
<1>6. Weights(t) = v
  BY <1>3, <1>4, <1>5, SeqEqual
<1>7. SumFunction(v) = SumFunction(Weights(s)) + a.tokens
  BY <1>1, WeightsType, SumOfAppend DEF v
<1> QED BY <1>2, <1>6, <1>7, WeightsType DEF t

\* One file less takes its tokens away.
LEMMA TotalOfRest ==
  ASSUME NEW s \in Seq(Attachment), NEW i \in 1..Len(s), NEW t \in Seq(Attachment),
         Len(t) = Len(s) - 1,
         \A k \in 1..Len(t) : t[k] = IF k <= i - 1 THEN s[k] ELSE s[k + 1]
  PROVE  Total(s) = Total(t) + s[i].tokens
<1>1. /\ Weights(s) \in Seq(Nat) /\ Len(Weights(s)) = Len(s) /\ Len(s) \in Nat
      /\ \A k \in 1..Len(s) : Weights(s)[k] = s[k].tokens
  BY WeightsType
<1>2. /\ Weights(t) \in Seq(Nat) /\ Len(Weights(t)) = Len(t) /\ Len(t) \in Nat
      /\ \A k \in 1..Len(t) : Weights(t)[k] = t[k].tokens
  BY WeightsType
<1>3. \A k \in 1..Len(t) :
        Weights(t)[k] = IF k <= i - 1 THEN Weights(s)[k] ELSE Weights(s)[k + 1]
  <2>1. ASSUME NEW k \in 1..Len(t), k <= i - 1 PROVE Weights(t)[k] = Weights(s)[k]
    <3>1. t[k] = s[k]
      BY <2>1
    <3>2. k \in 1..Len(s)
      BY <1>1, <1>2
    <3> QED BY <1>1, <1>2, <3>1, <3>2
  <2>2. ASSUME NEW k \in 1..Len(t), ~(k <= i - 1) PROVE Weights(t)[k] = Weights(s)[k + 1]
    <3>1. t[k] = s[k + 1]
      BY <2>2
    <3>2. k + 1 \in 1..Len(s)
      BY <1>1, <1>2
    <3> QED BY <1>1, <1>2, <3>1, <3>2
  <2> QED BY <2>1, <2>2
<1>4. SumFunction(Weights(s)) = SumFunction(Weights(t)) + Weights(s)[i]
  BY <1>1, <1>2, <1>3, SumOfRest
<1> QED BY <1>1, <1>4, WeightsType

-----------------------------------------------------------------------------
(* Values the actions build. *)

LEMMA EmptyGallery == <<>> \in Gallery /\ DOMAIN <<>> = {}
<1>1. <<>> \in [{} -> Picture] /\ {} \in SUBSET (1..MaxCount)
  OBVIOUS
<1>2. [{} -> Picture] \in {[places -> Picture] : places \in SUBSET (1..MaxCount)}
  BY <1>1
<1> QED BY <1>1, <1>2 DEF Gallery

LEMMA PicturesType ==
  ASSUME TypeOK, BudgetKept, NEW p \in Prompt
  PROVE  /\ Pictures(p) \in Gallery
         /\ \A i \in DOMAIN Pictures(p) : Pictures(p)[i].prompt = p
<1> DEFINE places == {j \in DOMAIN pending : pending[j].type = "image" /\ disk[pending[j].file] # Gone}
           picture(i) == [prompt |-> p, file |-> pending[i].file, content |-> disk[pending[i].file]]
<1>1. pending \in Seq(Attachment) /\ Len(pending) \in Nat /\ DOMAIN pending = 1..Len(pending)
  BY LenProperties DEF TypeOK
<1>2. MaxCount \in Nat /\ Len(pending) <= MaxCount
  BY LimitAssumption DEF BudgetKept
<1>3. places \subseteq 1..MaxCount
  BY <1>1, <1>2
<1>4. ASSUME NEW i \in places PROVE picture(i) \in Picture
  <2>1. pending[i] \in Attachment
    BY <1>1, ElementOfSeq
  <2>2. pending[i].file \in File /\ disk[pending[i].file] # Gone
    BY <2>1 DEF Attachment
  <2>3. disk[pending[i].file] \in Content
    BY <2>2 DEF TypeOK
  <2> QED BY <2>2, <2>3 DEF Picture
<1>5. Pictures(p) = [i \in places |-> picture(i)]
  BY DEF Pictures
<1>6. \A i \in places : picture(i).prompt = p
  OBVIOUS
<1> HIDE DEF places, picture
<1>7. Pictures(p) \in [places -> Picture]
  BY <1>4, <1>5
<1>8. [places -> Picture] \in {[s -> Picture] : s \in SUBSET (1..MaxCount)}
  BY <1>3
<1>9. Pictures(p) \in Gallery
  BY <1>7, <1>8 DEF Gallery
<1> QED BY <1>5, <1>6, <1>9

\* The tray after it was rebuilt names the files that wait.
LEMMA TrayType ==
  ASSUME pending' \in Seq(Attachment), RefreshTray
  PROVE  chips' \in Seq(File) /\ chips' = [i \in DOMAIN pending' |-> pending'[i].file]
<1>1. Len(pending') \in Nat /\ DOMAIN pending' = 1..Len(pending')
  BY LenProperties
<1>2. \A i \in 1..Len(pending') : pending'[i].file \in File
  <2>1. \A i \in 1..Len(pending') : pending'[i] \in Attachment
    BY <1>1, ElementOfSeq
  <2> QED BY <2>1 DEF Attachment
<1>3. chips' = [i \in 1..Len(pending') |-> pending'[i].file]
  BY <1>1 DEF RefreshTray
<1>4. chips' \in [1..Len(pending') -> File]
  BY <1>2, <1>3
<1>5. chips' \in Seq(File)
  BY <1>1, <1>4
<1> QED BY <1>5 DEF RefreshTray

\* Images that are there show which prompt they were staged for.
LEMMA GalleryHasPictures ==
  ASSUME NEW g \in Gallery, g # <<>>
  PROVE  \E i \in DOMAIN g : TRUE
<1>1. PICK places \in SUBSET (1..MaxCount) : g \in [places -> Picture]
  BY DEF Gallery
<1>2. SUFFICES ASSUME DOMAIN g = {} PROVE FALSE
  OBVIOUS
<1>3. g \in [{} -> Picture] /\ <<>> \in [{} -> Picture]
  BY <1>1, <1>2
<1> QED BY <1>3

\* An accepted file is put last.
LEMMA QueuedLast ==
  ASSUME TypeOK, BudgetKept, NEW f \in File, Acceptable(f), Queue(f)
  PROVE  pending' \in Seq(Attachment) /\ BudgetKept'
<1> DEFINE a == [file |-> f, type |-> Type(f), size |-> disk[f].size,
                 text |-> IF f \in Image THEN 0 ELSE disk[f].chars, tokens |-> Estimate(f)]
<1>1. disk[f] \in Content /\ disk[f].size \in Nat /\ disk[f].chars \in Nat
  BY ContentAssumption DEF TypeOK, Acceptable
<1>2. Estimate(f) \in Nat
  <2>1. \A n \in Nat, d \in Nat \ {0} : n \div d \in Nat
    OBVIOUS
  <2> QED BY <1>1, <2>1, LimitAssumption DEF Estimate
<1>3. a \in Attachment
  BY <1>1, <1>2 DEF Attachment, Type
<1>4. /\ a.file = f /\ a.size = disk[f].size /\ a.tokens = Estimate(f)
      /\ f \in Image => a.size <= MaxImageSize
  BY DEF Acceptable
<1>5. pending' = Append(pending, a) /\ pending \in Seq(Attachment)
  BY DEF Queue, TypeOK
<1> HIDE DEF a
<1>6. /\ pending' \in Seq(Attachment) /\ Len(pending') = Len(pending) + 1 /\ Len(pending) \in Nat
      /\ DOMAIN pending = 1..Len(pending) /\ DOMAIN pending' = 1..Len(pending')
      /\ \A i \in 1..Len(pending) : pending'[i] = pending[i]
      /\ pending'[Len(pending) + 1] = a
  BY <1>3, <1>5, AppendProperties, LenProperties
<1>7. Len(pending') <= MaxCount
  BY <1>6, LimitAssumption DEF Acceptable
<1>8. ASSUME NEW i \in DOMAIN pending'
      PROVE  pending'[i].file \in Image => pending'[i].size <= MaxImageSize
  <2>1. i \in DOMAIN pending \/ i = Len(pending) + 1
    BY <1>6
  <2>2. CASE i \in DOMAIN pending
    BY <1>6, <2>2 DEF BudgetKept
  <2>3. CASE i = Len(pending) + 1
    BY <1>4, <1>6, <2>3
  <2> QED BY <2>1, <2>2, <2>3
<1>9. Total(pending') <= MaxTokens
  <2>1. Total(pending') = Total(pending) + a.tokens
    BY <1>3, <1>5, TotalOfMore
  <2>2. Total(pending) + Estimate(f) <= MaxTokens
    BY DEF Acceptable
  <2> QED BY <1>4, <2>1, <2>2
<1> QED BY <1>6, <1>7, <1>8, <1>9 DEF BudgetKept

\* Removing an attachment leaves the others as they were.
LEMMA RemovedKeeps ==
  ASSUME TypeOK, BudgetKept, NEW i \in DOMAIN pending, pending' = RemoveAt(pending, i)
  PROVE  pending' \in Seq(Attachment) /\ BudgetKept'
<1> DEFINE n == Len(pending)
           front == SubSeq(pending, 1, i - 1)
           back == SubSeq(pending, i + 1, n)
<1>1. pending \in Seq(Attachment) /\ n \in Nat /\ DOMAIN pending = 1..n /\ i \in 1..n
  BY LenProperties DEF TypeOK
<1>2. \A j \in 1..n : pending[j] \in Attachment
  BY <1>1, ElementOfSeq
<1> HIDE DEF n
<1>3. /\ front \in Seq(Attachment) /\ Len(front) = i - 1
      /\ \A j \in 1..(i - 1) : front[j] = pending[j]
  BY <1>1, <1>2, SubSeqProperties
<1>4. /\ back \in Seq(Attachment) /\ Len(back) = n - i
      /\ \A j \in 1..(n - i) : back[j] = pending[i + j]
  BY <1>1, <1>2, SubSeqProperties
<1>5. pending' = front \o back
  BY DEF RemoveAt, n
<1> HIDE DEF front, back
<1>6. /\ pending' \in Seq(Attachment) /\ Len(pending') = n - 1 /\ DOMAIN pending' = 1..(n - 1)
      /\ \A j \in 1..(n - 1) : pending'[j] = IF j <= i - 1 THEN front[j] ELSE back[j - (i - 1)]
  <2>1. /\ pending' \in Seq(Attachment) /\ Len(pending') = Len(front) + Len(back)
        /\ \A j \in 1..(Len(front) + Len(back)) :
              pending'[j] = IF j <= Len(front) THEN front[j] ELSE back[j - Len(front)]
    <3>1. front \in Seq(Attachment) /\ back \in Seq(Attachment)
      BY <1>3, <1>4
    <3>2. /\ front \o back \in Seq(Attachment) /\ Len(front \o back) = Len(front) + Len(back)
          /\ \A j \in 1..(Len(front) + Len(back)) :
                (front \o back)[j] = IF j <= Len(front) THEN front[j] ELSE back[j - Len(front)]
      BY <3>1, ConcatProperties
    <3> QED BY <1>5, <3>2
  <2>2. Len(front) + Len(back) = n - 1 /\ Len(front) = i - 1
    BY <1>1, <1>3, <1>4
  <2>3. DOMAIN pending' = 1..Len(pending')
    BY <2>1, LenProperties
  <2> QED BY <2>1, <2>2, <2>3
<1>7. \A j \in 1..(n - 1) : \E k \in 1..n : pending'[j] = pending[k]
  <2>1. ASSUME NEW j \in 1..(n - 1), j <= i - 1 PROVE j \in 1..n /\ pending'[j] = pending[j]
    BY <1>1, <1>3, <1>6, <2>1
  <2>2. ASSUME NEW j \in 1..(n - 1), ~(j <= i - 1)
        PROVE  j + 1 \in 1..n /\ pending'[j] = pending[j + 1]
    <3> DEFINE k == j - (i - 1)
    <3>1. k \in 1..(n - i) /\ i + k = j + 1 /\ j + 1 \in 1..n
      BY <1>1, <2>2
    <3>2. pending'[j] = back[k]
      BY <1>6, <2>2
    <3> HIDE DEF k
    <3>3. back[k] = pending[i + k]
      BY <1>4, <3>1
    <3> QED BY <3>1, <3>2, <3>3
  <2> QED BY <2>1, <2>2
<1>8. n - 1 <= MaxCount
  BY <1>1, LimitAssumption DEF BudgetKept, n
<1>9. Total(pending') <= MaxTokens
  <2>1. ASSUME NEW j \in 1..(n - 1)
        PROVE  pending'[j] = IF j <= i - 1 THEN pending[j] ELSE pending[j + 1]
    <3>1. CASE j <= i - 1
      BY <1>1, <1>3, <1>6, <3>1
    <3>2. CASE ~(j <= i - 1)
      <4> DEFINE k == j - (i - 1)
      <4>1. k \in 1..(n - i) /\ i + k = j + 1 /\ pending'[j] = back[k]
        BY <1>1, <1>6, <3>2
      <4> HIDE DEF k
      <4>2. back[k] = pending[i + k]
        BY <1>4, <4>1
      <4> QED BY <3>2, <4>1, <4>2
    <3> QED BY <3>1, <3>2
  <2>2. Total(pending) = Total(pending') + pending[i].tokens
    BY <1>1, <1>6, <2>1, TotalOfRest DEF n
  <2>3. Total(pending) <= MaxTokens /\ pending[i].tokens \in Nat
    BY <1>1, <1>2 DEF BudgetKept, Attachment
  <2>4. Total(pending') \in Nat
    BY <1>6, TotalType
  <2> QED BY <2>2, <2>3, <2>4, LimitAssumption
<1> QED BY <1>1, <1>6, <1>7, <1>8, <1>9 DEF BudgetKept

-----------------------------------------------------------------------------
(* One lemma for each operation. *)

LEMMA SelectStep ==
  ASSUME Inductive, NEW files \in BoundedSeq(File, MaxSelected), Select(files)
  PROVE  Inductive'
<1>1. files \in Seq(File)
  <2>1. PICK m \in 0..MaxSelected : files \in [1..m -> File]
    BY DEF BoundedSeq, SeqOf
  <2> QED BY <2>1, LimitAssumption
<1>2. TypeOK'
  BY <1>1 DEF Inductive, TypeOK, Select, tray
<1>3. ChipRemovesItsFile'
  BY DEF Select, ChipRemovesItsFile
<1> QED BY <1>2, <1>3 DEF Inductive, Select, tray, BudgetKept, StagedUnderItsName,
                          TransitUntaken, ImagesOfOnePrompt

LEMMA AnalyzeStep ==
  ASSUME Inductive, Analyze
  PROVE  Inductive'
<1>1. Head(selection) \in File /\ selection' \in Seq(File)
  BY HeadTailProperties, ElementOfSeq DEF Inductive, TypeOK, Analyze
<1>2. pending' \in Seq(Attachment) /\ BudgetKept'
  <2>1. CASE Acceptable(Head(selection)) /\ Queue(Head(selection))
    BY <1>1, <2>1, QueuedLast DEF Inductive
  <2>2. CASE UNCHANGED pending
    BY <2>2 DEF Inductive, TypeOK, BudgetKept
  <2> QED BY <2>1, <2>2 DEF Analyze
<1>3. chips' \in Seq(File) /\ ChipRemovesItsFile'
  <2>1. CASE selection' = <<>>
    <3>1. RefreshTray
      BY <2>1 DEF Analyze
    <3> QED BY <1>2, <3>1, TrayType DEF ChipRemovesItsFile
  <2>2. CASE selection' # <<>>
    BY <2>2 DEF Analyze, Inductive, TypeOK, ChipRemovesItsFile
  <2> QED BY <2>1, <2>2
<1>4. TypeOK'
  BY <1>1, <1>2, <1>3 DEF Inductive, TypeOK, Analyze
<1> QED BY <1>2, <1>3, <1>4 DEF Inductive, Analyze, StagedUnderItsName, TransitUntaken,
                                ImagesOfOnePrompt

LEMMA RemoveStep ==
  ASSUME Inductive, NEW i, RemoveByIndex(i)
  PROVE  Inductive'
<1>1. i \in DOMAIN pending
  BY DEF RemoveByIndex, Inductive, ChipRemovesItsFile
<1>2. pending' = RemoveAt(pending, i) /\ RefreshTray
  BY <1>1 DEF RemoveByIndex
<1>3. pending' \in Seq(Attachment) /\ BudgetKept'
  BY <1>1, <1>2, RemovedKeeps DEF Inductive
<1>4. chips' \in Seq(File) /\ ChipRemovesItsFile'
  BY <1>2, <1>3, TrayType DEF ChipRemovesItsFile
<1>5. TypeOK'
  BY <1>3, <1>4 DEF Inductive, TypeOK, RemoveByIndex
<1> QED BY <1>3, <1>4, <1>5 DEF Inductive, RemoveByIndex, StagedUnderItsName, TransitUntaken,
                                ImagesOfOnePrompt

LEMMA SendStep ==
  ASSUME Inductive, NEW p \in Prompt, NEW typed \in BOOLEAN, Send(p, typed)
  PROVE  Inductive'
<1> DEFINE images == Pictures(p)
<1>1. images \in Gallery /\ \A i \in DOMAIN images : images[i].prompt = p
  BY PicturesType DEF Inductive
<1>2. /\ p \notin DOMAIN staged /\ DOMAIN staged' = DOMAIN staged \cup {p}
      /\ staged'[p] = images /\ \A q \in DOMAIN staged : staged'[q] = staged[q]
      /\ \/ images # <<>> /\ transit' = images
         \/ images = <<>> /\ transit' = transit
  BY DEF Send, SetPendingImages
<1>3. pending' = <<>> /\ RefreshTray
  BY DEF Send
<1>4. pending' \in Seq(Attachment) /\ BudgetKept'
  BY <1>3, LimitAssumption, TotalOfNone DEF BudgetKept
<1>5. chips' \in Seq(File) /\ ChipRemovesItsFile'
  BY <1>3, <1>4, TrayType DEF ChipRemovesItsFile
<1>6. queued' \in Seq([prompt : Prompt, empty : BOOLEAN])
  <2> DEFINE e == [prompt |-> p, empty |-> EmptyPrompt(typed)]
  <2>1. EmptyPrompt(typed) \in BOOLEAN
    BY DEF EmptyPrompt
  <2>2. e \in [prompt : Prompt, empty : BOOLEAN]
    BY <2>1
  <2>3. queued \in Seq([prompt : Prompt, empty : BOOLEAN]) /\ queued' = Append(queued, e)
    BY DEF Inductive, TypeOK, Send
  <2> HIDE DEF e
  <2> QED BY <2>2, <2>3, AppendProperties
<1> HIDE DEF images
<1>7. TypeOK'
  <2>1. transit' \in Gallery /\ \A q \in DOMAIN staged' : staged'[q] \in Gallery
    BY <1>1, <1>2 DEF Inductive, TypeOK
  <2> QED BY <1>2, <1>4, <1>5, <1>6, <2>1 DEF Inductive, TypeOK, Send
<1>8. StagedUnderItsName'
  BY <1>1, <1>2 DEF Inductive, StagedUnderItsName
<1>9. requests' = requests /\ ImagesOfOnePrompt'
  BY <1>2 DEF Inductive, ImagesOfOnePrompt, Send
<1>10. TransitUntaken'
  <2>1. CASE images = <<>>
    BY <1>2, <1>9, <2>1 DEF Inductive, TransitUntaken
  <2>2. CASE images # <<>>
    <3>1. PICK i \in DOMAIN images : images[i].prompt = p
      BY <1>1, <2>2, GalleryHasPictures
    <3>2. ASSUME NEW j \in DOMAIN requests, requests[j].images = images PROVE FALSE
      <4>1. PICK q \in DOMAIN staged : requests[j].images = staged[q]
        BY <2>2, <3>2 DEF Inductive, ImagesOfOnePrompt
      <4>2. staged[q][i].prompt = q
        BY <3>1, <3>2, <4>1 DEF Inductive, StagedUnderItsName
      <4> QED BY <1>2, <3>1, <3>2, <4>1, <4>2
    <3> QED BY <1>2, <1>9, <2>2, <3>2 DEF TransitUntaken
  <2> QED BY <2>1, <2>2
<1> QED BY <1>4, <1>5, <1>7, <1>8, <1>9, <1>10 DEF Inductive

LEMMA HandlePromptStep ==
  ASSUME Inductive, HandlePrompt
  PROVE  Inductive'
<1>1. /\ Head(queued) \in [prompt : Prompt, empty : BOOLEAN]
      /\ queued' \in Seq([prompt : Prompt, empty : BOOLEAN])
  BY HeadTailProperties, ElementOfSeq DEF Inductive, TypeOK, HandlePrompt
<1>2. CASE UNCHANGED <<requests, transit>>
  <2>1. TypeOK'
    BY <1>1, <1>2 DEF Inductive, TypeOK, HandlePrompt, tray
  <2> QED BY <1>2, <2>1 DEF Inductive, HandlePrompt, tray, BudgetKept, ChipRemovesItsFile,
                           StagedUnderItsName, TransitUntaken, ImagesOfOnePrompt
<1>3. CASE /\ requests' = Append(requests, [prompt |-> Head(queued).prompt, images |-> transit])
           /\ MovePendingImages
  <2> DEFINE r == [prompt |-> Head(queued).prompt, images |-> transit]
  <2>1. r \in [prompt : Prompt, images : Gallery] /\ r.images = transit
    BY <1>1 DEF Inductive, TypeOK
  <2>2. requests' = Append(requests, r) /\ requests \in Seq([prompt : Prompt, images : Gallery])
    BY <1>3 DEF Inductive, TypeOK
  <2> HIDE DEF r
  <2>3. /\ requests' \in Seq([prompt : Prompt, images : Gallery])
        /\ \A i \in DOMAIN requests : i \in DOMAIN requests' /\ requests'[i] = requests[i]
        /\ \A i \in DOMAIN requests' : i \in DOMAIN requests \/ requests'[i] = r
        /\ \A i, j \in DOMAIN requests' :
              i \notin DOMAIN requests /\ j \notin DOMAIN requests => i = j
    <3>1. /\ requests' \in Seq([prompt : Prompt, images : Gallery])
          /\ Len(requests') = Len(requests) + 1 /\ Len(requests) \in Nat
          /\ DOMAIN requests = 1..Len(requests) /\ DOMAIN requests' = 1..Len(requests')
          /\ \A i \in 1..Len(requests) : requests'[i] = requests[i]
          /\ requests'[Len(requests) + 1] = r
      BY <2>1, <2>2, AppendProperties, LenProperties
    <3> QED BY <3>1
  <2>4. transit' = <<>> /\ staged' = staged
    BY <1>3 DEF HandlePrompt, MovePendingImages
  <2>5. TypeOK'
    <3>1. transit' \in Gallery
      BY <2>4, EmptyGallery
    <3> QED BY <1>1, <2>3, <2>4, <3>1 DEF Inductive, TypeOK, HandlePrompt, tray
  <2>6. ASSUME NEW i \in DOMAIN requests', requests'[i].images # <<>>
        PROVE  \E p \in DOMAIN staged :
                  /\ requests'[i].images = staged[p]
                  /\ \A j \in DOMAIN requests' : j # i => requests'[j].images # staged[p]
    <3>1. CASE i \in DOMAIN requests
      <4>1. PICK p \in DOMAIN staged :
              /\ requests[i].images = staged[p] /\ staged[p] # <<>>
              /\ \A j \in DOMAIN requests : j # i => requests[j].images # staged[p]
        BY <2>3, <2>6, <3>1 DEF Inductive, ImagesOfOnePrompt
      <4>2. transit # staged[p]
        BY <3>1, <4>1 DEF Inductive, TransitUntaken
      <4> QED BY <2>1, <2>3, <3>1, <4>1, <4>2
    <3>2. CASE i \notin DOMAIN requests
      <4>1. requests'[i].images = transit
        BY <2>1, <2>3, <3>2
      <4>2. PICK p \in DOMAIN staged :
              transit = staged[p] /\ \A j \in DOMAIN requests : requests[j].images # staged[p]
        BY <2>6, <4>1 DEF Inductive, TransitUntaken
      <4>3. ASSUME NEW j \in DOMAIN requests', j # i PROVE requests'[j].images # staged[p]
        <5>1. j \in DOMAIN requests
          BY <2>3, <3>2, <4>3
        <5> QED BY <2>3, <4>2, <5>1
      <4> QED BY <4>1, <4>2, <4>3
    <3> QED BY <3>1, <3>2
  <2>7. ImagesOfOnePrompt' /\ TransitUntaken'
    BY <2>4, <2>6 DEF ImagesOfOnePrompt, TransitUntaken
  <2> QED BY <2>4, <2>5, <2>7 DEF Inductive, HandlePrompt, tray, BudgetKept,
                                  ChipRemovesItsFile, StagedUnderItsName
<1> QED BY <1>2, <1>3 DEF HandlePrompt

LEMMA ChangeStep ==
  ASSUME Inductive, NEW f \in File, Change(f)
  PROVE  Inductive'
<1>1. disk' \in [File -> Content \cup {Gone}] /\ edits' \in 0..MaxEdits
  BY LimitAssumption DEF Inductive, TypeOK, Change
<1>2. TypeOK'
  BY <1>1 DEF Inductive, TypeOK, Change, tray
<1> QED BY <1>2 DEF Inductive, Change, tray, BudgetKept, ChipRemovesItsFile,
                    StagedUnderItsName, TransitUntaken, ImagesOfOnePrompt

-----------------------------------------------------------------------------
(* The invariant holds. *)

LEMMA InductiveInit == Init => Inductive
<1> SUFFICES ASSUME Init PROVE Inductive
  OBVIOUS
<1> USE DEF Init
<1>1. TypeOK
  <2>1. 0 \in 0..MaxEdits
    BY LimitAssumption
  <2>2. transit \in Gallery
    BY EmptyGallery
  <2> QED BY <2>1, <2>2 DEF TypeOK
<1>2. BudgetKept /\ ChipRemovesItsFile
  BY LimitAssumption, TotalOfNone DEF BudgetKept, ChipRemovesItsFile
<1>3. StagedUnderItsName /\ TransitUntaken /\ ImagesOfOnePrompt
  BY DEF StagedUnderItsName, TransitUntaken, ImagesOfOnePrompt
<1> QED BY <1>1, <1>2, <1>3 DEF Inductive

\* Every state of every behaviour satisfies the strengthened invariant.
THEOREM InductiveInvariant == Spec => []Inductive
<1>1. Inductive /\ [Next]_vars => Inductive'
  <2> SUFFICES ASSUME Inductive, [Next]_vars PROVE Inductive'
    OBVIOUS
  <2>1. CASE UNCHANGED vars
    BY <2>1 DEF vars, tray, Inductive, TypeOK, BudgetKept, ChipRemovesItsFile,
                StagedUnderItsName, TransitUntaken, ImagesOfOnePrompt
  <2> QED BY <2>1, SelectStep, AnalyzeStep, RemoveStep, SendStep, HandlePromptStep, ChangeStep
          DEF Next
<1> QED BY <1>1, InductiveInit, PTL DEF Spec

\* What is attached, staged, queued and requested keeps its type.
THEOREM TypeCorrect == Spec => []TypeOK
<1>1. Inductive => TypeOK
  BY DEF Inductive
<1> QED BY <1>1, InductiveInvariant, PTL

\* However files are attached, removed and sent, and whatever becomes of them on disk,
\* the files that wait stay within the token budget, are never more than the tray holds,
\* and no image among them was too large.
THEOREM BudgetAlwaysKept == Spec => []BudgetKept
<1>1. Inductive => BudgetKept
  BY DEF Inductive
<1> QED BY <1>1, InductiveInvariant, PTL

\* Whenever the user can click, the index captured in a chip's button is that of the
\* file the chip names.
THEOREM ChipsRemoveTheirFiles == Spec => []ChipRemovesItsFile
<1>1. Inductive => ChipRemovesItsFile
  BY DEF Inductive
<1> QED BY <1>1, InductiveInvariant, PTL

\* Through the one static slot, a request gets all the images of one prompt or none,
\* and no images are taken twice, in whichever order prompts are sent and handled.
THEOREM ImagesAreOfOnePrompt == Spec => []ImagesOfOnePrompt
<1>1. Inductive => ImagesOfOnePrompt
  BY DEF Inductive
<1> QED BY <1>1, InductiveInvariant, PTL
=============================================================================
