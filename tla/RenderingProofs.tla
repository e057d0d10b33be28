---------------------------- MODULE RenderingProofs ----------------------------
(***************************************************************************)
(* Proofs about Rendering: for every vocabulary, every token, prompt and   *)
(* stored session, any number of colours and any limit of the caches, the  *)
(* page that is shown is what would be shown without the caches, the       *)
(* caches are consistent and keep what was used last, the lists of the     *)
(* page are balanced, its blocks of code are what stands between the       *)
(* fences of the text, and its words are those of the text.                *)
(*                                                                         *)
(* The argument has five parts.  The caches: one step of Process keeps     *)
(* every entry what its key is made from (PiecewiseStep), provided a key   *)
(* tells what it was made from (KeyTells); this needs the text of a block  *)
(* of code to end with a line break and its language to have none.  The    *)
(* elements: those of every text are of this form, and leave no list open  *)
(* (ElementsType), which follows the tokenizer and emit line by line and   *)
(* token by token.  The state: whatever is shown was made by Process, from *)
(* caches that Process had left (ShowingInvariant).  The code: the block   *)
(* that is open after a line, and those that have ended before, follow     *)
(* from that line and what held before it (CodeRead); emit takes over what *)
(* it finds in the tokens (EmitShows).  The words: they are in the tokens  *)
(* and the buffer after each line (InkRead), and emit shows all of them    *)
(* where the rows of tables are of one length (InkAgrees).                 *)
(*                                                                         *)
(* Process, Tokenize, Emit and the others fold their steps over a          *)
(* sequence.  What holds of all folds is in the first section; the proofs  *)
(* of the lemmas named ...Runs unfold FoldLeft for their own step.         *)
(***************************************************************************)
EXTENDS Rendering, FiniteSetTheorems, SequenceTheorems, TLAPS

-----------------------------------------------------------------------------
(* Folds. *)

\* A set of numbers that has zero, and with a number the next one, has them all: induction
\* without an operator as a parameter.
LEMMA Induction ==
  ASSUME NEW S, 0 \in S, \A n \in Nat : n \in S => n + 1 \in S
  PROVE  Nat \subseteq S
<1>1. SUFFICES ASSUME Nat \ S # {} PROVE FALSE
  OBVIOUS
<1> DEFINE R == {pair \in Nat \X Nat : pair[1] < pair[2]}
<1>2. IsWellFoundedOn(R, Nat)
  BY NatLessThanWellFounded DEF OpToRel
<1> HIDE DEF R
<1>3. PICK x \in Nat \ S : \A y \in Nat \ S : ~(<<y, x>> \in R)
  BY <1>1, <1>2, WFMin
<1>4. x - 1 \in Nat /\ (x - 1) + 1 = x
  <2>1. x # 0
    OBVIOUS
  <2> QED BY <2>1
<1>5. x - 1 \notin S
  BY <1>4
<1>6. <<x - 1, x>> \in R
  BY <1>4 DEF R
<1> QED BY <1>3, <1>4, <1>5, <1>6

\* The greatest of a set of indices.
LEMMA MaxOf ==
  ASSUME NEW s, NEW m \in s, s \subseteq Nat, \A x \in s : x <= m
  PROVE  Max(s) = m
<1>1. \A x \in s : m >= x
  OBVIOUS
<1>2. Max(s) \in s /\ \A x \in s : Max(s) >= x
  BY <1>1 DEF Max
<1>3. Max(s) >= m /\ m >= Max(s)
  BY <1>1, <1>2
<1>4. Max(s) \in Nat /\ m \in Nat
  BY <1>2
<1> QED BY <1>3, <1>4

\* T folds step over each set of the first n indices, the greatest last.
Folds(T, A, base, step, n) ==
  /\ T \in [SUBSET (1..n) -> A]
  /\ T[{}] = base
  /\ \A s \in SUBSET (1..n) :
        s # {} => Max(s) \in s /\ T[s] = step[<<T[s \ {Max(s)}], Max(s)>>]

\* A fold of such steps exists: it is built up by the number of steps.
LEMMA FoldsExist ==
  ASSUME NEW A, NEW base \in A, NEW n \in Nat, NEW step \in [A \X (1..n) -> A]
  PROVE  \E T : Folds(T, A, base, step, n)
<1> DEFINE N == {m \in Nat : m <= n => \E T : Folds(T, A, base, step, m)}
<1>1. 0 \in N
  <2> DEFINE T == [s \in SUBSET (1..0) |-> base]
  <2>1. \A s \in SUBSET (1..0) : s = {}
    OBVIOUS
  <2>2. T \in [SUBSET (1..0) -> A] /\ T[{}] = base
    OBVIOUS
  <2>3. Folds(T, A, base, step, 0)
    BY <2>1, <2>2 DEF Folds
  <2> QED BY <2>3
<1>2. ASSUME NEW k \in Nat, k \in N PROVE k + 1 \in N
  <2>1. SUFFICES ASSUME k + 1 <= n PROVE \E U : Folds(U, A, base, step, k + 1)
    OBVIOUS
  <2>2. PICK T : Folds(T, A, base, step, k)
    BY <1>2, <2>1
  <2> DEFINE m == k + 1
             U == [s \in SUBSET (1..m) |-> IF m \in s THEN step[<<T[s \ {m}], m>>] ELSE T[s]]
  <2>3. /\ m \in 1..n /\ m \in 1..m /\ m \notin 1..k /\ m \in Nat
        /\ \A s \in SUBSET (1..m) : s \ {m} \in SUBSET (1..k) /\ s \subseteq Nat
        /\ \A s \in SUBSET (1..m) : m \notin s => s \in SUBSET (1..k)
        /\ \A s \in SUBSET (1..m) : \A x \in s : x <= m
        /\ {} \in SUBSET (1..m)
    BY <2>1
  <2> HIDE DEF m
  <2>4. /\ T \in [SUBSET (1..k) -> A] /\ T[{}] = base
        /\ \A s \in SUBSET (1..k) :
              s # {} => Max(s) \in s /\ T[s] = step[<<T[s \ {Max(s)}], Max(s)>>]
    BY <2>2 DEF Folds
  <2>5. U \in [SUBSET (1..m) -> A]
    <3>1. ASSUME NEW s \in SUBSET (1..m), m \in s PROVE step[<<T[s \ {m}], m>>] \in A
      BY <2>3, <2>4
    <3>2. ASSUME NEW s \in SUBSET (1..m), m \notin s PROVE T[s] \in A
      BY <2>3, <2>4, <3>2
    <3> QED BY <3>1, <3>2
  <2>6. U[{}] = base
    BY <2>3, <2>4
  <2>7. ASSUME NEW s \in SUBSET (1..m), s # {}
        PROVE  Max(s) \in s /\ U[s] = step[<<U[s \ {Max(s)}], Max(s)>>]
    <3>1. CASE m \in s
      <4>1. Max(s) = m
        BY <2>3, <3>1, MaxOf
      <4>2. s \ {m} \in SUBSET (1..m) /\ U[s \ {m}] = T[s \ {m}]
        OBVIOUS
      <4> QED BY <3>1, <4>1, <4>2
    <3>2. CASE m \notin s
      <4>1. s \in SUBSET (1..k) /\ U[s] = T[s]
        BY <2>3, <3>2
      <4>2. Max(s) \in s /\ T[s] = step[<<T[s \ {Max(s)}], Max(s)>>]
        BY <2>4, <2>7, <4>1
      <4>3. s \ {Max(s)} \in SUBSET (1..m) /\ m \notin s \ {Max(s)}
        BY <3>2
      <4>4. U[s \ {Max(s)}] = T[s \ {Max(s)}]
        BY <4>3
      <4> QED BY <4>1, <4>2, <4>4
    <3> QED BY <3>1, <3>2
  <2> HIDE DEF U
  <2>8. Folds(U, A, base, step, m)
    BY <2>5, <2>6, <2>7 DEF Folds
  <2> QED BY <2>8 DEF m
<1> HIDE DEF N
<1>3. n \in N
  BY <1>1, <1>2, Induction
<1> QED BY <1>3 DEF N

\* G[k] is what the first k steps make of base.
Runs(G, A, base, step, n) ==
  /\ G \in [0..n -> A]
  /\ G[0] = base
  /\ \A k \in 1..n : G[k] = step[<<G[k - 1], k>>]

\* it takes the steps, as far as it stays in A.
Takes(it, A, base, step, n) ==
  /\ base \in A /\ n \in Nat /\ step \in [A \X (1..n) -> A]
  /\ it[{}] = base
  /\ \A s \in SUBSET (1..n) :
        s # {} /\ it[s \ {Max(s)}] \in A => it[s] = step[<<it[s \ {Max(s)}], Max(s)>>]

\* Then it has run.
LEMMA FoldRuns ==
  ASSUME NEW A, NEW base, NEW n, NEW step, NEW it, Takes(it, A, base, step, n)
  PROVE  \E G : Runs(G, A, base, step, n) /\ it[1..n] = G[n]
<1> DEFINE N == {k \in Nat : k <= n => it[1..k] \in A}
           G == [k \in 0..n |-> it[1..k]]
<1>t. base \in A /\ n \in Nat /\ step \in [A \X (1..n) -> A]
  BY DEF Takes
<1> USE <1>t
<1>0. /\ it[{}] = base
      /\ \A s \in SUBSET (1..n) :
            s # {} /\ it[s \ {Max(s)}] \in A => it[s] = step[<<it[s \ {Max(s)}], Max(s)>>]
  BY DEF Takes
<1>1. 1..0 = {}
  OBVIOUS
<1>2. ASSUME NEW k \in 1..n, it[1..(k - 1)] \in A
      PROVE  it[1..k] = step[<<it[1..(k - 1)], k>>]
  <2>1. 1..k \in SUBSET (1..n) /\ k \in 1..k /\ 1..k \subseteq Nat /\ \A x \in 1..k : x <= k
    OBVIOUS
  <2>2. Max(1..k) = k
    BY <2>1, MaxOf
  <2>3. (1..k) \ {k} = 1..(k - 1)
    OBVIOUS
  <2> QED BY <1>0, <1>2, <2>1, <2>2, <2>3
<1>3. 0 \in N
  BY <1>0, <1>1
<1>4. ASSUME NEW k \in Nat, k \in N PROVE k + 1 \in N
  <2>1. SUFFICES ASSUME k + 1 <= n PROVE it[1..(k + 1)] \in A
    OBVIOUS
  <2>2. k + 1 \in 1..n /\ (k + 1) - 1 = k /\ it[1..k] \in A
    BY <1>4, <2>1
  <2>3. it[1..(k + 1)] = step[<<it[1..k], k + 1>>]
    BY <1>2, <2>2
  <2> QED BY <2>2, <2>3
<1> HIDE DEF N
<1>5. Nat \subseteq N
  BY <1>3, <1>4, Induction
<1>6. \A k \in 0..n : it[1..k] \in A
  BY <1>5 DEF N
<1>7. ASSUME NEW k \in 1..n PROVE G[k] = step[<<G[k - 1], k>>]
  <2>1. k - 1 \in 0..n /\ k \in 0..n
    OBVIOUS
  <2>2. it[1..k] = step[<<it[1..(k - 1)], k>>]
    BY <1>2, <1>6, <2>1
  <2> QED BY <2>1, <2>2
<1>8. G \in [0..n -> A] /\ G[0] = base /\ it[1..n] = G[n]
  BY <1>0, <1>1, <1>6
<1> HIDE DEF G
<1> QED BY <1>7, <1>8 DEF Runs

-----------------------------------------------------------------------------
(* The caches. *)

Plain == Seq(Piece \ {Break})
Tags == Decorated \cup {"ul", "/ul", "ol", "/ol", "table", "/table", "tr", "/tr"}

\* The text of a block of code ends its last line, and its language is of one line: this
\* tells where in a key the one ends and the other begins.
CodeText == {t \in Text : t # <<>> /\ t[Len(t)] = Break}

Codes == [tag : {"code"}, text : CodeText, language : Plain]
Inlines == [tag : Decorated \ {"code"}, text : Text, language : {<<>>}]
Marks == [tag : Tags \ Decorated, text : Text, language : {<<>>}]
WellFormed == Codes \cup Inlines \cup Marks

Keys == Seq(Piece \cup Themes)
Cache == [html : UNION {[D -> Fragments] : D \in SUBSET Keys}, order : Seq(Keys)]

\* Each entry is what its key is made from.
Genuine(cache, kind) ==
  \A k \in DOMAIN cache.html :
     \E e \in kind, c \in Themes : k = Key(e, c) /\ cache.html[k] = Fragment(e, c)

\* Table and list have the same keys, each once, and no more than the limit.
InOrder(cache) ==
  /\ Range(cache.order) = DOMAIN cache.html
  /\ IsInjective(cache.order)
  /\ Len(cache.order) <= MaxEntries

Sound(cache, kind) == cache \in Cache /\ Genuine(cache, kind) /\ InOrder(cache)

\* An element of a sequence is of its type.
LEMMA ElementOf ==
  ASSUME NEW S, NEW s \in Seq(S), NEW i \in 1..Len(s)
  PROVE  s[i] \in S
OBVIOUS

\* What is left of a sequence without the element at p.
LEMMA RemovedAt ==
  ASSUME NEW S, NEW s \in Seq(S), NEW p \in 1..Len(s)
  PROVE  /\ RemoveAt(s, p) \in Seq(S)
         /\ Len(RemoveAt(s, p)) = Len(s) - 1
         /\ \A i \in 1..(Len(s) - 1) : RemoveAt(s, p)[i] = IF i < p THEN s[i] ELSE s[i + 1]
<1>1. PICK n \in Nat : n = Len(s)
  BY LenProperties
<1> DEFINE a == SubSeq(s, 1, p - 1)
           b == SubSeq(s, p + 1, n)
<1>2. a \in Seq(S) /\ Len(a) = p - 1 /\ \A i \in 1..(p - 1) : a[i] = s[i]
  <2>1. p \in 1..n
    BY <1>1
  <2>2. \A i \in 1..(p - 1) : s[i] \in S
    BY <1>1, <2>1, ElementOf
  <2>3. 1 \in Int /\ p - 1 \in Int
    BY <2>1
  <2>4. a \in Seq(S) /\ Len(a) = IF 1 <= p - 1 THEN (p - 1) - 1 + 1 ELSE 0
    BY <2>2, <2>3, SubSeqProperties
  <2>5. \A i \in 1..((p - 1) - 1 + 1) : a[i] = s[1 + i - 1]
    BY <2>2, <2>3, SubSeqProperties
  <2> HIDE DEF a
  <2> QED BY <2>1, <2>4, <2>5
<1>3. b \in Seq(S) /\ Len(b) = n - p /\ \A i \in 1..(n - p) : b[i] = s[i + p]
  <2>1. p \in 1..n
    BY <1>1
  <2>2. \A i \in (p + 1)..n : s[i] \in S
    BY <1>1, <2>1, ElementOf
  <2>3. p + 1 \in Int /\ n \in Int
    BY <2>1
  <2>4. b \in Seq(S) /\ Len(b) = IF p + 1 <= n THEN n - (p + 1) + 1 ELSE 0
    BY <2>2, <2>3, SubSeqProperties
  <2>5. \A i \in 1..(n - (p + 1) + 1) : b[i] = s[(p + 1) + i - 1]
    BY <2>2, <2>3, SubSeqProperties
  <2> HIDE DEF b
  <2>6. \A i \in 1..(n - p) : i \in 1..(n - (p + 1) + 1) /\ (p + 1) + i - 1 = i + p
    BY <2>1
  <2>7. \A i \in 1..(n - p) : b[i] = s[i + p]
    BY <2>5, <2>6
  <2>8. Len(b) = n - p
    BY <2>1, <2>4
  <2> QED BY <2>4, <2>7, <2>8
<1>4. RemoveAt(s, p) = a \o b
  BY <1>1 DEF RemoveAt
<1> HIDE DEF a, b
<1>5. /\ a \o b \in Seq(S) /\ Len(a \o b) = n - 1
      /\ \A i \in 1..(n - 1) : (a \o b)[i] = IF i <= p - 1 THEN a[i] ELSE b[i - (p - 1)]
  <2>1. /\ a \o b \in Seq(S) /\ Len(a \o b) = Len(a) + Len(b)
        /\ \A i \in 1..(Len(a) + Len(b)) :
              (a \o b)[i] = IF i <= Len(a) THEN a[i] ELSE b[i - Len(a)]
    BY <1>2, <1>3, ConcatProperties
  <2>2. (p - 1) + (n - p) = n - 1
    BY <1>1
  <2> QED BY <1>2, <1>3, <2>1, <2>2
<1>6. ASSUME NEW i \in 1..(n - 1)
      PROVE  (a \o b)[i] = IF i < p THEN s[i] ELSE s[i + 1]
  <2>1. CASE i < p
    <3>1. i <= p - 1 /\ i \in 1..(p - 1)
      BY <2>1
    <3> QED BY <1>2, <1>5, <2>1, <3>1
  <2>2. CASE ~(i < p)
    <3>1. ~(i <= p - 1) /\ i - (p - 1) \in 1..(n - p) /\ (i - (p - 1)) + p = i + 1
      BY <1>1, <2>2
    <3> QED BY <1>3, <1>5, <2>2, <3>1
  <2> QED BY <2>1, <2>2
<1> QED BY <1>1, <1>4, <1>5, <1>6

\* Erasing the key of a list that has each once.
LEMMA Erased ==
  ASSUME NEW S, NEW s \in Seq(S), IsInjective(s), NEW p \in 1..Len(s)
  PROVE  /\ Erase(s, s[p]) = RemoveAt(s, p)
         /\ Erase(s, s[p]) \in Seq(S)
         /\ IsInjective(Erase(s, s[p]))
         /\ Range(Erase(s, s[p])) = Range(s) \ {s[p]}
         /\ Len(Erase(s, s[p])) = Len(s) - 1
<1>1. PICK n \in Nat : n = Len(s) /\ DOMAIN s = 1..n
  BY LenProperties
<1> DEFINE q == CHOOSE i \in DOMAIN s : s[i] = s[p]
           r == RemoveAt(s, p)
<1>2. q \in DOMAIN s /\ s[q] = s[p]
  BY <1>1
<1>3. q = p
  BY <1>1, <1>2 DEF IsInjective
<1>4. Erase(s, s[p]) = r
  BY <1>3 DEF Erase
<1>5. /\ r \in Seq(S) /\ Len(r) = n - 1 /\ DOMAIN r = 1..(n - 1) /\ p \in 1..n
      /\ \A i \in 1..(n - 1) : r[i] = IF i < p THEN s[i] ELSE s[i + 1]
  <2>1. /\ r \in Seq(S) /\ Len(r) = Len(s) - 1
        /\ \A i \in 1..(Len(s) - 1) : r[i] = IF i < p THEN s[i] ELSE s[i + 1]
    BY RemovedAt
  <2> HIDE DEF r
  <2>2. DOMAIN r = 1..Len(r)
    BY <2>1, LenProperties
  <2> QED BY <1>1, <2>1, <2>2
<1> HIDE DEF r, q
<1>6. IsInjective(r)
  <2>1. SUFFICES ASSUME NEW i \in 1..(n - 1), NEW j \in 1..(n - 1), r[i] = r[j]
                 PROVE  i = j
    BY <1>5 DEF IsInjective
  <2>2. \A k \in 1..(n - 1) : k \in 1..n /\ k + 1 \in 1..n
    BY <1>1
  <2>3. \A k, l \in 1..n : s[k] = s[l] => k = l
    BY <1>1 DEF IsInjective
  <2>4. (i < p /\ j < p) \/ (i < p /\ ~(j < p)) \/ (~(i < p) /\ j < p) \/ (~(i < p) /\ ~(j < p))
    OBVIOUS
  <2>5. ASSUME i < p, ~(j < p) PROVE FALSE
    <3>1. s[i] = s[j + 1]
      BY <1>5, <2>1, <2>5
    <3>2. i = j + 1
      BY <2>2, <2>3, <3>1
    <3> QED BY <1>5, <2>5, <3>2
  <2>6. ASSUME ~(i < p), j < p PROVE FALSE
    <3>1. s[i + 1] = s[j]
      BY <1>5, <2>1, <2>6
    <3>2. i + 1 = j
      BY <2>2, <2>3, <3>1
    <3> QED BY <1>5, <2>6, <3>2
  <2>7. CASE i < p /\ j < p
    BY <1>5, <2>1, <2>2, <2>3, <2>7
  <2>8. CASE ~(i < p) /\ ~(j < p)
    <3>1. s[i + 1] = s[j + 1]
      BY <1>5, <2>1, <2>8
    <3>2. i + 1 = j + 1
      BY <2>2, <2>3, <3>1
    <3> QED BY <3>2
  <2> QED BY <2>4, <2>5, <2>6, <2>7, <2>8
<1>7. Range(r) = Range(s) \ {s[p]}
  <2>1. ASSUME NEW i \in 1..(n - 1) PROVE r[i] \in Range(s) \ {s[p]}
    <3>1. PICK k \in 1..n : r[i] = s[k] /\ k # p
      <4>1. CASE i < p
        BY <1>5, <4>1
      <4>2. CASE ~(i < p)
        <5>1. i + 1 \in 1..n /\ i + 1 # p
          BY <1>5, <4>2
        <5> QED BY <1>5, <4>2, <5>1
      <4> QED BY <4>1, <4>2
    <3> QED BY <1>1, <1>5, <3>1 DEF Range, IsInjective
  <2>2. ASSUME NEW k \in 1..n, s[k] # s[p] PROVE s[k] \in Range(r)
    <3>1. CASE k < p
      <4>1. k \in 1..(n - 1)
        BY <1>5, <3>1
      <4> QED BY <1>5, <3>1, <4>1 DEF Range
    <3>2. CASE ~(k < p)
      <4>1. k # p
        BY <2>2
      <4>2. k - 1 \in 1..(n - 1) /\ ~(k - 1 < p) /\ (k - 1) + 1 = k
        BY <1>5, <3>2, <4>1
      <4>3. r[k - 1] = s[k]
        BY <1>5, <4>2
      <4> QED BY <1>5, <4>2, <4>3 DEF Range
    <3> QED BY <3>1, <3>2
  <2> QED BY <1>1, <1>5, <2>1, <2>2 DEF Range
<1> HIDE DEF Erase
<1> QED BY <1>1, <1>4, <1>5, <1>6, <1>7 DEF r

\* A new element at the end of a list that has each once.
LEMMA Appended ==
  ASSUME NEW S, NEW s \in Seq(S), IsInjective(s), NEW e \in S, e \notin Range(s)
  PROVE  /\ Append(s, e) \in Seq(S) /\ IsInjective(Append(s, e))
         /\ Range(Append(s, e)) = Range(s) \cup {e}
         /\ Len(Append(s, e)) = Len(s) + 1
<1>1. PICK n \in Nat : n = Len(s) /\ DOMAIN s = 1..n
  BY LenProperties
<1> DEFINE a == Append(s, e)
<1>2. /\ a \in Seq(S) /\ Len(a) = n + 1 /\ DOMAIN a = 1..(n + 1)
      /\ a[n + 1] = e /\ \A i \in 1..n : a[i] = s[i]
  BY <1>1, AppendProperties, LenProperties
<1> HIDE DEF a
<1>3. \A i \in 1..(n + 1) : i \in 1..n \/ i = n + 1
  BY <1>1
<1>4. \A i \in 1..n : s[i] # e
  BY <1>1 DEF Range
<1>5. IsInjective(a)
  BY <1>1, <1>2, <1>3, <1>4 DEF IsInjective
<1>6. Range(a) = Range(s) \cup {e}
  <2>1. 1..n \subseteq 1..(n + 1) /\ n + 1 \in 1..(n + 1)
    BY <1>1
  <2> QED BY <1>1, <1>2, <1>3, <2>1 DEF Range
<1> QED BY <1>1, <1>2, <1>5, <1>6 DEF a

-----------------------------------------------------------------------------
(* Lists of keys, from their ends. *)

\* The element j places before the last one.
At(s, j) == s[Len(s) - j]

\* What a sequence holds has a place, counted from its end.
LEMMA InRange ==
  ASSUME NEW S, NEW s \in Seq(S), NEW e
  PROVE  e \in Range(s) <=> \E q \in 0..(Len(s) - 1) : At(s, q) = e
<1>1. PICK n \in Nat : n = Len(s) /\ DOMAIN s = 1..n
  BY LenProperties
<1>2. \A q \in 0..(n - 1) : n - q \in 1..n
  OBVIOUS
<1>3. \A i \in 1..n : n - i \in 0..(n - 1) /\ n - (n - i) = i
  OBVIOUS
<1>4. ASSUME e \in Range(s) PROVE \E q \in 0..(Len(s) - 1) : At(s, q) = e
  <2>1. PICK i \in 1..n : s[i] = e
    BY <1>1, <1>4 DEF Range
  <2>2. At(s, n - i) = e
    BY <1>1, <1>3, <2>1 DEF At
  <2> QED BY <1>1, <1>3, <2>2
<1>5. ASSUME NEW q \in 0..(Len(s) - 1), At(s, q) = e PROVE e \in Range(s)
  BY <1>1, <1>2, <1>5 DEF Range, At
<1> QED BY <1>4, <1>5

\* and only one, when it holds nothing twice.
LEMMA OnceInRange ==
  ASSUME NEW S, NEW s \in Seq(S), IsInjective(s),
         NEW q \in 0..(Len(s) - 1), NEW r \in 0..(Len(s) - 1), At(s, q) = At(s, r)
  PROVE  q = r
<1>1. PICK n \in Nat : n = Len(s) /\ DOMAIN s = 1..n
  BY LenProperties
<1>2. n - q \in 1..n /\ n - r \in 1..n
  BY <1>1
<1>3. n - q = n - r
  BY <1>1, <1>2 DEF At, IsInjective
<1> QED BY <1>1, <1>3

\* A new element shifts the others.
LEMMA AppendedAt ==
  ASSUME NEW S, NEW s \in Seq(S), NEW e \in S
  PROVE  /\ Append(s, e) \in Seq(S) /\ Len(Append(s, e)) = Len(s) + 1
         /\ At(Append(s, e), 0) = e
         /\ \A j \in 1..Len(s) : At(Append(s, e), j) = At(s, j - 1)
<1>1. PICK n \in Nat : n = Len(s)
  BY LenProperties
<1> DEFINE a == Append(s, e)
<1>2. /\ a \in Seq(S) /\ Len(a) = n + 1 /\ a[n + 1] = e /\ \A i \in 1..n : a[i] = s[i]
  BY <1>1, AppendProperties
<1> HIDE DEF a
<1>3. At(a, 0) = e
  <2>1. (n + 1) - 0 = n + 1
    OBVIOUS
  <2> QED BY <1>2, <2>1 DEF At
<1>4. ASSUME NEW j \in 1..n PROVE At(a, j) = At(s, j - 1)
  <2>1. (n + 1) - j = n - (j - 1) /\ n - (j - 1) \in 1..n
    BY <1>1
  <2> QED BY <1>1, <1>2, <2>1 DEF At
<1> QED BY <1>1, <1>2, <1>3, <1>4 DEF a

\* An element that moves to the end shifts those that came after it.
LEMMA MovedAt ==
  ASSUME NEW S, NEW s \in Seq(S), IsInjective(s), NEW q \in 0..(Len(s) - 1), NEW e,
         e = At(s, q)
  PROVE  /\ Latest(s, e) \in Seq(S) /\ IsInjective(Latest(s, e))
         /\ Len(Latest(s, e)) = Len(s) /\ Range(Latest(s, e)) = Range(s)
         /\ At(Latest(s, e), 0) = e
         /\ \A j \in 1..q : At(Latest(s, e), j) = At(s, j - 1)
         /\ \A j \in (q + 1)..(Len(s) - 1) : At(Latest(s, e), j) = At(s, j)
<1>1. PICK n \in Nat : n = Len(s)
  BY LenProperties
<1>2. PICK p \in 1..n : p = n - q
  BY <1>1
<1> DEFINE r == Erase(s, e)
           a == Append(r, e)
<1>3. e \in Range(s) /\ e \in S
  <2>1. e \in Range(s)
    BY InRange
  <2>2. s[n - q] \in S
    BY <1>1, <1>2, ElementOf
  <2> QED BY <1>1, <2>1, <2>2 DEF At
<1>4. Latest(s, e) = a
  BY <1>3 DEF Latest
<1>5. e = s[p]
  BY <1>1, <1>2 DEF At
<1>6. /\ r \in Seq(S) /\ IsInjective(r) /\ Range(r) = Range(s) \ {e} /\ Len(r) = n - 1
      /\ r = RemoveAt(s, p)
  BY <1>1, <1>5, Erased
<1>7. \A i \in 1..(n - 1) : r[i] = IF i < p THEN s[i] ELSE s[i + 1]
  BY <1>1, <1>6, RemovedAt
<1> HIDE DEF r
<1>8. /\ a \in Seq(S) /\ IsInjective(a) /\ Range(a) = Range(r) \cup {e} /\ Len(a) = (n - 1) + 1
  BY <1>3, <1>6, Appended
<1>9. At(a, 0) = e /\ \A j \in 1..(n - 1) : At(a, j) = At(r, j - 1)
  BY <1>3, <1>6, AppendedAt
<1> HIDE DEF a
<1>10. \A j \in 1..(n - 1) : (n - 1) - (j - 1) = n - j /\ n - j \in 1..(n - 1)
  OBVIOUS
<1>11. \A j \in 1..(n - 1) : At(a, j) = IF n - j < p THEN s[n - j] ELSE s[n - j + 1]
  BY <1>6, <1>7, <1>9, <1>10 DEF At
<1>12. ASSUME NEW j \in 1..q PROVE At(a, j) = At(s, j - 1)
  <2>1. j \in 1..(n - 1) /\ ~(n - j < p) /\ n - j + 1 = n - (j - 1)
    BY <1>1, <1>2
  <2> QED BY <1>1, <1>11, <2>1 DEF At
<1>13. ASSUME NEW j \in (q + 1)..(n - 1) PROVE At(a, j) = At(s, j)
  <2>1. j \in 1..(n - 1) /\ n - j < p
    BY <1>1, <1>2
  <2> QED BY <1>1, <1>11, <2>1 DEF At
<1>14. Range(a) = Range(s) /\ Len(a) = n
  BY <1>3, <1>6, <1>8
<1> QED BY <1>1, <1>4, <1>8, <1>9, <1>12, <1>13, <1>14

\* A new key goes to the end.
LEMMA NewAt ==
  ASSUME NEW S, NEW s \in Seq(S), IsInjective(s), NEW e \in S, e \notin Range(s)
  PROVE  /\ Latest(s, e) = Append(s, e)
         /\ Latest(s, e) \in Seq(S) /\ IsInjective(Latest(s, e))
BY Appended DEF Latest

\* The first element is dropped.
LEMMA TailAt ==
  ASSUME NEW S, NEW s \in Seq(S), IsInjective(s), s # <<>>
  PROVE  /\ Tail(s) \in Seq(S) /\ IsInjective(Tail(s)) /\ Len(Tail(s)) = Len(s) - 1
         /\ Range(Tail(s)) = Range(s) \ {Head(s)} /\ Head(s) \in Range(s)
         /\ \A j \in 0..(Len(s) - 2) : At(Tail(s), j) = At(s, j)
<1>1. PICK n \in Nat : n = Len(s) /\ n # 0 /\ DOMAIN s = 1..n
  BY LenProperties, EmptySeq
<1> DEFINE t == Tail(s)
<1>2. /\ t \in Seq(S) /\ Len(t) = n - 1 /\ \A i \in 1..(n - 1) : t[i] = s[i + 1]
      /\ Head(s) = s[1]
  <2>1. Head(s) \in S /\ t \in Seq(S) /\ Len(t) = n - 1 /\ \A i \in 1..Len(t) : t[i] = s[i + 1]
    BY <1>1, HeadTailProperties
  <2>2. Head(s) = s[1]
    OBVIOUS
  <2> HIDE DEF t
  <2> QED BY <2>1, <2>2
<1> HIDE DEF t
<1>3. DOMAIN t = 1..(n - 1)
  BY <1>2, LenProperties
<1>4. IsInjective(t)
  <2>1. \A i \in 1..(n - 1) : i + 1 \in 1..n
    BY <1>1
  <2>2. ASSUME NEW i \in 1..(n - 1), NEW j \in 1..(n - 1), t[i] = t[j] PROVE i = j
    <3>1. i + 1 = j + 1
      BY <1>1, <1>2, <2>1, <2>2 DEF IsInjective
    <3> QED BY <3>1
  <2> QED BY <1>3, <2>2 DEF IsInjective
<1>5. Range(t) = Range(s) \ {s[1]} /\ s[1] \in Range(s)
  <2>1. 1 \in 1..n /\ \A i \in 1..(n - 1) : i + 1 \in 1..n /\ i + 1 # 1
    BY <1>1
  <2>2. \A i \in 1..n : i = 1 \/ (i - 1 \in 1..(n - 1) /\ (i - 1) + 1 = i)
    BY <1>1
  <2>3. \A i \in 1..n : i # 1 => s[i] # s[1]
    BY <1>1, <2>1 DEF IsInjective
  <2>4. Range(t) \subseteq Range(s) \ {s[1]}
    BY <1>1, <1>2, <1>3, <2>1, <2>3 DEF Range
  <2>5. ASSUME NEW i \in 1..n, s[i] # s[1] PROVE s[i] \in Range(t)
    <3>1. i - 1 \in 1..(n - 1) /\ (i - 1) + 1 = i
      BY <2>2, <2>5
    <3>2. t[i - 1] = s[i]
      BY <1>2, <3>1
    <3> QED BY <1>3, <3>1, <3>2 DEF Range
  <2> QED BY <1>1, <2>1, <2>4, <2>5 DEF Range
<1>6. ASSUME NEW j \in 0..(n - 2) PROVE At(t, j) = At(s, j)
  <2>1. (n - 1) - j \in 1..(n - 1) /\ ((n - 1) - j) + 1 = n - j
    BY <1>1
  <2> QED BY <1>1, <1>2, <2>1 DEF At
<1> QED BY <1>1, <1>2, <1>4, <1>5, <1>6 DEF t

\* The keys used last are the last ones of the list, as many as it may have.
Recent(order, used) ==
  \A j \in Nat : j < Len(used) /\ j < MaxEntries =>
     j < Len(order) /\ At(order, j) = At(used, j)

\* What becomes of the list when a key is used.
Moves(order, new, key) ==
  \/ key \in Range(order) /\ new = Latest(order, key)
  \/ key \notin Range(order) /\ Len(order) < MaxEntries /\ new = Append(order, key)
  \/ key \notin Range(order) /\ Len(order) = MaxEntries /\ new = Append(Tail(order), key)

\* Where a key was in a list, and what its use makes of the list: those after it are
\* shifted, as far as the list may reach.
Placed(s, t, key, q) ==
  /\ key \in Range(s) => q < Len(s) /\ At(s, q) = key
  /\ key \notin Range(s) => q = Len(s)
  /\ 0 < Len(t) /\ At(t, 0) = key
  /\ Len(t) <= IF q < Len(s) THEN Len(s) ELSE Len(s) + 1
  /\ \A j \in 1..q : j < MaxEntries => j < Len(t) /\ At(t, j) = At(s, j - 1)
  /\ \A j \in (q + 1)..(Len(s) - 1) : j < Len(t) /\ At(t, j) = At(s, j)

\* Where the use of a key leaves the keys used so far,
LEMMA LatestPlaced ==
  ASSUME NEW S, NEW s \in Seq(S), IsInjective(s), NEW key \in S
  PROVE  /\ Latest(s, key) \in Seq(S) /\ IsInjective(Latest(s, key))
         /\ \E q \in Nat : Placed(s, Latest(s, key), key, q)
<1>1. PICK n \in Nat : n = Len(s)
  BY LenProperties
<1> DEFINE t == Latest(s, key)
<1>2. CASE key \in Range(s)
  <2>1. PICK q \in 0..(n - 1) : At(s, q) = key
    BY <1>1, <1>2, InRange
  <2>2. /\ t \in Seq(S) /\ IsInjective(t)
        /\ Len(t) = n
        /\ At(t, 0) = key
        /\ \A j \in 1..q : At(t, j) = At(s, j - 1)
        /\ \A j \in (q + 1)..(n - 1) : At(t, j) = At(s, j)
    BY <1>1, <2>1, MovedAt
  <2> HIDE DEF t
  <2>3. q \in Nat /\ q < n /\ 0 < n
    BY <2>1
  <2>4. Placed(s, t, key, q)
    <3>1. \A j \in 1..q : j < n
      BY <2>1
    <3>2. \A j \in (q + 1)..(n - 1) : j < n
      BY <2>1
    <3>3. n <= IF q < n THEN n ELSE n + 1
      BY <2>3
    <3> QED BY <1>1, <1>2, <2>1, <2>2, <2>3, <3>1, <3>2, <3>3 DEF Placed
  <2> QED BY <2>2, <2>3, <2>4 DEF t
<1>3. CASE key \notin Range(s)
  <2>1. t = Append(s, key) /\ t \in Seq(S) /\ IsInjective(t)
    BY <1>3, NewAt
  <2> HIDE DEF t
  <2>2. Len(t) = n + 1 /\ At(t, 0) = key /\ \A j \in 1..n : At(t, j) = At(s, j - 1)
    BY <1>1, <2>1, AppendedAt
  <2>3. Placed(s, t, key, n)
    <3>1. \A j \in 1..n : j < n + 1
      OBVIOUS
    <3>2. ~(n < n) /\ 0 < n + 1 /\ (n + 1)..(n - 1) = {}
      OBVIOUS
    <3> QED BY <1>1, <1>3, <2>2, <3>1, <3>2 DEF Placed
  <2> QED BY <2>1, <2>3 DEF t
<1> QED BY <1>2, <1>3

\* and the list of a cache.
LEMMA MovesPlaced ==
  ASSUME NEW S, NEW order \in Seq(S), IsInjective(order), Len(order) <= MaxEntries,
         NEW key \in S, NEW new, Moves(order, new, key)
  PROVE  /\ new \in Seq(S) /\ IsInjective(new) /\ Len(new) <= MaxEntries
         /\ \E q \in Nat : Placed(order, new, key, q)
<1>1. PICK n \in Nat : n = Len(order)
  BY LenProperties
<1>2. MaxEntries \in Nat /\ MaxEntries # 0
  BY LimitAssumption
<1>3. CASE key \in Range(order) /\ new = Latest(order, key)
  <2>1. PICK q \in 0..(n - 1) : At(order, q) = key
    BY <1>1, <1>3, InRange
  <2>2. Len(new) = n
    BY <1>1, <1>3, <2>1, MovedAt
  <2> QED BY <1>1, <1>3, <2>2, LatestPlaced
<1>4. CASE key \notin Range(order) /\ Len(order) < MaxEntries /\ new = Append(order, key)
  <2>1. new = Latest(order, key) /\ Len(new) = n + 1
    BY <1>1, <1>4, NewAt, AppendedAt
  <2>2. n + 1 <= MaxEntries
    BY <1>1, <1>2, <1>4
  <2> QED BY <2>1, <2>2, LatestPlaced
<1>5. CASE key \notin Range(order) /\ Len(order) = MaxEntries /\ new = Append(Tail(order), key)
  <2> DEFINE t == Tail(order)
  <2>1. n = MaxEntries /\ n # 0 /\ order # <<>>
    BY <1>1, <1>2, <1>5
  <2>2. /\ t \in Seq(S) /\ IsInjective(t) /\ Len(t) = n - 1
        /\ Range(t) = Range(order) \ {Head(order)}
        /\ \A j \in 0..(n - 2) : At(t, j) = At(order, j)
    BY <1>1, <2>1, TailAt
  <2> HIDE DEF t
  <2>3. key \notin Range(t)
    BY <1>5, <2>2
  <2>4. new = Append(t, key)
    BY <1>5 DEF t
  <2>5. /\ new \in Seq(S) /\ IsInjective(new)
    BY <2>2, <2>3, <2>4, Appended
  <2>6. /\ Len(new) = (n - 1) + 1 /\ At(new, 0) = key
        /\ \A j \in 1..(n - 1) : At(new, j) = At(t, j - 1)
    BY <2>2, <2>4, AppendedAt
  <2>7. \A j \in 1..(n - 1) : j - 1 \in 0..(n - 2)
    BY <2>1
  <2>8. \A j \in 1..(n - 1) : At(new, j) = At(order, j - 1)
    BY <2>2, <2>6, <2>7
  <2>9. (n - 1) + 1 = n /\ 0 < n /\ ~(n < n) /\ n <= n + 1 /\ (n + 1)..(n - 1) = {}
    BY <2>1
  <2>10. \A j \in 1..n : j < n => j \in 1..(n - 1)
    OBVIOUS
  <2>11. Placed(order, new, key, n)
    BY <1>1, <1>5, <2>1, <2>6, <2>8, <2>9, <2>10 DEF Placed
  <2> QED BY <2>1, <2>5, <2>6, <2>9, <2>11
<1> QED BY <1>3, <1>4, <1>5 DEF Moves

\* They are the last ones again when a key is used.
LEMMA RecentKept ==
  ASSUME NEW S, NEW order \in Seq(S), IsInjective(order),
         NEW used \in Seq(S), IsInjective(used), NEW key \in S, NEW new, NEW later,
         NEW p \in Nat, Placed(order, new, key, p), NEW q \in Nat, Placed(used, later, key, q),
         Recent(order, used)
  PROVE  Recent(new, later)
<1>1. PICK n \in Nat : n = Len(order)
  BY LenProperties
<1>2. PICK u \in Nat : u = Len(used)
  BY LenProperties
<1>3. MaxEntries \in Nat
  BY LimitAssumption
<1>4. \A j \in Nat : j < u /\ j < MaxEntries => j < n /\ At(order, j) = At(used, j)
  BY <1>1, <1>2 DEF Recent
<1>5. /\ key \in Range(order) => p < n /\ At(order, p) = key
      /\ key \notin Range(order) => p = n
      /\ 0 < Len(new) /\ At(new, 0) = key
      /\ \A j \in 1..p : j < MaxEntries => j < Len(new) /\ At(new, j) = At(order, j - 1)
      /\ \A j \in (p + 1)..(n - 1) : j < Len(new) /\ At(new, j) = At(order, j)
  BY <1>1 DEF Placed
<1>6. /\ key \in Range(used) => q < u /\ At(used, q) = key
      /\ key \notin Range(used) => q = u
      /\ At(later, 0) = key
      /\ Len(later) <= IF q < u THEN u ELSE u + 1
      /\ \A j \in 1..q : j < MaxEntries => At(later, j) = At(used, j - 1)
      /\ \A j \in (q + 1)..(u - 1) : At(later, j) = At(used, j)
  BY <1>2 DEF Placed
<1>7. \A i, j \in 0..(n - 1) : At(order, i) = At(order, j) => i = j
  BY <1>1, OnceInRange
<1>8. \A i, j \in 0..(u - 1) : At(used, i) = At(used, j) => i = j
  BY <1>2, OnceInRange
<1>9. \A j \in 0..(n - 1) : At(order, j) = key => key \in Range(order)
  BY <1>1, InRange
<1>10. \A j \in 0..(u - 1) : At(used, j) = key => key \in Range(used)
  BY <1>2, InRange
<1>11. SUFFICES ASSUME NEW j \in Nat, j < Len(later), j < MaxEntries
                PROVE  j < Len(new) /\ At(new, j) = At(later, j)
  BY DEF Recent
<1>12. CASE j = 0
  BY <1>5, <1>6, <1>12
<1>13. CASE j # 0 /\ j <= q
  <2>1. j \in 1..q /\ j - 1 \in Nat /\ j - 1 < MaxEntries /\ j - 1 < u /\ q <= u
    <3>1. q <= u
      BY <1>6
    <3> QED BY <1>3, <1>11, <1>13, <3>1
  <2>2. At(later, j) = At(used, j - 1) /\ j - 1 < n /\ At(order, j - 1) = At(used, j - 1)
    BY <1>4, <1>6, <1>11, <2>1
  <2>3. j <= p
    <3>1. SUFFICES ASSUME p < j PROVE FALSE
      OBVIOUS
    <3>2. p < n /\ p < u /\ p < MaxEntries /\ p \in 0..(n - 1) /\ p \in 0..(u - 1) /\ p # n
      BY <1>3, <1>11, <2>1, <2>2, <3>1
    <3>3. At(order, p) = key /\ At(used, p) = key
      BY <1>4, <1>5, <3>2
    <3>4. q < u /\ At(used, q) = key
      BY <1>6, <1>10, <3>2, <3>3
    <3>5. q \in 0..(u - 1)
      BY <3>4
    <3>6. p = q
      BY <1>8, <3>2, <3>3, <3>4, <3>5
    <3> QED BY <1>13, <3>1, <3>6
  <2>4. j \in 1..p
    BY <2>1, <2>3
  <2> QED BY <1>5, <1>11, <2>2, <2>4
<1>14. CASE q < j
  <2>1. q < u
    <3>1. SUFFICES ASSUME ~(q < u) PROVE FALSE
      OBVIOUS
    <3>2. q = u /\ Len(later) <= u + 1
      BY <1>6, <3>1
    <3>3. Len(later) \in Int \/ TRUE
      OBVIOUS
    <3> QED BY <1>11, <1>14, <3>2
  <2>2. j < u
    BY <1>6, <1>11, <2>1
  <2>3. q \in 0..(u - 1) /\ q < MaxEntries /\ j \in (q + 1)..(u - 1) /\ q # u
    BY <1>3, <1>11, <1>14, <2>1, <2>2
  <2>4. At(later, j) = At(used, j) /\ j < n /\ At(order, j) = At(used, j)
    BY <1>4, <1>6, <1>11, <2>2, <2>3
  <2>5. At(used, q) = key
    BY <1>6, <2>3
  <2>6. q < n /\ At(order, q) = key
    BY <1>4, <2>1, <2>3, <2>5
  <2>7. q \in 0..(n - 1)
    BY <2>6
  <2>8. p < n /\ At(order, p) = key
    BY <1>5, <1>9, <2>6, <2>7
  <2>9. p \in 0..(n - 1)
    BY <2>8
  <2>10. p = q
    BY <1>7, <2>6, <2>7, <2>8, <2>9
  <2>11. j \in (p + 1)..(n - 1)
    BY <1>14, <2>4, <2>10
  <2> QED BY <1>5, <2>4, <2>11
<1>15. j = 0 \/ (j # 0 /\ j <= q) \/ q < j
  OBVIOUS
<1> QED BY <1>12, <1>13, <1>14, <1>15

-----------------------------------------------------------------------------
(* Keys and entries. *)

\* A list that has each key once has as many entries as keys.
LEMMA CardinalityOfList ==
  ASSUME NEW S, NEW s \in Seq(S), IsInjective(s)
  PROVE  IsFiniteSet(Range(s)) /\ Cardinality(Range(s)) = Len(s)
<1>1. PICK n \in Nat : n = Len(s) /\ DOMAIN s = 1..n
  BY LenProperties
<1>2. IsFiniteSet(1..n) /\ Cardinality(1..n) = n
  BY FS_Interval
<1>3. s \in Bijection(1..n, Range(s))
  BY <1>1, LenProperties DEF Bijection, Injection, Surjection, IsInjective, Range
<1>4. ExistsBijection(1..n, Range(s))
  BY <1>3 DEF ExistsBijection
<1> QED BY <1>1, <1>2, <1>4, FS_Bijection

\* Where the text of a block of code ends is seen from what follows it.
LEMMA Separated ==
  ASSUME NEW t \in CodeText, NEW u \in CodeText, NEW l \in Plain, NEW m \in Plain,
         NEW j, j = t \o l, j = u \o m
  PROVE  t = u /\ l = m
<1>1. PICK i \in Nat : i = Len(t) /\ i # 0 /\ t \in Seq(Piece) /\ t[i] = Break
  BY LenProperties, EmptySeq DEF CodeText, Text
<1>2. PICK v \in Nat : v = Len(u) /\ v # 0 /\ u \in Seq(Piece) /\ u[v] = Break
  BY LenProperties, EmptySeq DEF CodeText, Text
<1>3. PICK x \in Nat : x = Len(l) /\ l \in Seq(Piece)
  BY LenProperties, SeqMonotonic DEF Plain
<1>4. PICK y \in Nat : y = Len(m) /\ m \in Seq(Piece)
  BY LenProperties, SeqMonotonic DEF Plain
<1>5. \A k \in 1..x : l[k] # Break
  BY <1>3, ElementOf DEF Plain
<1>6. \A k \in 1..y : m[k] # Break
  BY <1>4, ElementOf DEF Plain
<1> DEFINE a == t \o l
           b == u \o m
<1>7. Len(a) = i + x /\ \A k \in 1..(i + x) : a[k] = IF k <= i THEN t[k] ELSE l[k - i]
  BY <1>1, <1>3, ConcatProperties
<1>8. Len(b) = v + y /\ \A k \in 1..(v + y) : b[k] = IF k <= v THEN u[k] ELSE m[k - v]
  BY <1>2, <1>4, ConcatProperties
<1>9. a = b
  OBVIOUS
<1> HIDE DEF a, b
<1>10. i + x = v + y
  BY <1>7, <1>8, <1>9
<1>11. ~(i < v)
  <2>1. SUFFICES ASSUME i < v PROVE FALSE
    OBVIOUS
  <2>2. v \in 1..(i + x) /\ v \in 1..(v + y) /\ ~(v <= i) /\ v <= v /\ v - i \in 1..x
    BY <1>2, <1>10, <2>1
  <2>3. a[v] = l[v - i] /\ b[v] = u[v]
    BY <1>7, <1>8, <2>2
  <2> QED BY <1>2, <1>5, <1>9, <2>2, <2>3
<1>12. ~(v < i)
  <2>1. SUFFICES ASSUME v < i PROVE FALSE
    OBVIOUS
  <2>2. i \in 1..(i + x) /\ i \in 1..(v + y) /\ ~(i <= v) /\ i <= i /\ i - v \in 1..y
    BY <1>1, <1>10, <2>1
  <2>3. a[i] = t[i] /\ b[i] = m[i - v]
    BY <1>7, <1>8, <2>2
  <2> QED BY <1>1, <1>6, <1>9, <2>2, <2>3
<1>13. i = v /\ x = y
  BY <1>10, <1>11, <1>12
<1>14. \A k \in 1..i : t[k] = u[k]
  <2>1. \A k \in 1..i : k <= i /\ k \in 1..(i + x)
    OBVIOUS
  <2> QED BY <1>7, <1>8, <1>9, <1>13, <2>1
<1>15. \A k \in 1..x : l[k] = m[k]
  <2>1. \A k \in 1..x : ~(k + i <= i) /\ k + i \in 1..(i + x) /\ (k + i) - i = k
    OBVIOUS
  <2>2. \A k \in 1..x : a[k + i] = l[k]
    BY <1>7, <2>1
  <2>3. \A k \in 1..x : b[k + i] = m[k]
    BY <1>8, <1>13, <2>1
  <2> QED BY <1>9, <2>2, <2>3
<1> QED BY <1>1, <1>2, <1>3, <1>4, <1>13, <1>14, <1>15, SeqEqual

\* A key is a sequence of pieces and themes, and tells what its fragment is made from.
LEMMA KeyType ==
  ASSUME NEW e \in Inlines \cup Codes, NEW c \in Themes
  PROVE  Key(e, c) \in Keys /\ Fragment(e, c) \in Fragments
<1> DEFINE S == Piece \cup Themes
<1>1. e.text \in Text /\ e.language \in Text
  <2>1. <<>> \in Text /\ CodeText \subseteq Text /\ Plain \subseteq Text
    BY SeqMonotonic DEF Text, Plain, CodeText
  <2> QED BY <2>1 DEF Inlines, Codes
<1>2. e.text \in Seq(S) /\ e.language \in Seq(S) /\ <<c>> \in Seq(S)
  <2>1. e.text \in Seq(S) /\ e.language \in Seq(S)
    BY <1>1, SeqMonotonic DEF Text
  <2> QED BY <2>1
<1>3. Fragment(e, c) \in Fragments
  BY <1>1 DEF Fragment, Fragments
<1> HIDE DEF S
<1>4. e.text \o e.language \in Seq(S)
  BY <1>2, ConcatProperties
<1>5. (e.text \o e.language) \o <<c>> \in Seq(S) /\ <<c>> \o e.text \in Seq(S)
  BY <1>2, <1>4, ConcatProperties
<1>6. Key(e, c) \in Seq(S)
  BY <1>5 DEF Key
<1> QED BY <1>3, <1>6 DEF Keys, S

\* Two elements with one key have one fragment: no hash but that of the parts
\* themselves keeps them apart, and it does.
LEMMA KeyTells ==
  ASSUME NEW kind \in {Inlines, Codes}, NEW e \in kind, NEW f \in kind,
         NEW c \in Themes, NEW d \in Themes, Key(e, c) = Key(f, d)
  PROVE  Fragment(e, c) = Fragment(f, d)
<1> DEFINE S == Piece \cup Themes
<1>1. CASE kind = Inlines
  <2>1. /\ e.text \in Text /\ f.text \in Text /\ e.language = f.language
        /\ e.tag # "code" /\ f.tag # "code"
    BY <1>1 DEF Inlines
  <2>2. PICK a : a = <<c>> \o e.text
    OBVIOUS
  <2>3. PICK b : b = <<d>> \o f.text
    OBVIOUS
  <2>4. a = b
    BY <2>1, <2>2, <2>3 DEF Key
  <2>5. e.text \in Seq(S) /\ f.text \in Seq(S) /\ <<c>> \in Seq(S) /\ <<d>> \in Seq(S)
    <3>1. e.text \in Seq(S) /\ f.text \in Seq(S)
      BY <2>1, SeqMonotonic DEF Text
    <3> QED BY <3>1
  <2>6. PICK n \in Nat : n = Len(e.text)
    BY <2>5, LenProperties
  <2>7. PICK m \in Nat : m = Len(f.text)
    BY <2>5, LenProperties
  <2>8. /\ Len(<<c>>) = 1 /\ <<c>>[1] = c
        /\ Len(<<d>>) = 1 /\ <<d>>[1] = d
    OBVIOUS
  <2> HIDE DEF S
  <2>9. Len(a) = 1 + n /\ \A i \in 1..(1 + n) : a[i] = IF i <= 1 THEN <<c>>[i] ELSE e.text[i - 1]
    BY <2>2, <2>5, <2>6, <2>8, ConcatProperties
  <2>10. Len(b) = 1 + m /\ \A i \in 1..(1 + m) : b[i] = IF i <= 1 THEN <<d>>[i] ELSE f.text[i - 1]
    BY <2>3, <2>5, <2>7, <2>8, ConcatProperties
  <2>11. n = m
    BY <2>4, <2>9, <2>10
  <2>12. c = d
    <3>1. 1 \in 1..(1 + n) /\ 1 \in 1..(1 + m) /\ 1 <= 1
      OBVIOUS
    <3>2. a[1] = c /\ b[1] = d
      BY <2>8, <2>9, <2>10, <3>1
    <3> QED BY <2>4, <3>2
  <2>13. \A i \in 1..n : e.text[i] = f.text[i]
    <3>1. \A i \in 1..n : i + 1 \in 1..(1 + n) /\ ~(i + 1 <= 1) /\ (i + 1) - 1 = i
      OBVIOUS
    <3>2. \A i \in 1..n : a[i + 1] = e.text[i]
      BY <2>9, <3>1
    <3>3. \A i \in 1..n : b[i + 1] = f.text[i]
      BY <2>10, <2>11, <3>1
    <3> QED BY <2>4, <3>2, <3>3
  <2>14. e.text = f.text
    BY <2>5, <2>6, <2>7, <2>11, <2>13, SeqEqual
  <2> QED BY <2>1, <2>12, <2>14 DEF Fragment
<1>2. CASE kind = Codes
  <2>1. /\ e.text \in CodeText /\ f.text \in CodeText /\ e.language \in Plain
        /\ f.language \in Plain
        /\ e.tag = "code" /\ f.tag = "code"
    BY <1>2 DEF Codes
  <2>2. PICK a : a = e.text \o e.language
    OBVIOUS
  <2>3. PICK b : b = f.text \o f.language
    OBVIOUS
  <2>4. a \o <<c>> = b \o <<d>>
    BY <2>1, <2>2, <2>3 DEF Key
  <2>5. a \in Seq(S) /\ b \in Seq(S)
    <3>1. /\ e.text \in Seq(S) /\ f.text \in Seq(S)
          /\ e.language \in Seq(S) /\ f.language \in Seq(S)
      <4>1. Seq(Piece) \subseteq Seq(S) /\ Seq(Piece \ {Break}) \subseteq Seq(S)
        BY SeqMonotonic
      <4> QED BY <2>1, <4>1 DEF CodeText, Plain, Text
    <3> HIDE DEF S
    <3> QED BY <2>2, <2>3, <3>1, ConcatProperties
  <2>6. c \in S /\ d \in S
    OBVIOUS
  <2> HIDE DEF S
  <2>7. Append(a, c) = a \o <<c>> /\ Append(b, d) = b \o <<d>>
    BY <2>5, <2>6, AppendIsConcat
  <2>8. a = b /\ c = d
    BY <2>4, <2>5, <2>6, <2>7, AppendInjective
  <2>9. e.text = f.text /\ e.language = f.language
    <3>1. PICK t \in CodeText : t = e.text
      BY <2>1
    <3>2. PICK u \in CodeText : u = f.text
      BY <2>1
    <3>3. PICK l \in Plain : l = e.language
      BY <2>1
    <3>4. PICK m \in Plain : m = f.language
      BY <2>1
    <3>5. a = t \o l /\ a = u \o m
      BY <2>2, <2>3, <2>8, <3>1, <3>2, <3>3, <3>4
    <3>6. t = u /\ l = m
      BY <3>5, Separated
    <3> QED BY <3>1, <3>2, <3>3, <3>4, <3>6
  <2> QED BY <2>8, <2>9 DEF Fragment
<1> QED BY <1>1, <1>2

\* A hit: the entry becomes the latest.
LEMMA TouchKeeps ==
  ASSUME NEW kind \in {Inlines, Codes}, NEW cache, Sound(cache, kind),
         NEW key \in DOMAIN cache.html
  PROVE  /\ Sound(Touch(cache, key), kind)
         /\ Moves(cache.order, Touch(cache, key).order, key)
<1> DEFINE new == Latest(cache.order, key)
<1>1. /\ cache.order \in Seq(Keys) /\ IsInjective(cache.order)
      /\ Range(cache.order) = DOMAIN cache.html /\ Len(cache.order) <= MaxEntries
      /\ cache = [html |-> cache.html, order |-> cache.order]
      /\ cache.html \in UNION {[D -> Fragments] : D \in SUBSET Keys}
  BY DEF Sound, InOrder, Cache
<1>2. key \in Keys
  BY <1>1
<1>3. PICK q \in 0..(Len(cache.order) - 1) : At(cache.order, q) = key
  BY <1>1, InRange
<1>4. /\ new \in Seq(Keys) /\ IsInjective(new)
      /\ Len(new) = Len(cache.order) /\ Range(new) = Range(cache.order)
  BY <1>1, <1>3, MovedAt
<1>5. Touch(cache, key) = [html |-> cache.html, order |-> new]
  <2>1. PICK h, o : cache = [html |-> h, order |-> o] /\ cache.html = h /\ cache.order = o
    BY <1>1
  <2>2. PICK x : x = Append(Erase(o, key), key)
    OBVIOUS
  <2>3. new = x
    BY <1>1, <2>1, <2>2 DEF Latest
  <2>4. Touch(cache, key) = [cache EXCEPT !.order = x]
    BY <2>1, <2>2 DEF Touch
  <2> QED BY <2>1, <2>3, <2>4
<1> HIDE DEF new
<1>6. Touch(cache, key).html = cache.html /\ Touch(cache, key).order = new
  BY <1>5
<1>7. Touch(cache, key) \in Cache
  BY <1>1, <1>4, <1>5 DEF Cache
<1>8. Genuine(Touch(cache, key), kind)
  BY <1>6 DEF Sound, Genuine
<1>9. InOrder(Touch(cache, key))
  BY <1>1, <1>4, <1>6 DEF InOrder
<1>10. Moves(cache.order, new, key)
  BY <1>1 DEF Moves, new
<1> QED BY <1>6, <1>7, <1>8, <1>9, <1>10 DEF Sound

\* A miss: the oldest entry makes room when the cache is full.
LEMMA PutKeeps ==
  ASSUME NEW kind \in {Inlines, Codes}, NEW cache, Sound(cache, kind),
         NEW e \in kind, NEW c \in Themes, Key(e, c) \notin DOMAIN cache.html
  PROVE  /\ Sound(Put(cache, Key(e, c), Fragment(e, c)), kind)
         /\ Moves(cache.order, Put(cache, Key(e, c), Fragment(e, c)).order, Key(e, c))
<1>1. PICK key \in Keys : key = Key(e, c)
  BY KeyType
<1>2. PICK html \in Fragments : html = Fragment(e, c)
  BY KeyType
<1>3. /\ cache.order \in Seq(Keys) /\ IsInjective(cache.order)
      /\ Range(cache.order) = DOMAIN cache.html /\ Len(cache.order) <= MaxEntries
      /\ \A k \in DOMAIN cache.html : k \in Keys /\ cache.html[k] \in Fragments
      /\ \A k \in DOMAIN cache.html :
            \E f \in kind, d \in Themes : k = Key(f, d) /\ cache.html[k] = Fragment(f, d)
  BY DEF Sound, InOrder, Cache, Genuine
<1>4. PICK order \in Seq(Keys) : order = cache.order
  BY <1>3
<1>5. PICK D \in SUBSET Keys : D = DOMAIN cache.html
  BY <1>3
<1>6. Cardinality(D) = Len(order)
  BY <1>3, <1>4, <1>5, CardinalityOfList
<1>7. Len(order) \in Nat /\ MaxEntries \in Nat /\ MaxEntries # 0
  BY LimitAssumption, LenProperties
<1> DEFINE full == Cardinality(D) >= MaxEntries
           room == IF full THEN EvictOldest(cache) ELSE cache
           put == Put(cache, key, html)
<1>8. PICK rest \in Seq(Keys) : rest = IF full THEN Tail(order) ELSE order
  <2>1. order # <<>> => Tail(order) \in Seq(Keys)
    BY HeadTailProperties
  <2>2. full => order # <<>>
    BY <1>6, <1>7
  <2> QED BY <2>1, <2>2
<1>9. /\ IsInjective(rest) /\ Range(rest) \subseteq D /\ Len(rest) < MaxEntries
      /\ ~full => Len(order) < MaxEntries
      /\ full => Len(order) = MaxEntries /\ Range(rest) = D \ {Head(order)}
  <2>1. CASE full
    <3>1. Len(order) = MaxEntries /\ order # <<>>
      BY <1>3, <1>4, <1>6, <1>7, <2>1
    <3>2. /\ IsInjective(Tail(order)) /\ Len(Tail(order)) = Len(order) - 1
          /\ Range(Tail(order)) = Range(order) \ {Head(order)}
      BY <1>3, <1>4, <3>1, TailAt
    <3>3. Len(order) - 1 < MaxEntries
      BY <1>7, <3>1
    <3> QED BY <1>3, <1>4, <1>5, <1>8, <2>1, <3>1, <3>2, <3>3
  <2>2. CASE ~full
    BY <1>3, <1>4, <1>5, <1>6, <1>7, <1>8, <2>2
  <2> QED BY <2>1, <2>2
<1>10. PICK kept \in [Range(rest) -> Fragments] :
          /\ kept = room.html /\ \A k \in Range(rest) : kept[k] = cache.html[k]
  <2>1. CASE full
    <3>1. room.html = [k \in D \ {Head(order)} |-> cache.html[k]]
      BY <1>4, <1>5, <2>1 DEF EvictOldest
    <3> QED BY <1>3, <1>5, <1>9, <2>1, <3>1
  <2>2. CASE ~full
    <3>1. room.html = cache.html /\ Range(rest) = D
      BY <1>3, <1>4, <1>5, <1>8, <2>2
    <3>2. cache.html = [k \in D |-> cache.html[k]]
      BY <1>5 DEF Sound, Cache
    <3> QED BY <1>3, <1>5, <3>1, <3>2
  <2> QED BY <2>1, <2>2
<1>11. room.order = rest
  BY <1>4, <1>8 DEF EvictOldest
<1>12. put = [html  |-> [k \in DOMAIN room.html \cup {key} |->
                            IF k = key THEN html ELSE room.html[k]],
              order |-> Append(room.order, key)]
  BY <1>1, <1>5 DEF Put
<1> HIDE DEF room, full
<1> DEFINE h == [k \in Range(rest) \cup {key} |-> IF k = key THEN html ELSE kept[k]]
<1>13. put = [html |-> h, order |-> Append(rest, key)]
  BY <1>10, <1>11, <1>12
<1> HIDE DEF put
<1>14. key \notin Range(rest) /\ key \notin Range(order)
  BY <1>1, <1>3, <1>4, <1>5, <1>9
<1>15. /\ Append(rest, key) \in Seq(Keys) /\ IsInjective(Append(rest, key))
       /\ Range(Append(rest, key)) = Range(rest) \cup {key}
       /\ Len(Append(rest, key)) = Len(rest) + 1
  BY <1>9, <1>14, Appended
<1>16. h \in [Range(rest) \cup {key} -> Fragments] /\ Range(rest) \cup {key} \in SUBSET Keys
  BY <1>5, <1>9, <1>10
<1>17. DOMAIN h = Range(rest) \cup {key}
  OBVIOUS
<1>18. put.html = h /\ put.order = Append(rest, key)
  BY <1>13
<1>19. put \in Cache
  <2> HIDE DEF h
  <2> QED BY <1>13, <1>15, <1>16 DEF Cache
<1>20. Genuine(put, kind)
  <2>1. ASSUME NEW k \in Range(rest) \cup {key}
        PROVE  \E f \in kind, d \in Themes : k = Key(f, d) /\ h[k] = Fragment(f, d)
    <3>1. CASE k = key
      BY <1>1, <1>2, <3>1
    <3>2. CASE k # key
      <4>1. k \in Range(rest) /\ k \in D /\ h[k] = cache.html[k]
        BY <1>9, <1>10, <2>1, <3>2
      <4> QED BY <1>3, <1>5, <4>1
    <3> QED BY <3>1, <3>2
  <2> HIDE DEF h
  <2> QED BY <1>17, <1>18, <2>1 DEF Genuine
<1>21. InOrder(put)
  <2>1. Len(rest) + 1 <= MaxEntries
    <3>1. Len(rest) \in Nat
      BY LenProperties
    <3> QED BY <1>7, <1>9, <3>1
  <2> HIDE DEF h
  <2> QED BY <1>15, <1>17, <1>18, <2>1 DEF InOrder
<1>22. Moves(order, Append(rest, key), key)
  <2>1. CASE full
    BY <1>8, <1>9, <1>14, <2>1 DEF Moves
  <2>2. CASE ~full
    BY <1>8, <1>9, <1>14, <2>2 DEF Moves
  <2> QED BY <2>1, <2>2
<1> HIDE DEF h
<1> QED BY <1>1, <1>2, <1>4, <1>18, <1>19, <1>20, <1>21, <1>22 DEF Sound, put

\* What is decorated is what it would be decorated as anew.
LEMMA DecorateKeeps ==
  ASSUME NEW kind \in {Inlines, Codes}, NEW cache, Sound(cache, kind),
         NEW e \in kind, NEW c \in Themes
  PROVE  /\ Decorate(cache, e, c).html = Fragment(e, c)
         /\ Sound(Decorate(cache, e, c).cache, kind)
         /\ Moves(cache.order, Decorate(cache, e, c).cache.order, Key(e, c))
<1>1. CASE Key(e, c) \in DOMAIN cache.html
  <2>1. PICK f \in kind, d \in Themes :
           Key(e, c) = Key(f, d) /\ cache.html[Key(e, c)] = Fragment(f, d)
    BY <1>1 DEF Sound, Genuine
  <2>2. Fragment(e, c) = Fragment(f, d)
    BY <2>1, KeyTells
  <2>3. /\ Decorate(cache, e, c).html = Fragment(e, c)
        /\ Decorate(cache, e, c).cache = Touch(cache, Key(e, c))
    BY <1>1, <2>1, <2>2 DEF Decorate
  <2> QED BY <1>1, <2>3, TouchKeeps
<1>2. CASE Key(e, c) \notin DOMAIN cache.html
  <2>1. /\ Decorate(cache, e, c).html = Fragment(e, c)
        /\ Decorate(cache, e, c).cache = Put(cache, Key(e, c), Fragment(e, c))
    BY <1>2 DEF Decorate
  <2> QED BY <1>2, <2>1, PutKeeps
<1> QED BY <1>1, <1>2

-----------------------------------------------------------------------------
(* One page. *)

\* What Process has made of the elements so far.
Rendered ==
  {r \in [page : Seq(PageElement), inline : Cache, blocks : Cache] :
     Sound(r.inline, Inlines) /\ Sound(r.blocks, Codes)}

\* An element as it would be decorated anew.
Drawn(e, c) ==
  IF e.tag \in Decorated THEN [tag |-> e.tag, html |-> Fragment(e, c)] ELSE [tag |-> e.tag]

\* One step of process.
LEMMA PiecewiseStep ==
  ASSUME NEW r \in Rendered, NEW e \in WellFormed, NEW c \in Themes
  PROVE  /\ Piecewise(r, e, c) \in Rendered
         /\ Piecewise(r, e, c).page = Append(r.page, Drawn(e, c))
         /\ IF e.tag \in Decorated \ {"code"}
            THEN Moves(r.inline.order, Piecewise(r, e, c).inline.order, Key(e, c))
            ELSE Piecewise(r, e, c).inline = r.inline
         /\ IF e.tag = "code"
            THEN Moves(r.blocks.order, Piecewise(r, e, c).blocks.order, Key(e, c))
            ELSE Piecewise(r, e, c).blocks = r.blocks
<1>1. PICK page \in Seq(PageElement), i \in Cache, b \in Cache :
         /\ r = [page |-> page, inline |-> i, blocks |-> b]
         /\ r.page = page /\ r.inline = i /\ r.blocks = b
         /\ Sound(i, Inlines) /\ Sound(b, Codes)
  BY DEF Rendered
<1>2. Drawn(e, c) \in PageElement
  <2>1. e.tag \in Tags /\ (e.tag \in Decorated => e \in Inlines \cup Codes)
    BY DEF WellFormed, Inlines, Codes, Marks, Tags, Decorated
  <2>2. CASE e.tag \in Decorated
    BY <2>1, <2>2, KeyType DEF Drawn, PageElement
  <2>3. CASE e.tag \notin Decorated
    BY <2>1, <2>3 DEF Drawn, PageElement, Tags, Decorated
  <2> QED BY <2>2, <2>3
<1>3. PICK q \in Seq(PageElement) : q = Append(page, Drawn(e, c))
  BY <1>2, AppendProperties
<1>4. CASE e.tag \notin Decorated
  <2>1. Piecewise(r, e, c) = [r EXCEPT !.page = q]
    BY <1>1, <1>3, <1>4 DEF Piecewise, Drawn
  <2>2. Piecewise(r, e, c) = [page |-> q, inline |-> i, blocks |-> b]
    BY <1>1, <2>1
  <2>3. e.tag # "code"
    BY <1>4 DEF Decorated
  <2> QED BY <1>1, <1>3, <1>4, <2>2, <2>3 DEF Rendered
<1>5. CASE e.tag = "code"
  <2> DEFINE d == Decorate(b, e, c)
  <2>1. e \in Codes /\ e.tag \in Decorated
    BY <1>5 DEF WellFormed, Inlines, Codes, Marks, Decorated
  <2>2. d.html = Fragment(e, c) /\ Sound(d.cache, Codes) /\ Moves(b.order, d.cache.order, Key(e, c))
    BY <1>1, <2>1, DecorateKeeps
  <2>3. PICK m : m = d.cache
    OBVIOUS
  <2>4. Append(page, [tag |-> e.tag, html |-> d.html]) = q
    BY <1>3, <2>1, <2>2 DEF Drawn
  <2> HIDE DEF d
  <2>5. Piecewise(r, e, c) = [r EXCEPT !.blocks = m, !.page = q]
    BY <1>1, <1>5, <2>1, <2>3, <2>4 DEF Piecewise, d
  <2>6. Piecewise(r, e, c) = [page |-> q, inline |-> i, blocks |-> m]
    BY <1>1, <2>5
  <2>7. m \in Cache /\ Sound(m, Codes) /\ Moves(b.order, m.order, Key(e, c))
    BY <2>2, <2>3 DEF Sound
  <2>8. Piecewise(r, e, c) \in Rendered
    BY <1>1, <2>6, <2>7 DEF Rendered
  <2> QED BY <1>1, <1>3, <1>5, <2>6, <2>7, <2>8
<1>6. CASE e.tag \in Decorated \ {"code"}
  <2> DEFINE d == Decorate(i, e, c)
  <2>1. e \in Inlines
    BY <1>6 DEF WellFormed, Inlines, Codes, Marks, Decorated
  <2>2. d.html = Fragment(e, c) /\ Sound(d.cache, Inlines)
                                /\ Moves(i.order, d.cache.order, Key(e, c))
    BY <1>1, <2>1, DecorateKeeps
  <2>3. PICK m : m = d.cache
    OBVIOUS
  <2>4. Append(page, [tag |-> e.tag, html |-> d.html]) = q
    BY <1>3, <1>6, <2>2 DEF Drawn
  <2> HIDE DEF d
  <2>5. Piecewise(r, e, c) = [r EXCEPT !.inline = m, !.page = q]
    BY <1>1, <1>6, <2>3, <2>4 DEF Piecewise, d
  <2>6. Piecewise(r, e, c) = [page |-> q, inline |-> m, blocks |-> b]
    BY <1>1, <2>5
  <2>7. m \in Cache /\ Sound(m, Inlines) /\ Moves(i.order, m.order, Key(e, c))
    BY <2>2, <2>3 DEF Sound
  <2>8. Piecewise(r, e, c) \in Rendered
    BY <1>1, <2>6, <2>7 DEF Rendered
  <2> QED BY <1>1, <1>3, <1>6, <2>6, <2>7, <2>8
<1>7. "code" \in Decorated
  BY DEF Decorated
<1> QED BY <1>4, <1>5, <1>6, <1>7

\* Process takes its steps one after the other.
LEMMA ProcessRuns ==
  ASSUME NEW text, NEW es \in Seq(WellFormed), Elements(text) = es, NEW c \in Themes,
         NEW i, NEW b, NEW start \in Rendered,
         start = [page |-> <<>>, inline |-> i, blocks |-> b]
  PROVE  \E G \in [0..Len(es) -> Rendered] :
            /\ G[0] = start
            /\ \A k \in 1..Len(es) : G[k] = Piecewise(G[k - 1], es[k], c)
            /\ Process(text, c, i, b) = G[Len(es)]
<1> DEFINE n == Len(es)
           D == 1..n
           base == [page |-> <<>>, inline |-> i, blocks |-> b]
           step == [p \in Rendered \X D |-> Piecewise(p[1], es[p[2]], c)]
           Rec(f) == f = [s \in SUBSET D |->
                            IF s = {} THEN base ELSE Piecewise(f[s \ {Max(s)}], es[Max(s)], c)]
           it == CHOOSE f : Rec(f)
<1>1. n \in Nat /\ DOMAIN es = D /\ \A k \in D : es[k] \in WellFormed
  BY LenProperties, ElementOf
<1>2. Process(text, c, i, b) = it[D]
  BY <1>1 DEF Process, FoldLeft, MapThenFoldSet
<1>3. base \in Rendered
  OBVIOUS
<1> HIDE DEF base
<1>4. /\ step \in [Rendered \X D -> Rendered]
      /\ \A r \in Rendered, k \in D : step[<<r, k>>] = Piecewise(r, es[k], c)
  BY <1>1, PiecewiseStep
<1> HIDE DEF step, n
<1>5. PICK T : Folds(T, Rendered, base, step, n)
  BY <1>1, <1>3, <1>4, FoldsExist
<1>6. Rec(T)
  <2> DEFINE g == [s \in SUBSET D |->
                     IF s = {} THEN base ELSE Piecewise(T[s \ {Max(s)}], es[Max(s)], c)]
  <2>1. /\ T \in [SUBSET D -> Rendered] /\ T[{}] = base
        /\ \A s \in SUBSET D : s # {} => Max(s) \in s /\ T[s] = step[<<T[s \ {Max(s)}], Max(s)>>]
    BY <1>5 DEF Folds
  <2>2. ASSUME NEW s \in SUBSET D, s # {} PROVE T[s] = Piecewise(T[s \ {Max(s)}], es[Max(s)], c)
    <3>1. Max(s) \in D /\ s \ {Max(s)} \in SUBSET D
      BY <2>1, <2>2
    <3>2. T[s \ {Max(s)}] \in Rendered
      BY <2>1, <3>1
    <3> QED BY <1>4, <2>1, <2>2, <3>1, <3>2
  <2>3. \A s \in SUBSET D : T[s] = g[s]
    BY <2>1, <2>2
  <2>4. T = g
    <3> HIDE DEF g
    <3>1. g = [s \in SUBSET D |-> g[s]] /\ T = [s \in SUBSET D |-> T[s]]
      BY <2>1 DEF g
    <3> QED BY <2>3, <3>1
  <2> QED BY <2>4
<1> HIDE DEF Rec
<1>7. Rec(it)
  BY <1>6, Zenon
<1>8. /\ it[{}] = base
      /\ \A s \in SUBSET D : s # {} => it[s] = Piecewise(it[s \ {Max(s)}], es[Max(s)], c)
  BY <1>7 DEF Rec
<1> HIDE DEF it
<1>9. ASSUME NEW s \in SUBSET (1..n), s # {}, it[s \ {Max(s)}] \in Rendered
      PROVE  it[s] = step[<<it[s \ {Max(s)}], Max(s)>>]
  <2>1. Max(s) \in D
    BY <1>5, <1>9 DEF Folds
  <2> QED BY <1>4, <1>8, <1>9, <2>1
<1>10. PICK G : Runs(G, Rendered, base, step, n) /\ it[1..n] = G[n]
  <2>1. Takes(it, Rendered, base, step, n)
    BY <1>1, <1>3, <1>4, <1>8, <1>9 DEF Takes
  <2> QED BY <2>1, FoldRuns
<1>11. /\ G \in [0..n -> Rendered] /\ G[0] = base
       /\ \A k \in 1..n : G[k] = step[<<G[k - 1], k>>]
  BY <1>10 DEF Runs
<1>12. ASSUME NEW k \in 1..n PROVE G[k] = Piecewise(G[k - 1], es[k], c)
  <2>1. G[k - 1] \in Rendered
    <3>1. k - 1 \in 0..n
      BY <1>1
    <3> QED BY <1>11, <3>1
  <2> QED BY <1>4, <1>11, <2>1
<1> QED BY <1>2, <1>10, <1>11, <1>12 DEF n, base

\* The keys used so far.
Uses == {keys \in Seq(Keys) : IsInjective(keys)}

\* The elements whose fragments a cache keeps.
Sorts == {Decorated \ {"code"}, {"code"}}

\* The keys used so far hold nothing twice.
LEMMA NotedStep ==
  ASSUME NEW keys \in Uses, NEW e \in WellFormed, NEW tags \in Sorts, NEW c \in Themes
  PROVE  Noted(keys, e, tags, c) \in Uses
<1>1. CASE e.tag \in tags
  <2>1. e \in Inlines \cup Codes
    BY <1>1 DEF WellFormed, Inlines, Codes, Marks, Sorts, Decorated
  <2>2. Key(e, c) \in Keys
    BY <2>1, KeyType
  <2>3. Latest(keys, Key(e, c)) \in Uses
    BY <2>2, LatestPlaced DEF Uses
  <2> QED BY <1>1, <2>3 DEF Noted
<1>2. CASE e.tag \notin tags
  BY <1>2 DEF Noted
<1> QED BY <1>1, <1>2

\* Used takes its steps one after the other.
LEMMA UsedRuns ==
  ASSUME NEW page, NEW es \in Seq(WellFormed), Elements(page.text) = es, page.theme \in Themes,
         NEW tags \in Sorts
  PROVE  \E G \in [0..Len(es) -> Uses] :
            /\ G[0] = <<>>
            /\ \A k \in 1..Len(es) : G[k] = Noted(G[k - 1], es[k], tags, page.theme)
            /\ Used(page, tags) = G[Len(es)]
<1> DEFINE n == Len(es)
           D == 1..n
           base == <<>>
           step == [p \in Uses \X D |-> Noted(p[1], es[p[2]], tags, page.theme)]
           Rec(f) == f = [s \in SUBSET D |->
                            IF s = {} THEN base
              ELSE Noted(f[s \ {Max(s)}], es[Max(s)], tags, page.theme)]
           it == CHOOSE f : Rec(f)
<1>1. n \in Nat /\ DOMAIN es = D /\ \A k \in D : es[k] \in WellFormed
  BY LenProperties, ElementOf
<1>2. Used(page, tags) = it[D]
  BY <1>1 DEF Used, FoldLeft, MapThenFoldSet
<1>3. base \in Uses
  BY EmptySeq DEF Uses, IsInjective
<1> HIDE DEF base
<1>4. /\ step \in [Uses \X D -> Uses]
      /\ \A r \in Uses, k \in D : step[<<r, k>>] = Noted(r, es[k], tags, page.theme)
  BY <1>1, NotedStep
<1> HIDE DEF step, n
<1>5. PICK T : Folds(T, Uses, base, step, n)
  BY <1>1, <1>3, <1>4, FoldsExist
<1>6. Rec(T)
  <2> DEFINE g == [s \in SUBSET D |->
                     IF s = {} THEN base ELSE Noted(T[s \ {Max(s)}], es[Max(s)], tags, page.theme)]
  <2>1. /\ T \in [SUBSET D -> Uses] /\ T[{}] = base
        /\ \A s \in SUBSET D : s # {} => Max(s) \in s /\ T[s] = step[<<T[s \ {Max(s)}], Max(s)>>]
    BY <1>5 DEF Folds
  <2>2. ASSUME NEW s \in SUBSET D, s # {}
        PROVE  T[s] = Noted(T[s \ {Max(s)}], es[Max(s)], tags, page.theme)
    <3>1. Max(s) \in D /\ s \ {Max(s)} \in SUBSET D
      BY <2>1, <2>2
    <3>2. T[s \ {Max(s)}] \in Uses
      BY <2>1, <3>1
    <3> QED BY <1>4, <2>1, <2>2, <3>1, <3>2
  <2>3. \A s \in SUBSET D : T[s] = g[s]
    BY <2>1, <2>2
  <2>4. T = g
    <3> HIDE DEF g
    <3>1. g = [s \in SUBSET D |-> g[s]] /\ T = [s \in SUBSET D |-> T[s]]
      BY <2>1 DEF g
    <3> QED BY <2>3, <3>1
  <2> QED BY <2>4
<1> HIDE DEF Rec
<1>7. Rec(it)
  BY <1>6, Zenon
<1>8. /\ it[{}] = base
      /\ \A s \in SUBSET D : s # {} => it[s] = Noted(it[s \ {Max(s)}], es[Max(s)], tags, page.theme)
  BY <1>7 DEF Rec
<1> HIDE DEF it
<1>9. ASSUME NEW s \in SUBSET (1..n), s # {}, it[s \ {Max(s)}] \in Uses
      PROVE  it[s] = step[<<it[s \ {Max(s)}], Max(s)>>]
  <2>1. Max(s) \in D
    BY <1>5, <1>9 DEF Folds
  <2> QED BY <1>4, <1>8, <1>9, <2>1
<1>10. PICK G : Runs(G, Uses, base, step, n) /\ it[1..n] = G[n]
  <2>1. Takes(it, Uses, base, step, n)
    BY <1>1, <1>3, <1>4, <1>8, <1>9 DEF Takes
  <2> QED BY <2>1, FoldRuns
<1>11. /\ G \in [0..n -> Uses] /\ G[0] = base
       /\ \A k \in 1..n : G[k] = step[<<G[k - 1], k>>]
  BY <1>10 DEF Runs
<1>12. ASSUME NEW k \in 1..n PROVE G[k] = Noted(G[k - 1], es[k], tags, page.theme)
  <2>1. G[k - 1] \in Uses
    <3>1. k - 1 \in 0..n
      BY <1>1
    <3> QED BY <1>11, <3>1
  <2> QED BY <1>4, <1>11, <2>1
<1> QED BY <1>2, <1>10, <1>11, <1>12 DEF n, base

\* The element of a cache used next: it is Moves for the cache and Noted for the keys.
LEMMA RecentNoted ==
  ASSUME NEW kind, NEW cache, Sound(cache, kind), NEW keys \in Uses, NEW e \in WellFormed,
         NEW tags \in Sorts, NEW c \in Themes, NEW new,
         IF e.tag \in tags THEN Moves(cache.order, new.order, Key(e, c)) ELSE new = cache,
         Recent(cache.order, keys)
  PROVE  Recent(new.order, Noted(keys, e, tags, c))
<1>1. CASE e.tag \in tags
  <2>1. e \in Inlines \cup Codes
    BY <1>1 DEF WellFormed, Inlines, Codes, Marks, Sorts, Decorated
  <2>2. PICK key \in Keys : key = Key(e, c)
    BY <2>1, KeyType
  <2>3. cache.order \in Seq(Keys) /\ IsInjective(cache.order) /\ Len(cache.order) <= MaxEntries
    BY DEF Sound, InOrder, Cache
  <2>4. PICK p \in Nat : Placed(cache.order, new.order, key, p)
    BY <1>1, <2>2, <2>3, MovesPlaced
  <2>5. keys \in Seq(Keys) /\ IsInjective(keys)
    BY DEF Uses
  <2>6. PICK q \in Nat : Placed(keys, Latest(keys, key), key, q)
    BY <2>5, LatestPlaced
  <2>7. Recent(new.order, Latest(keys, key))
    BY <2>3, <2>4, <2>5, <2>6, RecentKept
  <2> QED BY <1>1, <2>2, <2>7 DEF Noted
<1>2. CASE e.tag \notin tags
  BY <1>2 DEF Noted
<1> QED BY <1>1, <1>2

\* The page of the elements of a text.
PageOf(es, c) == [k \in 1..Len(es) |-> Drawn(es[k], c)]

\* From sound caches Process makes sound caches, the page it would make from empty ones,
\* and leaves in the caches what the page has used last.
LEMMA ProcessKeeps ==
  ASSUME NEW page, NEW es \in Seq(WellFormed), Elements(page.text) = es, page.theme \in Themes,
         NEW i \in Cache, NEW b \in Cache, Sound(i, Inlines), Sound(b, Codes)
  PROVE  LET r == Process(page.text, page.theme, i, b)
         IN  /\ r \in Rendered
             /\ r.page = PageOf(es, page.theme)
             /\ Recent(r.inline.order, Used(page, Decorated \ {"code"}))
             /\ Recent(r.blocks.order, Used(page, {"code"}))
<1>1. PICK n \in Nat : n = Len(es) /\ DOMAIN es = 1..n
  BY LenProperties
<1>2. PICK c \in Themes : c = page.theme
  OBVIOUS
<1> DEFINE base == [page |-> <<>>, inline |-> i, blocks |-> b]
<1>3. base \in Rendered
  <2>1. <<>> \in Seq(PageElement)
    OBVIOUS
  <2> QED BY <2>1 DEF Rendered
<1>s. PICK start \in Rendered : start = base
  BY <1>3
<1>4. PICK G \in [0..n -> Rendered] :
         /\ G[0] = base
         /\ \A k \in 1..n : G[k] = Piecewise(G[k - 1], es[k], c)
         /\ Process(page.text, c, i, b) = G[n]
  <2>1. PICK text : text = page.text
    OBVIOUS
  <2>2. Elements(text) = es
    BY <2>1
  <2>3. \E G \in [0..Len(es) -> Rendered] :
           /\ G[0] = start
           /\ \A k \in 1..Len(es) : G[k] = Piecewise(G[k - 1], es[k], c)
           /\ Process(text, c, i, b) = G[Len(es)]
    BY <1>s, <2>2, ProcessRuns
  <2> QED BY <1>1, <1>s, <2>1, <2>3
<1>u. \A tags \in Sorts :
         \E U \in [0..Len(es) -> Uses] :
            /\ U[0] = <<>>
            /\ \A k \in 1..Len(es) : U[k] = Noted(U[k - 1], es[k], tags, page.theme)
            /\ Used(page, tags) = U[Len(es)]
  BY UsedRuns
<1>t. PICK others \in Sorts, code \in Sorts : others = Decorated \ {"code"} /\ code = {"code"}
  BY DEF Sorts
<1>5. PICK U \in [0..n -> Uses] :
         /\ U[0] = <<>>
         /\ \A k \in 1..n : U[k] = Noted(U[k - 1], es[k], others, c)
         /\ Used(page, others) = U[n]
  BY <1>1, <1>2, <1>u
<1>6. PICK V \in [0..n -> Uses] :
         /\ V[0] = <<>>
         /\ \A k \in 1..n : V[k] = Noted(V[k - 1], es[k], code, c)
         /\ Used(page, code) = V[n]
  BY <1>1, <1>2, <1>u
<1>7. G[0].page = <<>>
  BY <1>4
<1> HIDE DEF base
<1> DEFINE Done(k) ==
             /\ Len(G[k].page) = k
             /\ \A m \in 1..k : G[k].page[m] = Drawn(es[m], c)
             /\ Recent(G[k].inline.order, U[k])
             /\ Recent(G[k].blocks.order, V[k])
           S == {k \in Nat : k <= n => Done(k)}
<1>8. 0 \in S
  <2>1. Len(<<>>) = 0 /\ \A j \in Nat : ~(j < 0)
    OBVIOUS
  <2>2. Recent(G[0].inline.order, U[0]) /\ Recent(G[0].blocks.order, V[0])
    BY <1>5, <1>6, <2>1 DEF Recent
  <2> QED BY <1>7, <2>1, <2>2
<1>9. ASSUME NEW k \in Nat, k \in S PROVE k + 1 \in S
  <2>1. SUFFICES ASSUME k + 1 <= n PROVE Done(k + 1)
    OBVIOUS
  <2>2. Done(k)
    <3> HIDE DEF Done
    <3>1. k <= n
      BY <1>1, <2>1
    <3> QED BY <1>9, <3>1
  <2>3. k + 1 \in 1..n /\ (k + 1) - 1 = k /\ k \in 0..n /\ k + 1 \in 0..n
    BY <1>1, <2>1
  <2>4. PICK r \in Rendered : r = G[k]
    BY <1>4, <2>3
  <2>5. PICK e \in WellFormed : e = es[k + 1]
    BY <1>1, <2>3, ElementOf
  <2>6. PICK s : s = Piecewise(r, e, c) /\ s = G[k + 1]
    BY <1>4, <2>3, <2>4, <2>5
  <2>7. U[k] \in Uses /\ V[k] \in Uses
    BY <1>5, <1>6, <2>3
  <2>8. U[k + 1] = Noted(U[k], e, others, c) /\ V[k + 1] = Noted(V[k], e, code, c)
    BY <1>5, <1>6, <2>3, <2>5
  <2>9. /\ Len(r.page) = k
        /\ \A m \in 1..k : r.page[m] = Drawn(es[m], c)
        /\ Recent(r.inline.order, U[k])
        /\ Recent(r.blocks.order, V[k])
    BY <2>2, <2>4
  <2> HIDE DEF Done
  <2>10. /\ s \in Rendered
         /\ s.page = Append(r.page, Drawn(e, c))
         /\ IF e.tag \in Decorated \ {"code"}
            THEN Moves(r.inline.order, s.inline.order, Key(e, c))
            ELSE s.inline = r.inline
         /\ IF e.tag = "code"
            THEN Moves(r.blocks.order, s.blocks.order, Key(e, c))
            ELSE s.blocks = r.blocks
    <3>1. /\ Piecewise(r, e, c) \in Rendered
          /\ Piecewise(r, e, c).page = Append(r.page, Drawn(e, c))
          /\ IF e.tag \in Decorated \ {"code"}
             THEN Moves(r.inline.order, Piecewise(r, e, c).inline.order, Key(e, c))
             ELSE Piecewise(r, e, c).inline = r.inline
          /\ IF e.tag = "code"
             THEN Moves(r.blocks.order, Piecewise(r, e, c).blocks.order, Key(e, c))
             ELSE Piecewise(r, e, c).blocks = r.blocks
      BY PiecewiseStep
    <3> QED BY <2>6, <3>1
  <2>11. r.page \in Seq(PageElement) /\ Sound(r.inline, Inlines) /\ Sound(r.blocks, Codes)
    BY DEF Rendered
  <2>12. Recent(s.inline.order, U[k + 1])
    <3>1. PICK cache, new : cache = r.inline /\ new = s.inline
      OBVIOUS
    <3>2. PICK keys \in Uses : keys = U[k]
      BY <2>7
    <3>3. IF e.tag \in others THEN Moves(cache.order, new.order, Key(e, c)) ELSE new = cache
      BY <1>t, <2>10, <3>1
    <3>4. Sound(cache, Inlines) /\ Recent(cache.order, keys)
      BY <2>9, <2>11, <3>1, <3>2
    <3>5. Recent(new.order, Noted(keys, e, others, c))
      BY <3>3, <3>4, RecentNoted
    <3> QED BY <1>t, <2>8, <3>1, <3>2, <3>5
  <2>13. Recent(s.blocks.order, V[k + 1])
    <3>1. PICK cache, new : cache = r.blocks /\ new = s.blocks
      OBVIOUS
    <3>2. PICK keys \in Uses : keys = V[k]
      BY <2>7
    <3>3. IF e.tag \in code THEN Moves(cache.order, new.order, Key(e, c)) ELSE new = cache
      BY <1>t, <2>10, <3>1
    <3>4. Sound(cache, Codes) /\ Recent(cache.order, keys)
      BY <2>9, <2>11, <3>1, <3>2
    <3>5. Recent(new.order, Noted(keys, e, code, c))
      BY <3>3, <3>4, RecentNoted
    <3> QED BY <1>t, <2>8, <3>1, <3>2, <3>5
  <2>14. s.page \in Seq(PageElement)
    BY <2>10 DEF Rendered
  <2>15. Len(s.page) = k + 1 /\ \A m \in 1..(k + 1) : s.page[m] = Drawn(es[m], c)
    <3>1. PICK p \in Seq(PageElement) : p = r.page
      BY <2>11
    <3>2. PICK d : d = Drawn(e, c)
      OBVIOUS
    <3>3. /\ Len(Append(p, d)) = k + 1 /\ Append(p, d)[k + 1] = d
          /\ \A m \in 1..k : Append(p, d)[m] = p[m]
      BY <2>9, <3>1
    <3>4. \A m \in 1..(k + 1) : m \in 1..k \/ m = k + 1
      OBVIOUS
    <3> QED BY <2>5, <2>9, <2>10, <3>1, <3>2, <3>3, <3>4
  <2> QED BY <2>6, <2>12, <2>13, <2>15 DEF Done
<1>10. Done(n)
  <2> HIDE DEF Done
  <2>1. Nat \subseteq S
    <3> HIDE DEF S
    <3> QED BY <1>8, <1>9, Induction
  <2> QED BY <2>1
<1>11. n \in 0..n
  OBVIOUS
<1>12. G[n] \in Rendered
  BY <1>4, <1>11
<1>13. G[n].page = PageOf(es, c)
  <2>1. PICK p \in Seq(PageElement) : p = G[n].page
    BY <1>12 DEF Rendered
  <2>2. DOMAIN p = 1..n /\ p = [m \in 1..n |-> p[m]]
    BY <1>10, <2>1, LenProperties
  <2>3. \A m \in 1..n : p[m] = Drawn(es[m], c)
    BY <1>10, <2>1
  <2> QED BY <1>1, <2>1, <2>2, <2>3 DEF PageOf
<1> QED BY <1>2, <1>4, <1>5, <1>6, <1>10, <1>12, <1>13, <1>t

\* What is used last is kept.
LEMMA RecentIsKept ==
  ASSUME NEW kind, NEW cache, Sound(cache, kind), NEW keys \in Seq(Keys),
         Recent(cache.order, keys)
  PROVE  Kept(keys, cache)
<1>1. PICK n \in Nat : n = Len(keys) /\ DOMAIN keys = 1..n
  BY LenProperties
<1>2. cache.order \in Seq(Keys) /\ Range(cache.order) = DOMAIN cache.html
  BY DEF Sound, InOrder, Cache
<1>3. PICK order \in Seq(Keys) : order = cache.order
  BY <1>2
<1>4. MaxEntries \in Nat
  BY LimitAssumption
<1>5. SUFFICES ASSUME NEW i \in 1..n, i > n - MaxEntries PROVE keys[i] \in Range(order)
  BY <1>1, <1>2, <1>3 DEF Kept
<1>6. PICK j \in Nat : j = n - i
  OBVIOUS
<1>7. j < n /\ j < MaxEntries /\ n - j = i
  BY <1>4, <1>5, <1>6
<1>8. j < Len(order) /\ At(order, j) = keys[i]
  BY <1>1, <1>3, <1>7 DEF Recent, At
<1>9. j \in 0..(Len(order) - 1)
  <2>1. Len(order) \in Nat
    BY LenProperties
  <2> QED BY <1>8, <2>1
<1> QED BY <1>8, <1>9, InRange

-----------------------------------------------------------------------------
(* Elements are well formed: parts of texts. *)

\* Some indices have a greatest,
LEMMA MaxExists ==
  ASSUME NEW n \in Nat, NEW s \in SUBSET (0..n), s # {}
  PROVE  Max(s) \in s /\ \A x \in s : x <= Max(s)
<1> DEFINE N == {k \in Nat : \A r \in SUBSET (0..k) : r # {} => \E m \in r : \A x \in r : x <= m}
<1>1. 0 \in N
  <2>1. SUFFICES ASSUME NEW r \in SUBSET (0..0), r # {}
                 PROVE  \E m \in r : \A x \in r : x <= m
    OBVIOUS
  <2>2. \A x \in r : x = 0
    OBVIOUS
  <2>3. PICK z \in r : TRUE
    BY <2>1
  <2>4. \A x \in r : x <= z
    BY <2>2
  <2> QED BY <2>4
<1>2. ASSUME NEW k \in Nat, k \in N PROVE k + 1 \in N
  <2>1. SUFFICES ASSUME NEW r \in SUBSET (0..(k + 1)), r # {}
                 PROVE  \E m \in r : \A x \in r : x <= m
    OBVIOUS
  <2>2. CASE k + 1 \in r
    <3>1. \A x \in r : x <= k + 1
      OBVIOUS
    <3> QED BY <2>2, <3>1
  <2>3. CASE k + 1 \notin r
    <3>1. r \in SUBSET (0..k)
      BY <2>3
    <3> QED BY <1>2, <2>1, <3>1
  <2> QED BY <2>2, <2>3
<1> HIDE DEF N
<1>3. n \in N
  BY <1>1, <1>2, Induction
<1>4. PICK m \in s : \A x \in s : x <= m
  BY <1>3 DEF N
<1>5. Max(s) = m
  <2>1. s \subseteq Nat
    OBVIOUS
  <2> QED BY <1>4, <2>1, MaxOf
<1> QED BY <1>4, <1>5

\* and the least.
LEMMA MinExists ==
  ASSUME NEW n \in Nat, NEW s \in SUBSET (0..n), s # {}
  PROVE  Min(s) \in s /\ \A x \in s : Min(s) <= x
<1> DEFINE t == {n - x : x \in s}
<1>1. t \in SUBSET (0..n) /\ t # {}
  <2>1. \A x \in s : n - x \in 0..n
    OBVIOUS
  <2> QED BY <2>1
<1>2. Max(t) \in t /\ \A x \in t : x <= Max(t)
  BY <1>1, MaxExists
<1>3. PICK m \in s : Max(t) = n - m
  BY <1>2
<1>4. \A x \in s : m <= x
  <2>1. \A x \in s : n - x \in t
    OBVIOUS
  <2> HIDE DEF t
  <2>2. \A x \in s : n - x <= n - m
    BY <1>2, <1>3, <2>1
  <2> QED BY <2>2
<1> HIDE DEF t
<1>5. \E y \in s : \A x \in s : y <= x
  BY <1>4
<1> QED BY <1>5 DEF Min

\* A part of a sequence.
LEMMA PartOf ==
  ASSUME NEW S, NEW s \in Seq(S), NEW a \in Nat \ {0}, NEW b \in Nat, b <= Len(s)
  PROVE  SubSeq(s, a, b) \in Seq(S)
<1>1. a \in Int /\ b \in Int
  OBVIOUS
<1>2. \A i \in a..b : s[i] \in S
  <2>1. Len(s) \in Nat
    BY LenProperties
  <2>2. \A i \in a..b : i \in 1..Len(s)
    BY <2>1
  <2>3. \A i \in 1..Len(s) : s[i] \in S
    BY ElementOf
  <2> QED BY <2>2, <2>3
<1> QED BY <1>1, <1>2, SubSeqProperties

\* Trimming (Pipeline::trim).
LEMMA TrimType ==
  ASSUME NEW S, NEW text \in Seq(S)
  PROVE  Trim(text) \in Seq(S)
<1>1. PICK n \in Nat : n = Len(text) /\ DOMAIN text = 1..n
  BY LenProperties
<1> DEFINE ink == {i \in DOMAIN text : text[i] \notin {Blank, Break}}
<1>2. CASE ink = {}
  <2>1. Trim(text) = <<>>
    BY <1>2 DEF Trim
  <2> QED BY <2>1, EmptySeq
<1>3. CASE ink # {}
  <2>1. Trim(text) = SubSeq(text, Min(ink), Max(ink))
    BY <1>3 DEF Trim
  <2>2. ink \in SUBSET (0..n) /\ ink \subseteq 1..n
    BY <1>1
  <2> HIDE DEF ink
  <2>3. Min(ink) \in ink /\ Max(ink) \in ink
    BY <1>3, <2>2, MinExists, MaxExists
  <2>4. PICK a \in 1..n, b \in 1..n : a = Min(ink) /\ b = Max(ink)
    BY <2>2, <2>3
  <2>5. a \in Nat \ {0} /\ b \in Nat /\ b <= Len(text)
    BY <1>1
  <2>6. SubSeq(text, a, b) \in Seq(S)
    BY <2>5, PartOf
  <2> QED BY <2>1, <2>4, <2>6
<1> QED BY <1>2, <1>3

\* Steps can be taken.
LEMMA RunsExist ==
  ASSUME NEW A, NEW base \in A, NEW n \in Nat, NEW step \in [A \X (1..n) -> A]
  PROVE  \E G : Runs(G, A, base, step, n)
<1>1. PICK T : Folds(T, A, base, step, n)
  BY FoldsExist
<1>2. Takes(T, A, base, step, n)
  BY <1>1 DEF Folds, Takes
<1> QED BY <1>2, FoldRuns

\* The parts of the first pieces of a sequence, up to those of all of it.
Splits(G, text, separator) ==
  /\ G[0] = << <<>> >>
  /\ \A k \in 1..Len(text) :
       G[k] = IF text[k] = separator THEN Append(G[k - 1], <<>>)
              ELSE [G[k - 1] EXCEPT ![Len(G[k - 1])] = Append(@, text[k])]
  /\ SplitAt(text, separator) = G[Len(text)]

\* A sequence is split piece by piece, into parts that have no separator.
LEMMA SplitRuns ==
  ASSUME NEW S, NEW text \in Seq(S), NEW separator
  PROVE  \E G \in [0..Len(text) -> Seq(Seq(S \ {separator})) \ {<<>>}] :
            Splits(G, text, separator)
<1> DEFINE n == Len(text)
           R == S \ {separator}
           A == Seq(Seq(R)) \ {<<>>}
           Next1(before, i) == IF text[i] = separator THEN Append(before, <<>>)
                               ELSE [before EXCEPT ![Len(before)] = Append(@, text[i])]
           step == [p \in A \X (1..n) |-> Next1(p[1], p[2])]
           Rec(f) == f = [i \in 0..n |-> IF i = 0 THEN << <<>> >> ELSE Next1(f[i - 1], i)]
           it == CHOOSE f : Rec(f)
<1>1. n \in Nat /\ \A i \in 1..n : text[i] \in S
  BY LenProperties, ElementOf
<1>2. SplitAt(text, separator) = it[n]
  BY DEF SplitAt
<1> HIDE DEF n
<1>3. << <<>> >> \in A
  <2>1. <<>> \in Seq(R)
    OBVIOUS
  <2> HIDE DEF R
  <2> QED BY <2>1
<1>4. ASSUME NEW before \in A, NEW i \in 1..n PROVE Next1(before, i) \in A
  <2>1. before \in Seq(Seq(R)) /\ before # <<>>
    OBVIOUS
  <2>2. CASE text[i] = separator
    <3>1. <<>> \in Seq(R)
      OBVIOUS
    <3> HIDE DEF R
    <3>2. Append(before, <<>>) \in Seq(Seq(R)) /\ Append(before, <<>>) # <<>>
      BY <2>1, <3>1, AppendProperties
    <3> QED BY <2>2, <3>2
  <2>3. CASE text[i] # separator
    <3>1. text[i] \in R
      BY <1>1, <2>3
    <3> HIDE DEF R
    <3>2. PICK m \in Nat : m = Len(before) /\ m # 0
      BY <2>1, LenProperties, EmptySeq
    <3>3. before[m] \in Seq(R)
      <4>1. m \in 1..Len(before)
        BY <3>2
      <4> QED BY <2>1, <4>1, ElementOf
    <3>4. PICK e \in Seq(R) : e = Append(before[m], text[i])
      BY <3>1, <3>3, AppendProperties
    <3>5. [before EXCEPT ![m] = e] \in Seq(Seq(R)) /\ Len([before EXCEPT ![m] = e]) = m
      BY <2>1, <3>2, ExceptSeq
    <3>6. Next1(before, i) = [before EXCEPT ![m] = e]
      BY <2>3, <3>2, <3>4
    <3> HIDE DEF Next1
    <3>7. Next1(before, i) # <<>>
      BY <3>2, <3>5, <3>6, EmptySeq
    <3> QED BY <3>5, <3>6, <3>7
  <2> QED BY <2>2, <2>3
<1> HIDE DEF Next1, A
<1>5. /\ step \in [A \X (1..n) -> A]
      /\ \A b \in A, k \in 1..n : step[<<b, k>>] = Next1(b, k)
  BY <1>4
<1> HIDE DEF step
<1>6. PICK G : Runs(G, A, << <<>> >>, step, n)
  BY <1>1, <1>3, <1>5, RunsExist
<1>7. /\ G \in [0..n -> A] /\ G[0] = << <<>> >>
      /\ \A k \in 1..n : G[k] = step[<<G[k - 1], k>>]
  BY <1>6 DEF Runs
<1>8. \A k \in 1..n : G[k] = Next1(G[k - 1], k)
  <2>1. \A k \in 1..n : k - 1 \in 0..n
    BY <1>1
  <2>2. \A k \in 1..n : G[k - 1] \in A
    BY <1>7, <2>1
  <2> QED BY <1>5, <1>7, <2>2
<1>9. Rec(G)
  <2> DEFINE g == [i \in 0..n |-> IF i = 0 THEN << <<>> >> ELSE Next1(G[i - 1], i)]
  <2>1. \A i \in 0..n : i = 0 \/ i \in 1..n
    OBVIOUS
  <2>2. \A i \in 0..n : G[i] = g[i]
    BY <1>7, <1>8, <2>1
  <2>3. G = [i \in 0..n |-> G[i]]
    BY <1>7
  <2> QED BY <2>2, <2>3
<1> HIDE DEF Rec
<1>10. Rec(it)
  BY <1>9, Zenon
<1>11. it[0] = << <<>> >> /\ \A i \in 1..n : it[i] = Next1(it[i - 1], i)
  <2>1. it = [i \in 0..n |-> IF i = 0 THEN << <<>> >> ELSE Next1(it[i - 1], i)]
    BY <1>10 DEF Rec
  <2> HIDE DEF it
  <2>2. 0 \in 0..n /\ \A i \in 1..n : i \in 0..n /\ i # 0
    BY <1>1
  <2>3. \A i \in 0..n : it[i] = IF i = 0 THEN << <<>> >> ELSE Next1(it[i - 1], i)
    BY <2>1
  <2> QED BY <2>2, <2>3
<1> HIDE DEF it
<1> DEFINE N == {k \in Nat : k <= n => it[k] \in A}
<1>12. 0 \in N
  BY <1>3, <1>11
<1>13. ASSUME NEW k \in Nat, k \in N PROVE k + 1 \in N
  <2>1. SUFFICES ASSUME k + 1 <= n PROVE it[k + 1] \in A
    OBVIOUS
  <2>2. k + 1 \in 1..n /\ (k + 1) - 1 = k /\ it[k] \in A
    BY <1>1, <1>13, <2>1
  <2>3. it[k + 1] = Next1(it[k], k + 1)
    BY <1>11, <2>2
  <2> QED BY <1>4, <2>2, <2>3
<1> HIDE DEF N
<1>14. \A k \in 0..n : it[k] \in A
  <2>1. \A k \in 0..n : k \in N /\ k \in Nat /\ k <= n
    BY <1>1, <1>12, <1>13, Induction
  <2> QED BY <2>1 DEF N
<1>15. PICK F \in [0..n -> A] : \A k \in 0..n : F[k] = it[k]
  <2> HIDE DEF A, it
  <2>1. [k \in 0..n |-> it[k]] \in [0..n -> A]
    BY <1>14
  <2> QED BY <2>1
<1>16. /\ F[0] = << <<>> >> /\ F[n] = it[n]
       /\ \A k \in 1..n : F[k] = Next1(F[k - 1], k)
  <2>1. 0 \in 0..n /\ n \in 0..n /\ \A k \in 1..n : k \in 0..n /\ k - 1 \in 0..n
    BY <1>1
  <2> QED BY <1>11, <1>15, <2>1
<1> QED BY <1>1, <1>2, <1>15, <1>16 DEF A, R, n, Next1, Splits

\* The parts of a sequence have no separator.
LEMMA SplitType ==
  ASSUME NEW S, NEW text \in Seq(S), NEW separator
  PROVE  SplitAt(text, separator) \in Seq(Seq(S \ {separator})) \ {<<>>}
<1>1. PICK G \in [0..Len(text) -> Seq(Seq(S \ {separator})) \ {<<>>}] :
         Splits(G, text, separator)
  BY SplitRuns
<1>2. Len(text) \in 0..Len(text)
  <2>1. Len(text) \in Nat
    BY LenProperties
  <2> QED BY <2>1
<1> QED BY <1>1, <1>2 DEF Splits

-----------------------------------------------------------------------------
(* Tokens. *)

\* Lines have no line break.
LEMMA LinesType ==
  ASSUME NEW text \in Text
  PROVE  Lines(text) \in Seq(Plain)
<1>1. PICK all \in Seq(Plain) \ {<<>>} : all = SplitAt(text, Break)
  BY SplitType DEF Text, Plain
<1>2. PICK n \in Nat : n = Len(all) /\ n # 0
  BY LenProperties, EmptySeq
<1>3. Front(all) \in Seq(Plain)
  <2>1. 1 \in Nat \ {0} /\ n - 1 \in Nat /\ n - 1 <= Len(all)
    BY <1>2
  <2> QED BY <1>2, <2>1, PartOf DEF Front
<1> QED BY <1>1, <1>3 DEF Lines

\* The tokens, and the state of the tokenizer: in a block of code the buffer holds whole
\* lines.
Toks == {t \in Token : t.type = "code" => t.content \in CodeText /\ t.language \in Plain}
Reading ==
  {s \in [tokens : Seq(Toks), buffer : Text, language : Plain, inside : BOOLEAN] :
     s.inside => s.buffer \in CodeText \cup {<<>>}}

\* A state of the tokenizer, from its fields.
LEMMA Fields ==
  ASSUME NEW tokens \in Seq(Toks), NEW buffer \in Text, NEW language \in Plain,
         NEW inside \in BOOLEAN, inside => buffer \in CodeText \cup {<<>>}
  PROVE  [tokens |-> tokens, buffer |-> buffer, language |-> language, inside |-> inside]
           \in Reading
BY DEF Reading

\* What is in the buffer becomes a token,
LEMMA PushBufferType ==
  ASSUME NEW s \in Reading, NEW type \in {"paragraph", "heading", "bullet", "number", "code"},
         type = "code" => s.inside
  PROVE  /\ PushBuffer(s, type) \in Reading
         /\ PushBuffer(s, type).buffer = <<>> /\ PushBuffer(s, type).inside = s.inside
<1>1. PICK tokens \in Seq(Toks), buffer \in Text, language \in Plain, inside \in BOOLEAN :
         /\ s = [tokens |-> tokens, buffer |-> buffer, language |-> language, inside |-> inside]
         /\ inside => buffer \in CodeText \cup {<<>>}
         /\ s.tokens = tokens /\ s.buffer = buffer /\ s.language = language /\ s.inside = inside
  BY DEF Reading
<1>2. CASE buffer = <<>>
  BY <1>1, <1>2 DEF PushBuffer
<1>3. CASE buffer # <<>>
  <2> DEFINE token == [type |-> type, content |-> buffer, language |-> language]
  <2>1. token \in Toks
    <3>1. language \in Text
      BY SeqMonotonic DEF Plain, Text
    <3>2. token \in Token
      BY <3>1 DEF Token
    <3>3. type = "code" => buffer \in CodeText
      BY <1>1, <1>3
    <3> QED BY <3>2, <3>3 DEF Toks
  <2>2. PICK more \in Seq(Toks) : more = Append(tokens, token)
    BY <2>1, AppendProperties
  <2>3. PushBuffer(s, type)
          = [tokens |-> more, buffer |-> <<>>, language |-> <<>>, inside |-> inside]
    <3>1. PICK t : t = [s EXCEPT !.tokens = more, !.buffer = <<>>, !.language = <<>>]
      OBVIOUS
    <3>2. PushBuffer(s, type) = t
      BY <1>1, <1>3, <2>2, <3>1 DEF PushBuffer
    <3>3. t = [tokens |-> more, buffer |-> <<>>, language |-> <<>>, inside |-> inside]
      BY <1>1, <3>1
    <3> QED BY <3>2, <3>3
  <2>4. <<>> \in Text /\ <<>> \in Plain
    BY DEF Text, Plain
  <2>5. PushBuffer(s, type) \in Reading
    BY <2>3, <2>4, Fields
  <2> QED BY <1>1, <2>3, <2>5
<1> QED BY <1>2, <1>3

\* as does a line of its own,
LEMMA PushLineType ==
  ASSUME NEW s \in Reading, ~s.inside, NEW type \in {"heading", "bullet", "number"},
         NEW content \in Text
  PROVE  PushLine(s, type, content) \in Reading
<1>1. PICK r \in Reading : r = PushBuffer(s, "paragraph") /\ ~r.inside
  BY PushBufferType
<1>2. PICK tokens \in Seq(Toks), buffer \in Text, language \in Plain :
         r = [tokens |-> tokens, buffer |-> buffer, language |-> language, inside |-> FALSE]
  BY <1>1 DEF Reading
<1>3. PICK t : t = [r EXCEPT !.buffer = content]
  OBVIOUS
<1>4. t = [tokens |-> tokens, buffer |-> content, language |-> language, inside |-> FALSE]
  BY <1>2, <1>3
<1>5. t \in Reading
  BY <1>4, Fields
<1>6. PushLine(s, type, content) = PushBuffer(t, type)
  BY <1>1, <1>3 DEF PushLine
<1> QED BY <1>5, <1>6, PushBufferType

\* a line of dashes becomes none,
LEMMA DividerType ==
  ASSUME NEW s \in Reading, ~s.inside
  PROVE  PushLine(s, "divider", <<>>) \in Reading
<1>1. PICK r \in Reading : r = PushBuffer(s, "paragraph") /\ r.buffer = <<>>
  BY PushBufferType
<1>2. PICK t : t = [r EXCEPT !.buffer = <<>>]
  OBVIOUS
<1>3. t = r
  BY <1>1, <1>2 DEF Reading
<1>4. PushLine(s, "divider", <<>>) = r
  BY <1>1, <1>2, <1>3 DEF PushLine, PushBuffer
<1> QED BY <1>1, <1>4

\* and a row of a table becomes a paragraph.
LEMMA PushRowType ==
  ASSUME NEW s \in Reading, ~s.inside, NEW line \in Plain
  PROVE  PushRow(s, line) \in Reading
<1>1. PICK r \in Reading : r = PushBuffer(s, "paragraph") /\ ~r.inside
  BY PushBufferType
<1>2. PICK tokens \in Seq(Toks), buffer \in Text, language \in Plain :
         /\ r = [tokens |-> tokens, buffer |-> buffer, language |-> language, inside |-> FALSE]
         /\ r.tokens = tokens
  BY <1>1 DEF Reading
<1>3. PICK token \in Toks : token = [type |-> "paragraph", content |-> line, language |-> <<>>]
  <2>1. line \in Text /\ <<>> \in Text
    BY SeqMonotonic DEF Plain, Text
  <2> QED BY <2>1 DEF Toks, Token
<1>4. PICK more \in Seq(Toks) : more = Append(tokens, token)
  BY AppendProperties
<1>5. PICK t : t = [r EXCEPT !.tokens = more]
  OBVIOUS
<1>6. PushRow(s, line) = t
  BY <1>1, <1>2, <1>3, <1>4, <1>5 DEF PushRow
<1>7. t = [tokens |-> more, buffer |-> buffer, language |-> language, inside |-> FALSE]
  BY <1>2, <1>5
<1>8. t \in Reading
  BY <1>7, Fields
<1> QED BY <1>6, <1>8

\* What is added to the buffer.
LEMMA BufferType ==
  ASSUME NEW s \in Reading, NEW buffer \in Text, s.inside => buffer \in CodeText
  PROVE  [s EXCEPT !.buffer = buffer] \in Reading
<1>1. PICK tokens \in Seq(Toks), old \in Text, language \in Plain, inside \in BOOLEAN :
         /\ s = [tokens |-> tokens, buffer |-> old, language |-> language, inside |-> inside]
         /\ s.inside = inside
  BY DEF Reading
<1>2. [s EXCEPT !.buffer = buffer]
        = [tokens |-> tokens, buffer |-> buffer, language |-> language, inside |-> inside]
  BY <1>1
<1>3. inside => buffer \in CodeText \cup {<<>>}
  BY <1>1
<1> QED BY <1>2, <1>3, Fields

\* A line with its end.
LEMMA EndedLine ==
  ASSUME NEW buffer \in Text, NEW line \in Plain, NEW end \in {Break, Blank}
  PROVE  /\ buffer \o line \o <<end>> \in Text
         /\ Append(buffer, end) \in Text
         /\ end = Break => buffer \o line \o <<end>> \in CodeText
<1>1. line \in Seq(Piece) /\ buffer \in Seq(Piece) /\ end \in Piece
  BY SeqMonotonic DEF Plain, Text, Piece
<1>2. PICK a \in Seq(Piece) : a = buffer \o line
  BY <1>1, ConcatProperties
<1>3. Append(a, end) = a \o <<end>>
  BY <1>1, AppendIsConcat
<1>4. PICK n \in Nat : n = Len(a)
  BY LenProperties
<1>5. /\ Append(a, end) \in Seq(Piece) /\ Append(a, end) # <<>>
      /\ Len(Append(a, end)) = n + 1 /\ Append(a, end)[n + 1] = end
  BY <1>1, <1>4, AppendProperties
<1>6. Append(buffer, end) \in Seq(Piece)
  BY <1>1, AppendProperties
<1> QED BY <1>2, <1>3, <1>5, <1>6 DEF Text, CodeText

\* What follows the mark of a line.
LEMMA TailType ==
  ASSUME NEW line \in Plain, NEW mark, StartsWith(line, mark)
  PROVE  Tail(line) \in Plain /\ Tail(line) \in Text
<1>1. Tail(line) \in Plain
  BY HeadTailProperties DEF StartsWith, Plain
<1> QED BY <1>1, SeqMonotonic DEF Plain, Text

IsRow(line) == HasTablePipe(line) /\ line[1] \notin {Hash, Bullet, Number}

\* A line is of one kind.
LEMMA LineKinds ==
  ASSUME NEW line \in Plain
  PROVE  /\ \A m, l \in {Hash, Bullet, Number} :
               StartsWith(line, m) /\ StartsWith(line, l) => m = l
         /\ \A m \in {Hash, Bullet, Number} :
               StartsWith(line, m) => ~IsDivider(line) /\ ~IsRow(line) /\ line # <<>>
         /\ IsDivider(line) => ~IsRow(line) /\ line # <<>>
         /\ IsRow(line) => line # <<>>
<1>1. PICK n \in Nat : n = Len(line) /\ DOMAIN line = 1..n /\ (line # <<>> => 1 \in 1..n)
  BY LenProperties, EmptySeq DEF Plain
<1>2. Hash # Rule /\ Bullet # Rule /\ Number # Rule /\ Pipe # Rule
  BY DEF Hash, Rule, Bullet, Number, Pipe
<1>3. \A m, l \in {Hash, Bullet, Number} : StartsWith(line, m) /\ StartsWith(line, l) => m = l
  BY DEF StartsWith
<1>4. ASSUME NEW m \in {Hash, Bullet, Number}, StartsWith(line, m)
      PROVE  ~IsDivider(line) /\ ~IsRow(line) /\ line # <<>>
  <2>1. line # <<>> /\ line[1] = m
    BY <1>4 DEF StartsWith
  <2> QED BY <1>1, <1>2, <2>1 DEF IsDivider, IsRow
<1>5. IsRow(line) => line # <<>>
  BY <1>1 DEF IsRow, HasTablePipe, Contains
<1>6. IsDivider(line) => ~IsRow(line) /\ line # <<>>
  BY <1>1, <1>2 DEF IsDivider, IsRow, HasTablePipe, Contains
<1> QED BY <1>3, <1>4, <1>5, <1>6

\* A line outside a block of code (parse_markdown_elements).
LEMMA ParseType ==
  ASSUME NEW s \in Reading, ~s.inside, NEW line \in Plain
  PROVE  ParseMarkdownElements(s, line) \in Reading
<1> DEFINE p == ParseMarkdownElements(s, line)
<1>0. /\ Hash # Bullet /\ Hash # Number /\ Bullet # Number
      /\ (HasTablePipe(line) /\ line[1] \notin {Hash, Bullet, Number}) <=> IsRow(line)
  BY DEF Hash, Bullet, Number, IsRow
<1>1. CASE StartsWith(line, Hash)
  <2>1. p = PushLine(s, "heading", Tail(line))
    BY <1>0, <1>1, LineKinds DEF ParseMarkdownElements
  <2> QED BY <1>1, <2>1, TailType, PushLineType
<1>2. CASE ~StartsWith(line, Hash) /\ IsDivider(line)
  <2>1. p = PushLine(s, "divider", <<>>)
    BY <1>0, <1>2, LineKinds DEF ParseMarkdownElements
  <2> QED BY <2>1, DividerType
<1>3. CASE ~StartsWith(line, Hash) /\ ~IsDivider(line) /\ StartsWith(line, Bullet)
  <2>1. p = PushLine(s, "bullet", Tail(line))
    BY <1>0, <1>3, LineKinds DEF ParseMarkdownElements
  <2> QED BY <1>3, <2>1, TailType, PushLineType
<1>4. CASE /\ ~StartsWith(line, Hash) /\ ~IsDivider(line) /\ ~StartsWith(line, Bullet)
           /\ StartsWith(line, Number)
  <2>1. p = PushLine(s, "number", Tail(line))
    BY <1>0, <1>4, LineKinds DEF ParseMarkdownElements
  <2> QED BY <1>4, <2>1, TailType, PushLineType
<1>5. CASE /\ ~StartsWith(line, Hash) /\ ~IsDivider(line) /\ ~StartsWith(line, Bullet)
           /\ ~StartsWith(line, Number)
  <2>1. CASE IsRow(line)
    <3>1. p = PushRow(s, line)
      BY <1>0, <1>5, <2>1, LineKinds DEF ParseMarkdownElements
    <3> QED BY <3>1, PushRowType
  <2>2. s.buffer \in Text
    BY DEF Reading
  <2>3. CASE ~IsRow(line) /\ line = <<>>
    <3>1. p = [s EXCEPT !.buffer = Append(s.buffer, Break)]
      BY <1>0, <1>5, <2>3 DEF ParseMarkdownElements
    <3>2. PICK b \in Text : b = Append(s.buffer, Break)
      BY <2>2, EndedLine
    <3> QED BY <3>1, <3>2, BufferType
  <2>4. CASE ~IsRow(line) /\ line # <<>>
    <3>1. p = [s EXCEPT !.buffer = s.buffer \o line \o <<Blank>>]
      BY <1>0, <1>5, <2>4 DEF ParseMarkdownElements
    <3>2. PICK b \in Text : b = s.buffer \o line \o <<Blank>>
      BY <2>2, EndedLine
    <3> QED BY <3>1, <3>2, BufferType
  <2> QED BY <2>1, <2>3, <2>4
<1> QED BY <1>1, <1>2, <1>3, <1>4, <1>5

\* Any line (evaluate_line_tokens): a fence opens a block of code or ends it.
LEMMA EvaluateLineStep ==
  ASSUME NEW s \in Reading, NEW line \in Plain
  PROVE  EvaluateLine(s, line) \in Reading
<1> DEFINE e == EvaluateLine(s, line)
<1>0. s.inside \in BOOLEAN /\ s.buffer \in Text
  BY DEF Reading
<1>1. CASE StartsWith(line, Fence) /\ s.inside
  <2>1. PICK r \in Reading : r = PushBuffer(s, "code")
    BY <1>1, PushBufferType
  <2>2. PICK tokens \in Seq(Toks), buffer \in Text, language \in Plain, inside \in BOOLEAN :
           r = [tokens |-> tokens, buffer |-> buffer, language |-> language, inside |-> inside]
    BY DEF Reading
  <2>3. PICK t : t = [r EXCEPT !.inside = FALSE]
    OBVIOUS
  <2>4. e = t
    BY <1>1, <2>1, <2>3 DEF EvaluateLine
  <2>5. t = [tokens |-> tokens, buffer |-> buffer, language |-> language, inside |-> FALSE]
    BY <2>2, <2>3
  <2>6. t \in Reading
    BY <2>5, Fields
  <2> QED BY <2>4, <2>6
<1>2. CASE StartsWith(line, Fence) /\ ~s.inside
  <2>1. PICK r \in Reading : r = PushBuffer(s, "paragraph") /\ r.buffer = <<>>
    BY PushBufferType
  <2>2. PICK tokens \in Seq(Toks), language \in Plain, inside \in BOOLEAN :
           r = [tokens |-> tokens, buffer |-> <<>>, language |-> language, inside |-> inside]
    BY <2>1 DEF Reading
  <2>3. PICK name \in Plain : name = Trim(Tail(line))
    <3>1. Tail(line) \in Plain
      BY <1>2, TailType
    <3> QED BY <3>1, TrimType DEF Plain
  <2>4. PICK t : t = [r EXCEPT !.inside = TRUE, !.language = name]
    OBVIOUS
  <2>5. e = t
    BY <1>2, <2>1, <2>3, <2>4 DEF EvaluateLine
  <2>6. t = [tokens |-> tokens, buffer |-> <<>>, language |-> name, inside |-> TRUE]
    BY <2>2, <2>4
  <2>7. <<>> \in Text /\ <<>> \in CodeText \cup {<<>>}
    BY DEF Text
  <2>8. t \in Reading
    BY <2>6, <2>7, Fields
  <2> QED BY <2>5, <2>8
<1>3. CASE ~StartsWith(line, Fence) /\ s.inside
  <2>1. PICK b \in CodeText : b = s.buffer \o line \o <<Break>>
    BY <1>0, EndedLine
  <2>2. e = [s EXCEPT !.buffer = b]
    BY <1>3, <2>1 DEF EvaluateLine, CodeLine
  <2>3. b \in Text
    BY DEF CodeText
  <2> QED BY <2>2, <2>3, BufferType
<1>4. CASE ~StartsWith(line, Fence) /\ ~s.inside
  BY <1>4, ParseType DEF EvaluateLine
<1> QED BY <1>0, <1>1, <1>2, <1>3, <1>4

\* Tokenize takes the lines one after the other.
LEMMA TokenizeRuns ==
  ASSUME NEW lines \in Seq(Plain), NEW start \in Reading
  PROVE  \E G \in [0..Len(lines) -> Reading] :
            /\ G[0] = start
            /\ \A k \in 1..Len(lines) : G[k] = EvaluateLine(G[k - 1], lines[k])
            /\ FoldLeft(EvaluateLine, start, lines) = G[Len(lines)]
<1> DEFINE n == Len(lines)
           D == 1..n
           base == start
           step == [p \in Reading \X D |-> EvaluateLine(p[1], lines[p[2]])]
           Rec(f) == f = [s \in SUBSET D |->
                            IF s = {} THEN base ELSE EvaluateLine(f[s \ {Max(s)}], lines[Max(s)])]
           it == CHOOSE f : Rec(f)
<1>1. n \in Nat /\ DOMAIN lines = D /\ \A k \in D : lines[k] \in Plain
  BY LenProperties, ElementOf
<1>2. FoldLeft(EvaluateLine, start, lines) = it[D]
  BY <1>1 DEF FoldLeft, MapThenFoldSet
<1>3. base \in Reading
  OBVIOUS
<1> HIDE DEF base
<1>4. /\ step \in [Reading \X D -> Reading]
      /\ \A r \in Reading, k \in D : step[<<r, k>>] = EvaluateLine(r, lines[k])
  BY <1>1, EvaluateLineStep
<1> HIDE DEF step, n
<1>5. PICK T : Folds(T, Reading, base, step, n)
  BY <1>1, <1>3, <1>4, FoldsExist
<1>6. Rec(T)
  <2> DEFINE g == [s \in SUBSET D |->
                     IF s = {} THEN base ELSE EvaluateLine(T[s \ {Max(s)}], lines[Max(s)])]
  <2>1. /\ T \in [SUBSET D -> Reading] /\ T[{}] = base
        /\ \A s \in SUBSET D : s # {} => Max(s) \in s /\ T[s] = step[<<T[s \ {Max(s)}], Max(s)>>]
    BY <1>5 DEF Folds
  <2>2. ASSUME NEW s \in SUBSET D, s # {} PROVE T[s] = EvaluateLine(T[s \ {Max(s)}], lines[Max(s)])
    <3>1. Max(s) \in D /\ s \ {Max(s)} \in SUBSET D
      BY <2>1, <2>2
    <3>2. T[s \ {Max(s)}] \in Reading
      BY <2>1, <3>1
    <3> QED BY <1>4, <2>1, <2>2, <3>1, <3>2
  <2>3. \A s \in SUBSET D : T[s] = g[s]
    BY <2>1, <2>2
  <2>4. T = g
    <3> HIDE DEF g
    <3>1. g = [s \in SUBSET D |-> g[s]] /\ T = [s \in SUBSET D |-> T[s]]
      BY <2>1 DEF g
    <3> QED BY <2>3, <3>1
  <2> QED BY <2>4
<1> HIDE DEF Rec
<1>7. Rec(it)
  BY <1>6, Zenon
<1>8. /\ it[{}] = base
      /\ \A s \in SUBSET D : s # {} => it[s] = EvaluateLine(it[s \ {Max(s)}], lines[Max(s)])
  BY <1>7 DEF Rec
<1> HIDE DEF it
<1>9. ASSUME NEW s \in SUBSET (1..n), s # {}, it[s \ {Max(s)}] \in Reading
      PROVE  it[s] = step[<<it[s \ {Max(s)}], Max(s)>>]
  <2>1. Max(s) \in D
    BY <1>5, <1>9 DEF Folds
  <2> QED BY <1>4, <1>8, <1>9, <2>1
<1>10. PICK G : Runs(G, Reading, base, step, n) /\ it[1..n] = G[n]
  <2>1. Takes(it, Reading, base, step, n)
    BY <1>1, <1>3, <1>4, <1>8, <1>9 DEF Takes
  <2> QED BY <2>1, FoldRuns
<1>11. /\ G \in [0..n -> Reading] /\ G[0] = base
       /\ \A k \in 1..n : G[k] = step[<<G[k - 1], k>>]
  BY <1>10 DEF Runs
<1>12. ASSUME NEW k \in 1..n PROVE G[k] = EvaluateLine(G[k - 1], lines[k])
  <2>1. G[k - 1] \in Reading
    <3>1. k - 1 \in 0..n
      BY <1>1
    <3> QED BY <1>11, <3>1
  <2> QED BY <1>4, <1>11, <2>1
<1> QED BY <1>2, <1>10, <1>11, <1>12 DEF n, base

\* The tokens of a text: those of code end their last line.
LEMMA TokenizeType ==
  ASSUME NEW text \in Text
  PROVE  Tokenize(text) \in Seq(Toks)
<1>1. PICK lines \in Seq(Plain) : lines = Lines(text)
  BY LinesType
<1>2. PICK start \in Reading :
         start = [tokens |-> <<>>, buffer |-> <<>>, language |-> <<>>, inside |-> FALSE]
  <2>1. <<>> \in Seq(Toks) /\ <<>> \in Text /\ <<>> \in Plain
    BY DEF Text, Plain
  <2> QED BY <2>1, Fields
<1>3. PICK n \in Nat : n = Len(lines) /\ n \in 0..n
  BY LenProperties
<1>4. FoldLeft(EvaluateLine, start, lines) \in Reading
  <2>1. PICK G \in [0..Len(lines) -> Reading] :
           FoldLeft(EvaluateLine, start, lines) = G[Len(lines)]
    BY TokenizeRuns
  <2> QED BY <1>3, <2>1
<1>5. PICK r \in Reading : r = FoldLeft(EvaluateLine, start, lines)
  BY <1>4
<1>6. Tokenize(text) = PushBuffer(r, "paragraph").tokens
  BY <1>1, <1>2, <1>5 DEF Tokenize
<1>7. PushBuffer(r, "paragraph") \in Reading
  BY PushBufferType
<1> QED BY <1>6, <1>7 DEF Reading

-----------------------------------------------------------------------------
(* Tables. *)

\* The cells of a row are texts.
LEMMA RowCellsType ==
  ASSUME NEW text \in Text
  PROVE  RowCells(text) \in Seq(Text)
<1>1. PICK row \in Text : row = Trim(text)
  BY TrimType DEF Text
<1>2. PICK n \in Nat : n = Len(row)
  BY LenProperties DEF Text
<1>3. PICK first \in {1, 2} : first = IF row[1] = Pipe THEN 2 ELSE 1
  OBVIOUS
<1>4. PICK last \in Nat : last <= n /\ last = IF n > 1 /\ Last(row) = Pipe THEN n - 1 ELSE n
  <2>1. n > 1 => n - 1 \in Nat /\ n - 1 <= n
    OBVIOUS
  <2> QED BY <2>1
<1>5. PICK part \in Text : part = SubSeq(row, first, last)
  <2>1. first \in Nat \ {0}
    BY <1>3
  <2> QED BY <1>2, <1>4, <2>1, PartOf DEF Text
<1>6. RowCells(text) = SplitAt(part, Pipe)
  BY <1>1, <1>2, <1>3, <1>4, <1>5 DEF RowCells
<1>7. SplitAt(part, Pipe) \in Seq(Seq(Piece \ {Pipe}))
  BY SplitType DEF Text
<1>8. Seq(Seq(Piece \ {Pipe})) \subseteq Seq(Text)
  BY SeqMonotonic DEF Text
<1> QED BY <1>6, <1>7, <1>8

\* The rows of a table end at a token, or none follows.
LEMMA RunEndType ==
  ASSUME NEW tokens \in Seq(Toks), NEW i \in 1..Len(tokens)
  PROVE  RunEnd(tokens, i) \in (i - 1)..Len(tokens)
<1>1. PICK n \in Nat : n = Len(tokens)
  BY LenProperties
<1> DEFINE run == {k \in (i - 1)..n : \A j \in i..k : IsCandidate(tokens[j])}
<1>2. i - 1 \in run
  BY <1>1
<1>3. run \in SUBSET (0..n) /\ run \subseteq (i - 1)..n
  BY <1>1
<1>4. RunEnd(tokens, i) = Max(run)
  BY <1>1 DEF RunEnd
<1> HIDE DEF run
<1>5. Max(run) \in run
  BY <1>2, <1>3, MaxExists
<1> QED BY <1>1, <1>3, <1>4, <1>5

\* The elements of a table.
Tabular == {e \in WellFormed : e.tag \in {"table", "/table", "tr", "/tr", "th", "td"}}

\* The elements tables are made of.
LEMMA TabularType ==
  /\ \A tag \in {"table", "/table", "tr", "/tr"} : Mark(tag) \in Tabular
  /\ \A tag \in {"th", "td"}, text \in Text : Element(tag, text) \in Tabular
<1>1. <<>> \in Text
  BY DEF Text
<1>2. ASSUME NEW tag \in {"table", "/table", "tr", "/tr"} PROVE Mark(tag) \in Tabular
  BY <1>1 DEF Mark, Tabular, WellFormed, Marks, Tags, Decorated
<1>3. ASSUME NEW tag \in {"th", "td"}, NEW text \in Text PROVE Element(tag, text) \in Tabular
  BY DEF Element, Tabular, WellFormed, Inlines, Decorated
<1> QED BY <1>2, <1>3

\* A row of a table, filled up to the columns of its header.
LEMMA RowType ==
  ASSUME NEW tag \in {"th", "td"}, NEW cells \in Seq(Text), NEW columns \in Nat
  PROVE  Row(tag, cells, columns) \in Seq(Tabular)
<1> DEFINE Cell(c) == Element(tag, IF c \in DOMAIN cells THEN Trim(cells[c]) ELSE <<>>)
           middle == [c \in 1..columns |-> Cell(c)]
<1>1. ASSUME NEW c \in 1..columns PROVE Cell(c) \in Tabular
  <2>1. CASE c \in DOMAIN cells
    <3>1. cells[c] \in Text
      BY <2>1, LenProperties, ElementOf
    <3>2. Trim(cells[c]) \in Text
      BY <3>1, TrimType DEF Text
    <3> QED BY <2>1, <3>2, TabularType
  <2>2. CASE c \notin DOMAIN cells
    <3>1. <<>> \in Text
      BY DEF Text
    <3> QED BY <2>2, <3>1, TabularType
  <2> QED BY <2>1, <2>2
<1> HIDE DEF Cell
<1>2. middle \in Seq(Tabular)
  BY <1>1
<1>3. <<Mark("tr")>> \in Seq(Tabular) /\ <<Mark("/tr")>> \in Seq(Tabular)
  BY TabularType
<1>4. Row(tag, cells, columns) = (<<Mark("tr")>> \o middle) \o <<Mark("/tr")>>
  BY DEF Row, Cell
<1> HIDE DEF middle
<1>5. <<Mark("tr")>> \o middle \in Seq(Tabular)
  BY <1>2, <1>3, ConcatProperties
<1> QED BY <1>3, <1>4, <1>5, ConcatProperties

\* The rows of a table follow one another.
LEMMA RowsRun ==
  ASSUME NEW tokens \in Seq(Toks), NEW columns \in Nat, NEW ks \in Seq(1..Len(tokens))
  PROVE  \E G \in [0..Len(ks) -> Seq(Tabular)] :
            /\ G[0] = <<>>
            /\ \A k \in 1..Len(ks) :
                  G[k] = G[k - 1] \o Row("td", RowCells(tokens[ks[k]].content), columns)
            /\ FoldLeft(LAMBDA rows, k : rows \o Row("td", RowCells(tokens[k].content), columns),
                        <<>>, ks) = G[Len(ks)]
<1> DEFINE n == Len(ks)
           D == 1..n
           base == <<>>
           step == [p \in Seq(Tabular) \X D |->
                       (p[1] \o Row("td", RowCells(tokens[ks[p[2]]].content), columns))]
           Rec(f) == f = [s \in SUBSET D |->
                            IF s = {} THEN base
              ELSE (f[s \ {Max(s)}] \o Row("td", RowCells(tokens[ks[Max(s)]].content), columns))]
           it == CHOOSE f : Rec(f)
<1>1. n \in Nat /\ DOMAIN ks = D /\ \A k \in D : ks[k] \in 1..Len(tokens)
  BY LenProperties, ElementOf
<1>2. FoldLeft(LAMBDA rows, k : rows \o Row("td", RowCells(tokens[k].content), columns), <<>>, ks)
              = it[D]
  BY <1>1 DEF FoldLeft, MapThenFoldSet
<1>3. base \in Seq(Tabular)
  OBVIOUS
<1> HIDE DEF base
<1>4. /\ step \in [Seq(Tabular) \X D -> Seq(Tabular)]
      /\ \A r \in Seq(Tabular), k \in D : step[<<r, k>>] =
                  (r \o Row("td", RowCells(tokens[ks[k]].content), columns))
  <2>1. ASSUME NEW r \in Seq(Tabular), NEW k \in D
        PROVE  r \o Row("td", RowCells(tokens[ks[k]].content), columns) \in Seq(Tabular)
    <3>1. tokens[ks[k]] \in Toks
      BY <1>1, ElementOf
    <3>2. tokens[ks[k]].content \in Text
      BY <3>1 DEF Toks, Token
    <3>3. RowCells(tokens[ks[k]].content) \in Seq(Text)
      BY <3>2, RowCellsType
    <3>4. Row("td", RowCells(tokens[ks[k]].content), columns) \in Seq(Tabular)
      BY <3>3, RowType
    <3> QED BY <3>4, ConcatProperties
  <2> HIDE DEF D
  <2> QED BY <2>1
<1> HIDE DEF step, n
<1>5. PICK T : Folds(T, Seq(Tabular), base, step, n)
  BY <1>1, <1>3, <1>4, FoldsExist
<1>6. Rec(T)
  <2> DEFINE g == [s \in SUBSET D |->
                     IF s = {} THEN base
              ELSE (T[s \ {Max(s)}] \o Row("td", RowCells(tokens[ks[Max(s)]].content), columns))]
  <2>1. /\ T \in [SUBSET D -> Seq(Tabular)] /\ T[{}] = base
        /\ \A s \in SUBSET D : s # {} => Max(s) \in s /\ T[s] = step[<<T[s \ {Max(s)}], Max(s)>>]
    BY <1>5 DEF Folds
  <2>2. ASSUME NEW s \in SUBSET D, s # {}
        PROVE  T[s] = (T[s \ {Max(s)}] \o Row("td", RowCells(tokens[ks[Max(s)]].content), columns))
    <3>1. Max(s) \in D /\ s \ {Max(s)} \in SUBSET D
      BY <2>1, <2>2
    <3>2. T[s \ {Max(s)}] \in Seq(Tabular)
      BY <2>1, <3>1
    <3> QED BY <1>4, <2>1, <2>2, <3>1, <3>2
  <2>3. \A s \in SUBSET D : T[s] = g[s]
    BY <2>1, <2>2
  <2>4. T = g
    <3> HIDE DEF g
    <3>1. g = [s \in SUBSET D |-> g[s]] /\ T = [s \in SUBSET D |-> T[s]]
      BY <2>1 DEF g
    <3> QED BY <2>3, <3>1
  <2> QED BY <2>4
<1> HIDE DEF Rec
<1>7. Rec(it)
  BY <1>6, Zenon
<1>8. /\ it[{}] = base
      /\ \A s \in SUBSET D : s # {} =>
              it[s] = (it[s \ {Max(s)}] \o Row("td", RowCells(tokens[ks[Max(s)]].content), columns))
  BY <1>7 DEF Rec
<1> HIDE DEF it
<1>9. ASSUME NEW s \in SUBSET (1..n), s # {}, it[s \ {Max(s)}] \in Seq(Tabular)
      PROVE  it[s] = step[<<it[s \ {Max(s)}], Max(s)>>]
  <2>1. Max(s) \in D
    BY <1>5, <1>9 DEF Folds
  <2> QED BY <1>4, <1>8, <1>9, <2>1
<1>10. PICK G : Runs(G, Seq(Tabular), base, step, n) /\ it[1..n] = G[n]
  <2>1. Takes(it, Seq(Tabular), base, step, n)
    BY <1>1, <1>3, <1>4, <1>8, <1>9 DEF Takes
  <2> QED BY <2>1, FoldRuns
<1>11. /\ G \in [0..n -> Seq(Tabular)] /\ G[0] = base
       /\ \A k \in 1..n : G[k] = step[<<G[k - 1], k>>]
  BY <1>10 DEF Runs
<1>12. ASSUME NEW k \in 1..n
       PROVE  G[k] = (G[k - 1] \o Row("td", RowCells(tokens[ks[k]].content), columns))
  <2>1. G[k - 1] \in Seq(Tabular)
    <3>1. k - 1 \in 0..n
      BY <1>1
    <3> QED BY <1>11, <3>1
  <2> QED BY <1>4, <1>11, <2>1
<1> QED BY <1>2, <1>10, <1>11, <1>12 DEF n, base

\* A table (scan_and_emit_table) has no elements but its own.
LEMMA TableType ==
  ASSUME NEW tokens \in Seq(Toks), NEW i \in 1..Len(tokens), RunEnd(tokens, i) > i
  PROVE  Table(tokens, i) \in Seq(Tabular)
<1>1. PICK n \in Nat : n = Len(tokens)
  BY LenProperties
<1>2. PICK end \in (i - 1)..n : end = RunEnd(tokens, i)
  BY <1>1, RunEndType
<1> DEFINE header == RowCells(tokens[i].content)
           columns == Len(header)
           m == RunEnd(tokens, i) - i - 1
           ks == [r \in 1..m |-> i + 1 + r]
           rows == FoldLeft(LAMBDA rs, k : rs \o Row("td", RowCells(tokens[k].content), columns),
                            <<>>, ks)
           first == Row("th", header, columns)
<1>7. Table(tokens, i) = <<Mark("table")>> \o first \o rows \o <<Mark("/table")>>
  BY DEF Table
<1>3. header \in Seq(Text)
  <2>1. tokens[i] \in Toks
    BY ElementOf
  <2> QED BY <2>1, RowCellsType DEF Toks, Token
<1> HIDE DEF header
<1>4. columns \in Nat
  BY <1>3, LenProperties
<1> HIDE DEF columns
<1>5. m = end - i - 1 /\ m \in Nat
  <2>1. end - i - 1 \in Nat
    BY <1>1, <1>2
  <2> QED BY <1>2, <2>1
<1> HIDE DEF m
<1>6. ks \in Seq(1..Len(tokens))
  <2>1. \A r \in 1..m : i + 1 + r \in 1..n
    BY <1>1, <1>2, <1>5
  <2> QED BY <1>1, <1>5, <2>1
<1>8. rows \in Seq(Tabular)
  <2> HIDE DEF ks
  <2>1. PICK G \in [0..Len(ks) -> Seq(Tabular)] : rows = G[Len(ks)]
    BY <1>4, <1>6, RowsRun
  <2>2. Len(ks) \in Nat
    BY <1>6, LenProperties
  <2>3. Len(ks) \in 0..Len(ks)
    BY <2>2
  <2> HIDE DEF rows
  <2> QED BY <2>1, <2>3
<1> HIDE DEF rows
<1>9. first \in Seq(Tabular)
  BY <1>3, <1>4, RowType
<1> HIDE DEF first
<1>10. <<Mark("table")>> \in Seq(Tabular) /\ <<Mark("/table")>> \in Seq(Tabular)
  BY TabularType
<1>11. PICK a \in Seq(Tabular) : a = <<Mark("table")>> \o first
  BY <1>9, <1>10, ConcatProperties
<1>12. PICK b \in Seq(Tabular) : b = a \o rows
  BY <1>8, ConcatProperties
<1>13. PICK c \in Seq(Tabular) : c = b \o <<Mark("/table")>>
  BY <1>10, ConcatProperties
<1> QED BY <1>7, <1>11, <1>12, <1>13

-----------------------------------------------------------------------------
(* Lists in their places. *)

ListMarks == {"ul", "/ul", "ol", "/ol"}

\* The list that is open after an element.
After(open, tag) ==
  IF tag \in Lists THEN tag ELSE IF tag \in {"/ul", "/ol"} THEN "none" ELSE open

\* What is open depends on the tags before.
LEMMA OpenSame ==
  ASSUME NEW s, NEW t, NEW i \in Nat \ {0}, \A k \in 1..(i - 1) : t[k].tag = s[k].tag
  PROVE  OpenAt(t, i) = OpenAt(s, i)
<1> DEFINE marks(page) == {k \in 1..(i - 1) : page[k].tag \in {"ul", "/ul", "ol", "/ol"}}
<1>1. marks(t) = marks(s)
  OBVIOUS
<1>2. marks(s) # {} => Max(marks(s)) \in marks(s)
  <2>1. marks(s) \in SUBSET (0..i)
    OBVIOUS
  <2>2. i \in Nat
    OBVIOUS
  <2> HIDE DEF marks
  <2> QED BY <2>1, <2>2, MaxExists
<1>3. marks(s) # {} => t[Max(marks(s))].tag = s[Max(marks(s))].tag
  <2>1. marks(s) \subseteq 1..(i - 1)
    OBVIOUS
  <2> HIDE DEF marks
  <2> QED BY <1>2, <2>1
<1>4. /\ OpenAt(t, i) = IF marks(t) = {} \/ t[Max(marks(t))].tag \notin Lists THEN "none"
                        ELSE t[Max(marks(t))].tag
      /\ OpenAt(s, i) = IF marks(s) = {} \/ s[Max(marks(s))].tag \notin Lists THEN "none"
                        ELSE s[Max(marks(s))].tag
  BY DEF OpenAt
<1> HIDE DEF marks
<1> QED BY <1>1, <1>3, <1>4

\* It changes with one element.
LEMMA OpenNext ==
  ASSUME NEW s, NEW i \in Nat \ {0}
  PROVE  OpenAt(s, i + 1) = After(OpenAt(s, i), s[i].tag)
<1> DEFINE marks(j) == {k \in 1..(j - 1) : s[k].tag \in {"ul", "/ul", "ol", "/ol"}}
<1>1. \A j \in {i, i + 1} :
         OpenAt(s, j) = IF marks(j) = {} \/ s[Max(marks(j))].tag \notin Lists THEN "none"
                        ELSE s[Max(marks(j))].tag
  BY DEF OpenAt
<1>2. CASE s[i].tag \in {"ul", "/ul", "ol", "/ol"}
  <2>1. i \in marks(i + 1) /\ marks(i + 1) \subseteq Nat /\ \A x \in marks(i + 1) : x <= i
    BY <1>2
  <2> HIDE DEF marks
  <2>2. Max(marks(i + 1)) = i
    BY <2>1, MaxOf
  <2>3. OpenAt(s, i + 1) = IF s[i].tag \notin Lists THEN "none" ELSE s[i].tag
    BY <1>1, <2>1, <2>2
  <2> QED BY <1>2, <2>3 DEF After, Lists
<1>3. CASE s[i].tag \notin {"ul", "/ul", "ol", "/ol"}
  <2>1. marks(i + 1) = marks(i)
    <3>1. \A k \in 1..((i + 1) - 1) : k \in 1..(i - 1) \/ k = i
      OBVIOUS
    <3>2. 1..(i - 1) \subseteq 1..((i + 1) - 1)
      OBVIOUS
    <3> QED BY <1>3, <3>1, <3>2
  <2>2. OpenAt(s, i + 1) = OpenAt(s, i)
    <3> HIDE DEF marks
    <3> QED BY <1>1, <2>1
  <2> QED BY <1>3, <2>2 DEF After, Lists
<1> QED BY <1>2, <1>3

\* Elements in their places, after which this list is open.
Well(out, open) ==
  /\ out \in Seq(WellFormed)
  /\ OpenAt(out, Len(out) + 1) = open
  /\ \A i \in 1..Len(out) : Fits(OpenAt(out, i), out[i].tag)

\* An element in its place follows.
LEMMA Extended ==
  ASSUME NEW out, NEW open, Well(out, open), NEW x \in WellFormed, Fits(open, x.tag)
  PROVE  Well(Append(out, x), After(open, x.tag))
<1>1. PICK n \in Nat : n = Len(out) /\ out \in Seq(WellFormed)
  BY LenProperties DEF Well
<1>2. PICK o \in Seq(WellFormed) :
         /\ o = Append(out, x) /\ Len(o) = n + 1 /\ o[n + 1] = x
         /\ \A k \in 1..n : o[k] = out[k]
  <2>1. /\ Append(out, x) \in Seq(WellFormed) /\ Len(Append(out, x)) = n + 1
        /\ Append(out, x)[n + 1] = x /\ \A k \in 1..n : Append(out, x)[k] = out[k]
    BY <1>1, AppendProperties
  <2> QED BY <2>1
<1>3. ASSUME NEW i \in 1..(n + 1) PROVE OpenAt(o, i) = OpenAt(out, i)
  <2>1. i \in Nat \ {0} /\ \A k \in 1..(i - 1) : k \in 1..n
    BY <1>1
  <2>2. \A k \in 1..(i - 1) : o[k].tag = out[k].tag
    BY <1>2, <2>1
  <2> QED BY <2>1, <2>2, OpenSame
<1>4. OpenAt(o, n + 1) = open /\ n + 1 \in Nat \ {0} /\ n + 1 \in 1..(n + 1)
  <2>1. n + 1 \in 1..(n + 1)
    OBVIOUS
  <2>2. OpenAt(out, n + 1) = open
    BY <1>1 DEF Well
  <2> QED BY <1>3, <2>1, <2>2
<1>5. OpenAt(o, Len(o) + 1) = After(open, x.tag)
  <2>1. OpenAt(o, (n + 1) + 1) = After(OpenAt(o, n + 1), o[n + 1].tag)
    BY <1>4, OpenNext
  <2> QED BY <1>2, <1>4, <2>1
<1>6. ASSUME NEW i \in 1..Len(o) PROVE Fits(OpenAt(o, i), o[i].tag)
  <2>1. i \in 1..n \/ i = n + 1
    BY <1>2
  <2>2. CASE i \in 1..n
    <3>1. Fits(OpenAt(out, i), out[i].tag)
      BY <1>1, <2>2 DEF Well
    <3>2. i \in 1..(n + 1)
      BY <2>2
    <3> QED BY <1>2, <1>3, <2>2, <3>1, <3>2
  <2>3. CASE i = n + 1
    BY <1>2, <1>4, <2>3
  <2> QED BY <2>1, <2>2, <2>3
<1> QED BY <1>2, <1>5, <1>6 DEF Well

\* A table follows where no list is open.
LEMMA ExtendedByTable ==
  ASSUME NEW out, Well(out, "none"), NEW t \in Seq(Tabular)
  PROVE  Well(out \o t, "none")
<1>1. PICK n \in Nat : n = Len(out) /\ out \in Seq(WellFormed)
  BY LenProperties DEF Well
<1>2. PICK m \in Nat : m = Len(t) /\ \A k \in 1..m : t[k] \in Tabular
  BY LenProperties, ElementOf
<1>3. t \in Seq(WellFormed)
  BY SeqMonotonic DEF Tabular
<1>4. PICK o \in Seq(WellFormed) :
         /\ o = out \o t /\ Len(o) = n + m
         /\ \A k \in 1..(n + m) : o[k] = IF k <= n THEN out[k] ELSE t[k - n]
  <2>1. /\ out \o t \in Seq(WellFormed) /\ Len(out \o t) = n + m
        /\ \A k \in 1..(n + m) : (out \o t)[k] = IF k <= n THEN out[k] ELSE t[k - n]
    BY <1>1, <1>2, <1>3, ConcatProperties
  <2> QED BY <2>1
<1>5. ASSUME NEW i \in 1..(n + 1) PROVE OpenAt(o, i) = OpenAt(out, i)
  <2>1. i \in Nat \ {0} /\ \A k \in 1..(i - 1) : k \in 1..(n + m) /\ k <= n
    BY <1>1
  <2>2. \A k \in 1..(i - 1) : o[k].tag = out[k].tag
    BY <1>4, <2>1
  <2> QED BY <2>1, <2>2, OpenSame
<1>6. \A j \in 1..m : o[n + j].tag \in {"table", "/table", "tr", "/tr", "th", "td"}
  <2>1. \A j \in 1..m : n + j \in 1..(n + m) /\ ~(n + j <= n) /\ (n + j) - n = j
    OBVIOUS
  <2>2. \A j \in 1..m : o[n + j] = t[j]
    BY <1>4, <2>1
  <2> QED BY <1>2, <2>2 DEF Tabular
<1> DEFINE N == {j \in Nat : j <= m => OpenAt(o, n + 1 + j) = "none"}
<1>7. 0 \in N
  <2>1. OpenAt(out, n + 1) = "none" /\ n + 1 \in 1..(n + 1) /\ n + 1 + 0 = n + 1
    BY <1>1 DEF Well
  <2> QED BY <1>5, <2>1
<1>8. ASSUME NEW j \in Nat, j \in N PROVE j + 1 \in N
  <2>1. SUFFICES ASSUME j + 1 <= m PROVE OpenAt(o, n + 1 + (j + 1)) = "none"
    OBVIOUS
  <2>2. OpenAt(o, n + 1 + j) = "none" /\ j + 1 \in 1..m
    BY <1>2, <1>8, <2>1
  <2>3. PICK p \in Nat \ {0} : p = n + 1 + j /\ p = n + (j + 1) /\ p + 1 = n + 1 + (j + 1)
    OBVIOUS
  <2>4. OpenAt(o, p + 1) = After(OpenAt(o, p), o[p].tag)
    BY OpenNext
  <2>5. o[p].tag \in {"table", "/table", "tr", "/tr", "th", "td"}
    BY <1>6, <2>2, <2>3
  <2>6. After("none", o[p].tag) = "none"
    BY <2>5 DEF After, Lists
  <2> QED BY <2>2, <2>3, <2>4, <2>6
<1> HIDE DEF N
<1>9. Nat \subseteq N
  BY <1>7, <1>8, Induction
<1>10. \A j \in 0..m : OpenAt(o, n + 1 + j) = "none"
  <2>1. \A j \in 0..m : j \in Nat /\ j <= m
    OBVIOUS
  <2> QED BY <1>9, <2>1 DEF N
<1>11. OpenAt(o, Len(o) + 1) = "none"
  <2>1. m \in 0..m /\ n + 1 + m = (n + m) + 1
    OBVIOUS
  <2> QED BY <1>4, <1>10, <2>1
<1>12. ASSUME NEW i \in 1..Len(o) PROVE Fits(OpenAt(o, i), o[i].tag)
  <2>1. CASE i <= n
    <3>1. i \in 1..n /\ i \in 1..(n + 1) /\ i \in 1..(n + m)
      BY <1>4, <2>1
    <3>2. Fits(OpenAt(out, i), out[i].tag)
      BY <1>1, <3>1 DEF Well
    <3> QED BY <1>4, <1>5, <2>1, <3>1, <3>2
  <2>2. CASE ~(i <= n)
    <3>1. PICK j \in 0..m : j + 1 \in 1..m /\ i = n + 1 + j /\ i = n + (j + 1)
      <4>1. i - n - 1 \in 0..m /\ (i - n - 1) + 1 \in 1..m
        BY <1>4, <2>2
      <4>2. i = n + 1 + (i - n - 1) /\ i = n + ((i - n - 1) + 1)
        BY <1>4
      <4> QED BY <4>1, <4>2
    <3>2. OpenAt(o, i) = "none"
      BY <1>10, <3>1
    <3>3. o[i].tag \in {"table", "/table", "tr", "/tr", "th", "td"}
      BY <1>6, <3>1
    <3> QED BY <3>2, <3>3 DEF Fits
  <2> QED BY <2>1, <2>2
<1> QED BY <1>4, <1>11, <1>12 DEF Well

-----------------------------------------------------------------------------
(* The elements of a text. *)

OpenOf(ul, ol) == IF ul THEN "ul" ELSE IF ol THEN "ol" ELSE "none"

\* The state of emit: at most one list is open, and it is the one of its flag.
Emitting ==
  {e \in [out : Seq(WellFormed), ul : BOOLEAN, ol : BOOLEAN, next : Int] :
     ~(e.ul /\ e.ol) /\ Well(e.out, OpenOf(e.ul, e.ol))}

\* The marks of lists,
LEMMA MarkTypes ==
  \A tag \in {"ul", "/ul", "ol", "/ol"} : Mark(tag) \in WellFormed
<1>1. <<>> \in Text
  BY DEF Text
<1> QED BY <1>1 DEF Mark, WellFormed, Marks, Tags, Decorated

\* and the elements with a text.
LEMMA ElementTypes ==
  \A tag \in {"li", "heading", "paragraph"}, text \in Text : Element(tag, text) \in WellFormed
BY DEF Element, WellFormed, Inlines, Decorated

\* A list that is open is closed, the other one is left alone.
LEMMA CloseUL ==
  ASSUME NEW e \in Emitting
  PROVE  /\ Close(e, "ul") \in Emitting /\ Close(e, "ul").ul = FALSE
         /\ Close(e, "ul").ol = e.ol
<1>1. PICK out \in Seq(WellFormed), ul \in BOOLEAN, ol \in BOOLEAN, next \in Int :
         /\ e = [out |-> out, ul |-> ul, ol |-> ol, next |-> next]
         /\ ~(ul /\ ol) /\ Well(out, OpenOf(ul, ol))
  BY DEF Emitting
<1>2. e["ul"] = ul /\ e.out = out /\ e.ul = ul /\ e.ol = ol
  BY <1>1
<1>3. CASE ul
  <2>1. PICK o : o = Append(out, Mark("/ul"))
    OBVIOUS
  <2>2. Well(o, OpenOf(FALSE, ol))
    <3>1. OpenOf(ul, ol) = "ul" /\ ol = FALSE
      BY <1>1, <1>3 DEF OpenOf
    <3>2. /\ Mark("/ul") \in WellFormed /\ Mark("/ul").tag = "/ul" /\ Fits("ul", "/ul")
          /\ After("ul", "/ul") = "none" /\ OpenOf(FALSE, FALSE) = "none"
      BY MarkTypes DEF Mark, Fits, After, OpenOf, Lists
    <3>3. Well(o, After("ul", "/ul"))
      BY <1>1, <2>1, <3>1, <3>2, Extended
    <3> QED BY <3>1, <3>2, <3>3
  <2>3. PICK t : t = [e EXCEPT !.out = o, !["ul"] = FALSE]
    OBVIOUS
  <2>4. Close(e, "ul") = t
    BY <1>2, <1>3, <2>1, <2>3 DEF Close
  <2>5. t = [out |-> o, ul |-> FALSE, ol |-> ol, next |-> next]
    BY <1>1, <2>3
  <2>6. t \in Emitting
    <3>1. o \in Seq(WellFormed)
      BY <2>2 DEF Well
    <3> QED BY <2>2, <2>5, <3>1 DEF Emitting
  <2>7. t.ul = FALSE /\ t.ol = ol
    BY <2>5
  <2>8. e.ol = ol
    BY <1>2
  <2> HIDE <2>5, <1>1, <2>3
  <2> QED BY <2>4, <2>6, <2>7, <2>8
<1>4. CASE ~ul
  BY <1>2, <1>4 DEF Close
<1> QED BY <1>3, <1>4

\* The same for the other list.
LEMMA CloseOL ==
  ASSUME NEW e \in Emitting
  PROVE  /\ Close(e, "ol") \in Emitting /\ Close(e, "ol").ol = FALSE
         /\ Close(e, "ol").ul = e.ul
<1>1. PICK out \in Seq(WellFormed), ul \in BOOLEAN, ol \in BOOLEAN, next \in Int :
         /\ e = [out |-> out, ul |-> ul, ol |-> ol, next |-> next]
         /\ ~(ul /\ ol) /\ Well(out, OpenOf(ul, ol))
  BY DEF Emitting
<1>2. e["ol"] = ol /\ e.out = out /\ e.ol = ol /\ e.ul = ul
  BY <1>1
<1>3. CASE ol
  <2>1. PICK o : o = Append(out, Mark("/ol"))
    OBVIOUS
  <2>2. Well(o, OpenOf(ul, FALSE))
    <3>1. OpenOf(ul, ol) = "ol" /\ ul = FALSE
      BY <1>1, <1>3 DEF OpenOf
    <3>2. /\ Mark("/ol") \in WellFormed /\ Mark("/ol").tag = "/ol" /\ Fits("ol", "/ol")
          /\ After("ol", "/ol") = "none" /\ OpenOf(FALSE, FALSE) = "none"
      BY MarkTypes DEF Mark, Fits, After, OpenOf, Lists
    <3>3. Well(o, After("ol", "/ol"))
      BY <1>1, <2>1, <3>1, <3>2, Extended
    <3> QED BY <3>1, <3>2, <3>3
  <2>3. PICK t : t = [e EXCEPT !.out = o, !["ol"] = FALSE]
    OBVIOUS
  <2>4. Close(e, "ol") = t
    BY <1>2, <1>3, <2>1, <2>3 DEF Close
  <2>5. t = [out |-> o, ul |-> ul, ol |-> FALSE, next |-> next]
    BY <1>1, <2>3
  <2>6. t \in Emitting
    <3>1. o \in Seq(WellFormed)
      BY <2>2 DEF Well
    <3> QED BY <2>2, <2>5, <3>1 DEF Emitting
  <2>7. t.ul = ul /\ t.ol = FALSE
    BY <2>5
  <2>8. e.ul = ul
    BY <1>2
  <2> HIDE <2>5, <1>1, <2>3
  <2> QED BY <2>4, <2>6, <2>7, <2>8
<1>4. CASE ~ol
  BY <1>2, <1>4 DEF Close
<1> QED BY <1>3, <1>4

\* After close_active_lists none is open.
LEMMA ListsClosed ==
  ASSUME NEW e \in Emitting
  PROVE  \E out \in Seq(WellFormed), next \in Int :
            /\ CloseActiveLists(e) = [out |-> out, ul |-> FALSE, ol |-> FALSE, next |-> next]
            /\ Well(out, "none")
<1>1. PICK a \in Emitting : a = Close(e, "ul") /\ a.ul = FALSE
  BY CloseUL
<1>2. PICK b \in Emitting : b = Close(a, "ol") /\ b.ol = FALSE /\ b.ul = FALSE
  BY <1>1, CloseOL
<1>3. CloseActiveLists(e) = b
  BY <1>1, <1>2 DEF CloseActiveLists
<1>4. PICK out \in Seq(WellFormed), next \in Int :
         /\ b = [out |-> out, ul |-> FALSE, ol |-> FALSE, next |-> next]
         /\ Well(out, OpenOf(FALSE, FALSE))
  BY <1>2 DEF Emitting
<1>5. OpenOf(FALSE, FALSE) = "none"
  BY DEF OpenOf
<1> QED BY <1>3, <1>4, <1>5

\* An item of a list (handle_list): the other list is closed, its own one opened.
LEMMA HandleUL ==
  ASSUME NEW e \in Emitting, NEW token \in Toks
  PROVE  HandleList(e, token, "ul", "ol") \in Emitting
<1>1. PICK c \in Emitting : c = Close(e, "ol") /\ c.ol = FALSE
  BY CloseOL
<1>2. PICK out \in Seq(WellFormed), ul \in BOOLEAN, next \in Int :
         /\ c = [out |-> out, ul |-> ul, ol |-> FALSE, next |-> next]
         /\ Well(out, OpenOf(ul, FALSE))
  BY <1>1 DEF Emitting
<1>3. c["ul"] = ul /\ c.out = out
  BY <1>2
<1>4. PICK item \in WellFormed : item = Element("li", token.content) /\ item.tag = "li"
  BY ElementTypes DEF Toks, Token, Element
<1>5. PICK p : p = IF c["ul"] THEN c
                   ELSE [c EXCEPT !.out = Append(@, Mark("ul")), !["ul"] = TRUE]
  OBVIOUS
<1>6. \E o : Well(o, "ul") /\ p = [out |-> o, ul |-> TRUE, ol |-> FALSE, next |-> next]
  <2>1. CASE ul
    <3>1. Well(out, "ul")
      BY <1>2, <2>1 DEF OpenOf
    <3>2. p = c
      BY <1>3, <1>5, <2>1
    <3> QED BY <1>2, <2>1, <3>1, <3>2
  <2>2. CASE ~ul
    <3>1. PICK o : o = Append(out, Mark("ul"))
      OBVIOUS
    <3>2. Well(o, "ul")
      <4>1. OpenOf(ul, FALSE) = "none"
        BY <2>2 DEF OpenOf
      <4>2. /\ Mark("ul") \in WellFormed /\ Mark("ul").tag = "ul" /\ Fits("none", "ul")
            /\ After("none", "ul") = "ul"
        BY MarkTypes DEF Mark, Fits, After, Lists
      <4> QED BY <1>2, <3>1, <4>1, <4>2, Extended
    <3>3. p = [c EXCEPT !.out = o, !["ul"] = TRUE]
      BY <1>3, <1>5, <2>2, <3>1
    <3>4. p = [out |-> o, ul |-> TRUE, ol |-> FALSE, next |-> next]
      BY <1>2, <3>3
    <3> QED BY <3>2, <3>4
  <2> QED BY <2>1, <2>2
<1>13. PICK o : Well(o, "ul") /\ p = [out |-> o, ul |-> TRUE, ol |-> FALSE, next |-> next]
  BY <1>6
<1>14. p.out = o
  BY <1>13
<1>7. PICK q : q = Append(o, item)
  OBVIOUS
<1>8. Well(q, "ul")
  <2>1. Fits("ul", "li") /\ After("ul", "li") = "ul"
    BY DEF Fits, After, Lists
  <2> QED BY <1>4, <1>13, <1>7, <2>1, Extended
<1>9. PICK t : t = [p EXCEPT !.out = q]
  OBVIOUS
<1>10. t = [out |-> q, ul |-> TRUE, ol |-> FALSE, next |-> next]
  BY <1>13, <1>9
<1>11. HandleList(e, token, "ul", "ol") = t
  BY <1>1, <1>4, <1>5, <1>7, <1>9, <1>14 DEF HandleList
<1>12. t \in Emitting
  <2>1. q \in Seq(WellFormed)
    BY <1>8 DEF Well
  <2>2. OpenOf(TRUE, FALSE) = "ul"
    BY DEF OpenOf
  <2> QED BY <1>8, <1>10, <2>1, <2>2 DEF Emitting
<1> QED BY <1>11, <1>12

\* The same for the other list.
LEMMA HandleOL ==
  ASSUME NEW e \in Emitting, NEW token \in Toks
  PROVE  HandleList(e, token, "ol", "ul") \in Emitting
<1>1. PICK c \in Emitting : c = Close(e, "ul") /\ c.ul = FALSE
  BY CloseUL
<1>2. PICK out \in Seq(WellFormed), ol \in BOOLEAN, next \in Int :
         /\ c = [out |-> out, ul |-> FALSE, ol |-> ol, next |-> next]
         /\ Well(out, OpenOf(FALSE, ol))
  BY <1>1 DEF Emitting
<1>3. c["ol"] = ol /\ c.out = out
  BY <1>2
<1>4. PICK item \in WellFormed : item = Element("li", token.content) /\ item.tag = "li"
  BY ElementTypes DEF Toks, Token, Element
<1>5. PICK p : p = IF c["ol"] THEN c
                   ELSE [c EXCEPT !.out = Append(@, Mark("ol")), !["ol"] = TRUE]
  OBVIOUS
<1>6. \E o : Well(o, "ol") /\ p = [out |-> o, ul |-> FALSE, ol |-> TRUE, next |-> next]
  <2>1. CASE ol
    <3>1. Well(out, "ol")
      BY <1>2, <2>1 DEF OpenOf
    <3>2. p = c
      BY <1>3, <1>5, <2>1
    <3> QED BY <1>2, <2>1, <3>1, <3>2
  <2>2. CASE ~ol
    <3>1. PICK o : o = Append(out, Mark("ol"))
      OBVIOUS
    <3>2. Well(o, "ol")
      <4>1. OpenOf(FALSE, ol) = "none"
        BY <2>2 DEF OpenOf
      <4>2. /\ Mark("ol") \in WellFormed /\ Mark("ol").tag = "ol" /\ Fits("none", "ol")
            /\ After("none", "ol") = "ol"
        BY MarkTypes DEF Mark, Fits, After, Lists
      <4> QED BY <1>2, <3>1, <4>1, <4>2, Extended
    <3>3. p = [c EXCEPT !.out = o, !["ol"] = TRUE]
      BY <1>3, <1>5, <2>2, <3>1
    <3>4. p = [out |-> o, ul |-> FALSE, ol |-> TRUE, next |-> next]
      BY <1>2, <3>3
    <3> QED BY <3>2, <3>4
  <2> QED BY <2>1, <2>2
<1>13. PICK o : Well(o, "ol") /\ p = [out |-> o, ul |-> FALSE, ol |-> TRUE, next |-> next]
  BY <1>6
<1>14. p.out = o
  BY <1>13
<1>7. PICK q : q = Append(o, item)
  OBVIOUS
<1>8. Well(q, "ol")
  <2>1. Fits("ol", "li") /\ After("ol", "li") = "ol"
    BY DEF Fits, After, Lists
  <2> QED BY <1>4, <1>13, <1>7, <2>1, Extended
<1>9. PICK t : t = [p EXCEPT !.out = q]
  OBVIOUS
<1>10. t = [out |-> q, ul |-> FALSE, ol |-> TRUE, next |-> next]
  BY <1>13, <1>9
<1>11. HandleList(e, token, "ol", "ul") = t
  BY <1>1, <1>4, <1>5, <1>7, <1>9, <1>14 DEF HandleList
<1>12. t \in Emitting
  <2>1. q \in Seq(WellFormed)
    BY <1>8 DEF Well
  <2>2. OpenOf(FALSE, TRUE) = "ol"
    BY DEF OpenOf
  <2> QED BY <1>8, <1>10, <2>1, <2>2 DEF Emitting
<1> QED BY <1>11, <1>12

\* One token of emit,
LEMMA EmitTokenStep ==
  ASSUME NEW e \in Emitting, NEW token \in Toks
  PROVE  EmitToken(e, token) \in Emitting
<1>0. token.type \in {"paragraph", "heading", "bullet", "number", "code"} /\ token.content \in Text
  BY DEF Toks, Token
<1>1. CASE token.type = "bullet"
  BY <1>1, HandleUL DEF EmitToken
<1>2. CASE token.type = "number"
  BY <1>2, HandleOL DEF EmitToken
<1>3. CASE token.type \in {"heading", "paragraph", "code"}
  <2>1. PICK out \in Seq(WellFormed), next \in Int :
           /\ CloseActiveLists(e) = [out |-> out, ul |-> FALSE, ol |-> FALSE, next |-> next]
           /\ Well(out, "none")
    BY ListsClosed
  <2>2. PICK c : c = [out |-> out, ul |-> FALSE, ol |-> FALSE, next |-> next]
    OBVIOUS
  <2>10. c = CloseActiveLists(e) /\ c.out = out
    BY <2>1, <2>2
  <2>3. PICK x \in WellFormed :
           /\ x.tag = token.type
           /\ x = IF token.type = "code"
                  THEN [tag |-> "code", text |-> token.content, language |-> token.language]
                  ELSE Element(token.type, token.content)
    <3>1. CASE token.type = "code"
      <4>1. token.content \in CodeText /\ token.language \in Plain
        BY <3>1 DEF Toks
      <4>2. [tag |-> "code", text |-> token.content, language |-> token.language] \in WellFormed
        BY <4>1 DEF WellFormed, Codes
      <4> QED BY <3>1, <4>2
    <3>2. CASE token.type \in {"heading", "paragraph"}
      <4>1. Element(token.type, token.content) \in WellFormed
        BY <1>0, <3>2, ElementTypes
      <4>2. Element(token.type, token.content).tag = token.type /\ token.type # "code"
        BY <3>2 DEF Element
      <4> QED BY <4>1, <4>2
    <3> QED BY <1>3, <3>1, <3>2
  <2>4. PICK o : o = Append(out, x)
    OBVIOUS
  <2>5. Well(o, "none")
    <3>1. Fits("none", x.tag) /\ After("none", x.tag) = "none"
      BY <1>3, <2>3 DEF Fits, After, Lists
    <3> QED BY <2>1, <2>4, <3>1, Extended
  <2>6. PICK t : t = [c EXCEPT !.out = o]
    OBVIOUS
  <2>7. t = [out |-> o, ul |-> FALSE, ol |-> FALSE, next |-> next]
    BY <2>2, <2>6
  <2>8. EmitToken(e, token) = t
    BY <1>3, <2>3, <2>4, <2>6, <2>10 DEF EmitToken
  <2>9. t \in Emitting
    <3>1. o \in Seq(WellFormed)
      BY <2>5 DEF Well
    <3>2. OpenOf(FALSE, FALSE) = "none"
      BY DEF OpenOf
    <3> QED BY <2>5, <2>7, <3>1, <3>2 DEF Emitting
  <2> QED BY <2>8, <2>9
<1> QED BY <1>0, <1>1, <1>2, <1>3

\* or all tokens of a table.
LEMMA EmitFromStep ==
  ASSUME NEW tokens \in Seq(Toks), NEW e \in Emitting, NEW i \in 1..Len(tokens)
  PROVE  EmitFrom(tokens, e, i) \in Emitting
<1>0. tokens[i] \in Toks /\ i + 1 \in Int
  BY ElementOf
<1>1. CASE i < e.next
  BY <1>1 DEF EmitFrom
<1>2. CASE ~(i < e.next) /\ IsTable(tokens, i)
  <2>1. RunEnd(tokens, i) > i
    BY <1>2 DEF IsTable
  <2>2. PICK table \in Seq(Tabular) : table = Table(tokens, i)
    BY <2>1, TableType
  <2>3. PICK after \in Int : after = RunEnd(tokens, i) + 1
    <3>1. Len(tokens) \in Nat
      BY LenProperties
    <3>2. RunEnd(tokens, i) \in (i - 1)..Len(tokens)
      BY RunEndType
    <3> QED BY <3>1, <3>2
  <2>4. PICK out \in Seq(WellFormed), next \in Int :
           /\ CloseActiveLists(e) = [out |-> out, ul |-> FALSE, ol |-> FALSE, next |-> next]
           /\ Well(out, "none")
    BY ListsClosed
  <2>5. PICK c : c = [out |-> out, ul |-> FALSE, ol |-> FALSE, next |-> next]
    OBVIOUS
  <2>12. c = CloseActiveLists(e) /\ c.out = out
    BY <2>4, <2>5
  <2>6. PICK o : o = out \o table
    OBVIOUS
  <2>7. Well(o, "none")
    BY <2>4, <2>6, ExtendedByTable
  <2>8. PICK t : t = [c EXCEPT !.out = o, !.next = after]
    OBVIOUS
  <2>9. t = [out |-> o, ul |-> FALSE, ol |-> FALSE, next |-> after]
    BY <2>5, <2>8
  <2>10. EmitFrom(tokens, e, i) = t
    BY <1>2, <2>2, <2>3, <2>6, <2>8, <2>12 DEF EmitFrom
  <2>11. t \in Emitting
    <3>1. o \in Seq(WellFormed)
      BY <2>7 DEF Well
    <3>2. OpenOf(FALSE, FALSE) = "none"
      BY DEF OpenOf
    <3> QED BY <2>7, <2>9, <3>1, <3>2 DEF Emitting
  <2> QED BY <2>10, <2>11
<1>3. CASE ~(i < e.next) /\ ~IsTable(tokens, i)
  <2>1. PICK r \in Emitting : r = EmitToken(e, tokens[i])
    BY <1>0, EmitTokenStep
  <2>2. PICK out \in Seq(WellFormed), ul \in BOOLEAN, ol \in BOOLEAN, next \in Int :
           /\ r = [out |-> out, ul |-> ul, ol |-> ol, next |-> next]
           /\ ~(ul /\ ol) /\ Well(out, OpenOf(ul, ol))
    BY DEF Emitting
  <2>3. PICK t : t = [r EXCEPT !.next = i + 1]
    OBVIOUS
  <2>4. t = [out |-> out, ul |-> ul, ol |-> ol, next |-> i + 1]
    BY <2>2, <2>3
  <2>5. EmitFrom(tokens, e, i) = t
    BY <1>3, <2>1, <2>3 DEF EmitFrom
  <2>6. t \in Emitting
    BY <1>0, <2>2, <2>4 DEF Emitting
  <2> QED BY <2>5, <2>6
<1> QED BY <1>1, <1>2, <1>3

\* Emit takes its tokens one after the other.
LEMMA EmitRuns ==
  ASSUME NEW tokens \in Seq(Toks), NEW is \in Seq(1..Len(tokens)), NEW start \in Emitting
  PROVE  \E G \in [0..Len(is) -> Emitting] :
            /\ G[0] = start
            /\ \A k \in 1..Len(is) : G[k] = EmitFrom(tokens, G[k - 1], is[k])
            /\ FoldLeft(LAMBDA e, i : EmitFrom(tokens, e, i), start, is) = G[Len(is)]
<1> DEFINE n == Len(is)
           D == 1..n
           base == start
           step == [p \in Emitting \X D |-> EmitFrom(tokens, p[1], is[p[2]])]
           Rec(f) == f = [s \in SUBSET D |->
                            IF s = {} THEN base ELSE EmitFrom(tokens, f[s \ {Max(s)}], is[Max(s)])]
           it == CHOOSE f : Rec(f)
<1>1. n \in Nat /\ DOMAIN is = D /\ \A k \in D : is[k] \in 1..Len(tokens)
  BY LenProperties, ElementOf
<1>2. FoldLeft(LAMBDA e, i : EmitFrom(tokens, e, i), start, is) = it[D]
  BY <1>1 DEF FoldLeft, MapThenFoldSet
<1>3. base \in Emitting
  OBVIOUS
<1> HIDE DEF base
<1>4. /\ step \in [Emitting \X D -> Emitting]
      /\ \A r \in Emitting, k \in D : step[<<r, k>>] = EmitFrom(tokens, r, is[k])
  BY <1>1, EmitFromStep
<1> HIDE DEF step, n
<1>5. PICK T : Folds(T, Emitting, base, step, n)
  BY <1>1, <1>3, <1>4, FoldsExist
<1>6. Rec(T)
  <2> DEFINE g == [s \in SUBSET D |->
                     IF s = {} THEN base ELSE EmitFrom(tokens, T[s \ {Max(s)}], is[Max(s)])]
  <2>1. /\ T \in [SUBSET D -> Emitting] /\ T[{}] = base
        /\ \A s \in SUBSET D : s # {} => Max(s) \in s /\ T[s] = step[<<T[s \ {Max(s)}], Max(s)>>]
    BY <1>5 DEF Folds
  <2>2. ASSUME NEW s \in SUBSET D, s # {} PROVE T[s] = EmitFrom(tokens, T[s \ {Max(s)}], is[Max(s)])
    <3>1. Max(s) \in D /\ s \ {Max(s)} \in SUBSET D
      BY <2>1, <2>2
    <3>2. T[s \ {Max(s)}] \in Emitting
      BY <2>1, <3>1
    <3> QED BY <1>4, <2>1, <2>2, <3>1, <3>2
  <2>3. \A s \in SUBSET D : T[s] = g[s]
    BY <2>1, <2>2
  <2>4. T = g
    <3> HIDE DEF g
    <3>1. g = [s \in SUBSET D |-> g[s]] /\ T = [s \in SUBSET D |-> T[s]]
      BY <2>1 DEF g
    <3> QED BY <2>3, <3>1
  <2> QED BY <2>4
<1> HIDE DEF Rec
<1>7. Rec(it)
  BY <1>6, Zenon
<1>8. /\ it[{}] = base
      /\ \A s \in SUBSET D : s # {} => it[s] = EmitFrom(tokens, it[s \ {Max(s)}], is[Max(s)])
  BY <1>7 DEF Rec
<1> HIDE DEF it
<1>9. ASSUME NEW s \in SUBSET (1..n), s # {}, it[s \ {Max(s)}] \in Emitting
      PROVE  it[s] = step[<<it[s \ {Max(s)}], Max(s)>>]
  <2>1. Max(s) \in D
    BY <1>5, <1>9 DEF Folds
  <2> QED BY <1>4, <1>8, <1>9, <2>1
<1>10. PICK G : Runs(G, Emitting, base, step, n) /\ it[1..n] = G[n]
  <2>1. Takes(it, Emitting, base, step, n)
    BY <1>1, <1>3, <1>4, <1>8, <1>9 DEF Takes
  <2> QED BY <2>1, FoldRuns
<1>11. /\ G \in [0..n -> Emitting] /\ G[0] = base
       /\ \A k \in 1..n : G[k] = step[<<G[k - 1], k>>]
  BY <1>10 DEF Runs
<1>12. ASSUME NEW k \in 1..n PROVE G[k] = EmitFrom(tokens, G[k - 1], is[k])
  <2>1. G[k - 1] \in Emitting
    <3>1. k - 1 \in 0..n
      BY <1>1
    <3> QED BY <1>11, <3>1
  <2> QED BY <1>4, <1>11, <2>1
<1> QED BY <1>2, <1>10, <1>11, <1>12 DEF n, base

\* The elements of a text are well formed, and its lists balanced.
LEMMA ElementsType ==
  ASSUME NEW text \in Text
  PROVE  Well(Elements(text), "none")
<1>1. PICK tokens \in Seq(Toks) : tokens = Tokenize(text)
  BY TokenizeType
<1> DEFINE is == [i \in DOMAIN tokens |-> i]
           start == [out |-> <<>>, ul |-> FALSE, ol |-> FALSE, next |-> 1]
           r == FoldLeft(LAMBDA e, i : EmitFrom(tokens, e, i), start, is)
<1>2. Elements(text) = CloseActiveLists(r).out
  BY <1>1 DEF Elements, Emit
<1>3. is \in Seq(1..Len(tokens))
  <2>1. DOMAIN tokens = 1..Len(tokens) /\ Len(tokens) \in Nat
    BY LenProperties
  <2> QED BY <2>1
<1>4. start \in Emitting
  <2>1. Well(<<>>, "none")
    <3>1. <<>> \in Seq(WellFormed) /\ Len(<<>>) = 0
      OBVIOUS
    <3>2. OpenAt(<<>>, 0 + 1) = "none"
      <4>1. {k \in 1..((0 + 1) - 1) : <<>>[k].tag \in {"ul", "/ul", "ol", "/ol"}} = {}
        OBVIOUS
      <4> QED BY <4>1 DEF OpenAt
    <3> QED BY <3>1, <3>2 DEF Well
  <2>2. OpenOf(FALSE, FALSE) = "none" /\ <<>> \in Seq(WellFormed) /\ 1 \in Int
    BY DEF OpenOf
  <2> QED BY <2>1, <2>2 DEF Emitting
<1> HIDE DEF is, start
<1>5. r \in Emitting
  <2>1. PICK G \in [0..Len(is) -> Emitting] : r = G[Len(is)]
    <3>1. \E G \in [0..Len(is) -> Emitting] :
            /\ G[0] = start
            /\ \A k \in 1..Len(is) : G[k] = EmitFrom(tokens, G[k - 1], is[k])
            /\ r = G[Len(is)]
      BY <1>3, <1>4, EmitRuns
    <3> QED BY <3>1
  <2>2. Len(is) \in 0..Len(is)
    <3>1. Len(is) \in Nat
      BY <1>3, LenProperties
    <3> QED BY <3>1
  <2> HIDE DEF r
  <2> QED BY <2>1, <2>2
<1> HIDE DEF r
<1>6. PICK out \in Seq(WellFormed), next \in Int :
         /\ CloseActiveLists(r) = [out |-> out, ul |-> FALSE, ol |-> FALSE, next |-> next]
         /\ Well(out, "none")
  BY <1>5, ListsClosed
<1> QED BY <1>2, <1>6

-----------------------------------------------------------------------------
(* What is shown. *)

\* Empty caches are sound.
LEMMA EmptySound ==
  /\ EmptyCache \in Cache
  /\ Sound(EmptyCache, Inlines) /\ Sound(EmptyCache, Codes)
<1>1. EmptyCache.html = <<>> /\ EmptyCache.order = <<>>
  BY DEF EmptyCache
<1>2. DOMAIN <<>> = {} /\ Len(<<>>) = 0 /\ <<>> \in Seq(Keys)
  OBVIOUS
<1>3. EmptyCache \in Cache
  <2>1. <<>> \in [{} -> Fragments]
    BY <1>2
  <2>2. <<>> \in UNION {[D -> Fragments] : D \in SUBSET Keys}
    BY <2>1
  <2> QED BY <1>2, <2>2 DEF EmptyCache, Cache
<1>4. Range(<<>>) = {} /\ IsInjective(<<>>)
  BY <1>2 DEF Range, IsInjective
<1>5. InOrder(EmptyCache)
  BY <1>1, <1>2, <1>4, LimitAssumption DEF InOrder
<1>6. Genuine(EmptyCache, Inlines) /\ Genuine(EmptyCache, Codes)
  BY <1>1, <1>2 DEF Genuine
<1> QED BY <1>3, <1>5, <1>6 DEF Sound

\* A page is drawn from the elements of its text, and the caches are sound and end with
\* what it has used.
Showing(page, i, b) ==
  /\ page.text \in Text /\ page.theme \in Themes
  /\ page.page = PageOf(Elements(page.text), page.theme)
  /\ Sound(i, Inlines) /\ Sound(b, Codes)
  /\ Recent(i.order, Used(page, Decorated \ {"code"}))
  /\ Recent(b.order, Used(page, {"code"}))

\* The page that Process makes of a text, with the caches it leaves.
LEMMA ProcessShows ==
  ASSUME NEW text \in Text, NEW c \in Themes, NEW i, NEW b, Sound(i, Inlines), Sound(b, Codes)
  PROVE  LET r == Process(text, c, i, b)
         IN  Showing([text |-> text, theme |-> c, page |-> r.page], r.inline, r.blocks)
<1> DEFINE r == Process(text, c, i, b)
<1>1. PICK page : page = [text |-> text, theme |-> c, page |-> r.page]
  OBVIOUS
<1>2. page.text = text /\ page.theme = c /\ page.page = r.page
  BY <1>1
<1>3. PICK es \in Seq(WellFormed) : es = Elements(text)
  BY ElementsType DEF Well
<1>4. i \in Cache /\ b \in Cache
  BY DEF Sound
<1>5. LET q == Process(page.text, page.theme, i, b)
      IN  /\ q \in Rendered
          /\ q.page = PageOf(es, page.theme)
          /\ Recent(q.inline.order, Used(page, Decorated \ {"code"}))
          /\ Recent(q.blocks.order, Used(page, {"code"}))
  <2>1. Elements(page.text) = es /\ page.theme \in Themes
    BY <1>2, <1>3
  <2> QED BY <1>4, <2>1, ProcessKeeps
<1>6. /\ r \in Rendered
      /\ r.page = PageOf(es, c)
      /\ Recent(r.inline.order, Used(page, Decorated \ {"code"}))
      /\ Recent(r.blocks.order, Used(page, {"code"}))
  BY <1>2, <1>5
<1> HIDE DEF r
<1>7. Sound(r.inline, Inlines) /\ Sound(r.blocks, Codes)
  BY <1>6 DEF Rendered
<1>8. Showing(page, r.inline, r.blocks)
  BY <1>2, <1>3, <1>6, <1>7 DEF Showing
<1> QED BY <1>1, <1>8 DEF r

\* What is shown is what would be shown without the caches, and of the type of a page.
LEMMA ShownAnew ==
  ASSUME NEW page, NEW i, NEW b, Showing(page, i, b)
  PROVE  /\ page.page = Process(page.text, page.theme, EmptyCache, EmptyCache).page
         /\ page.page \in Seq(PageElement)
<1>1. PICK es \in Seq(WellFormed) : es = Elements(page.text)
  BY ElementsType DEF Well, Showing
<1> DEFINE r == Process(page.text, page.theme, EmptyCache, EmptyCache)
<1>2. r \in Rendered /\ r.page = PageOf(es, page.theme)
  <2>1. Elements(page.text) = es /\ page.theme \in Themes
    BY <1>1 DEF Showing
  <2>2. PICK e \in Cache : e = EmptyCache /\ Sound(e, Inlines) /\ Sound(e, Codes)
    BY EmptySound
  <2>3. LET q == Process(page.text, page.theme, e, e)
        IN  /\ q \in Rendered
            /\ q.page = PageOf(es, page.theme)
            /\ Recent(q.inline.order, Used(page, Decorated \ {"code"}))
            /\ Recent(q.blocks.order, Used(page, {"code"}))
    BY <2>1, <2>2, ProcessKeeps
  <2> QED BY <2>2, <2>3
<1> HIDE DEF r
<1>3. r.page \in Seq(PageElement)
  BY <1>2 DEF Rendered
<1>4. page.page = r.page
  BY <1>1, <1>2 DEF Showing
<1> QED BY <1>3, <1>4 DEF r

\* A sound cache that ends with what was used is consistent with it.
LEMMA SoundConsistent ==
  ASSUME NEW kind, NEW cache, Sound(cache, kind), NEW keys \in Uses,
         Recent(cache.order, keys)
  PROVE  /\ Range(cache.order) = DOMAIN cache.html
         /\ Len(cache.order) = Cardinality(DOMAIN cache.html)
         /\ Len(cache.order) <= MaxEntries
         /\ Kept(keys, cache)
         /\ \A k \in DOMAIN cache.html : cache.html[k] \in Fragments
<1>1. /\ Range(cache.order) = DOMAIN cache.html
      /\ cache.order \in Seq(Keys) /\ IsInjective(cache.order)
      /\ Len(cache.order) <= MaxEntries
  BY DEF Sound, InOrder, Cache
<1>2. Cardinality(Range(cache.order)) = Len(cache.order)
  BY <1>1, CardinalityOfList
<1>3. Kept(keys, cache)
  <2>1. keys \in Seq(Keys)
    BY DEF Uses
  <2> QED BY <2>1, RecentIsKept
<1>4. \A k \in DOMAIN cache.html : cache.html[k] \in Fragments
  <2>1. PICK D \in SUBSET Keys : cache.html \in [D -> Fragments]
    BY DEF Sound, Cache
  <2> QED BY <2>1
<1> QED BY <1>1, <1>2, <1>3, <1>4

\* What a page uses, it uses last once.
LEMMA UsedType ==
  ASSUME NEW page, page.text \in Text, page.theme \in Themes
  PROVE  Used(page, Decorated \ {"code"}) \in Uses /\ Used(page, {"code"}) \in Uses
<1>1. PICK es \in Seq(WellFormed) : es = Elements(page.text)
  BY ElementsType DEF Well
<1>2. ASSUME NEW tags \in Sorts PROVE Used(page, tags) \in Uses
  <2>1. \E U \in [0..Len(es) -> Uses] :
           /\ U[0] = <<>>
           /\ \A k \in 1..Len(es) : U[k] = Noted(U[k - 1], es[k], tags, page.theme)
           /\ Used(page, tags) = U[Len(es)]
    BY <1>1, UsedRuns
  <2>2. Len(es) \in 0..Len(es)
    <3>1. Len(es) \in Nat
      BY LenProperties
    <3> QED BY <3>1
  <2> QED BY <2>1, <2>2
<1>3. Decorated \ {"code"} \in Sorts /\ {"code"} \in Sorts
  BY DEF Sorts
<1> QED BY <1>2, <1>3

\* The lists of a page are balanced as those of its text are.
LEMMA PageBalanced ==
  ASSUME NEW page, NEW i, NEW b, Showing(page, i, b)
  PROVE  /\ OpenAt(page.page, Len(page.page) + 1) = "none"
         /\ \A k \in DOMAIN page.page : Fits(OpenAt(page.page, k), page.page[k].tag)
<1>1. PICK es : es = Elements(page.text) /\ Well(es, "none")
  BY ElementsType DEF Showing
<1>2. PICK n \in Nat : n = Len(es) /\ es \in Seq(WellFormed)
  BY <1>1, LenProperties DEF Well
<1>3. PICK p : /\ p = page.page
              /\ p = [k \in 1..n |-> Drawn(es[k], page.theme)]
  BY <1>1, <1>2 DEF Showing, PageOf
<1>4. \A k \in 1..n : p[k].tag = es[k].tag
  <2>1. ASSUME NEW k \in 1..n PROVE p[k].tag = es[k].tag
    <3>1. PICK d : d = Drawn(es[k], page.theme)
      OBVIOUS
    <3>2. d.tag = es[k].tag
      BY <3>1 DEF Drawn
    <3> QED BY <1>3, <3>1, <3>2
  <2> QED BY <2>1
<1>5. DOMAIN p = 1..n /\ Len(p) = n
  <2>1. p \in Seq(PageElement)
    BY <1>3, ShownAnew
  <2>2. DOMAIN p = 1..n
    BY <1>3
  <2>3. Len(p) \in Nat /\ DOMAIN p = 1..Len(p)
    BY <2>1, LenProperties
  <2> QED BY <1>2, <2>2, <2>3
<1>6. ASSUME NEW k \in 1..(n + 1) PROVE OpenAt(p, k) = OpenAt(es, k)
  <2>1. k \in Nat \ {0} /\ \A j \in 1..(k - 1) : j \in 1..n
    BY <1>2
  <2>2. \A j \in 1..(k - 1) : p[j].tag = es[j].tag
    BY <1>4, <2>1
  <2> QED BY <2>1, <2>2, OpenSame
<1>7. OpenAt(p, n + 1) = "none"
  <2>1. n + 1 \in 1..(n + 1)
    BY <1>2
  <2> QED BY <1>1, <1>2, <1>6, <2>1 DEF Well
<1>8. ASSUME NEW k \in 1..n PROVE Fits(OpenAt(p, k), p[k].tag)
  <2>1. k \in 1..(n + 1)
    BY <1>2
  <2>2. Fits(OpenAt(es, k), es[k].tag)
    BY <1>1, <1>2 DEF Well
  <2> QED BY <1>4, <1>6, <2>1, <2>2
<1> QED BY <1>3, <1>5, <1>7, <1>8

-----------------------------------------------------------------------------
(* The texts of the panel. *)

\* The words and marks of the texts the panel puts together.
LEMMA PieceTypes ==
  /\ Break \in Piece /\ Hash \in Piece /\ Rule \in Piece
  /\ {"System Channel", "ready", "synchronized", "User", "malama", "System Context"}
       \subseteq Piece
BY WordAssumption DEF Piece, Break, Hash, Rule

\* Its headings and gaps.
LEMMA HeaderType ==
  /\ \A title \in Piece : Header(title) \in Text
  /\ Gap \in Text /\ Ruled \in Text /\ <<Break>> \in Text /\ <<>> \in Text
<1>1. PICK nl \in Piece, hash \in Piece, rule \in Piece :
         nl = Break /\ hash = Hash /\ rule = Rule
  BY PieceTypes
<1>2. /\ \A title \in Piece : <<hash, title, nl>> \in Seq(Piece)
      /\ <<nl, nl>> \in Seq(Piece) /\ <<nl, nl, rule>> \in Seq(Piece)
      /\ <<nl>> \in Seq(Piece) /\ <<>> \in Seq(Piece)
  OBVIOUS
<1> QED BY <1>1, <1>2 DEF Header, Gap, Ruled, Text

\* Texts are joined.
LEMMA Concatenated ==
  ASSUME NEW t \in Text, NEW u \in Text
  PROVE  t \o u \in Text
BY ConcatProperties DEF Text

\* The texts of append_user_message and load_history are texts.
LEMMA TextTypes ==
  /\ Banner("ready") \in Text /\ Banner("synchronized") \in Text
  /\ \A t \in Text, a \in Text : Answered(t, a) \in Text /\ Asked(t, a) \in Text
  /\ \A t \in Text, m \in Message : Stored(t, m) \in Text
<1>1. PICK gap \in Text, ruled \in Text, nl \in Text, user \in Text, malama \in Text,
           system \in Text :
         /\ gap = Gap /\ ruled = Ruled /\ nl = <<Break>>
         /\ user = Header("User") /\ malama = Header("malama")
         /\ system = Header("System Context")
  BY HeaderType, PieceTypes
<1>2. ASSUME NEW greeting \in Piece PROVE Banner(greeting) \in Text
  <2>1. Header("System Channel") \in Text /\ <<greeting>> \in Text /\ Ruled \in Text
    <3>1. \A word \in Piece : <<word>> \in Seq(Piece)
      OBVIOUS
    <3>2. "System Channel" \in Piece
      BY PieceTypes
    <3> QED BY <3>1, <3>2, HeaderType DEF Text
  <2> QED BY <2>1, Concatenated DEF Banner
<1>3. ASSUME NEW t \in Text, NEW a \in Text
      PROVE  Answered(t, a) \in Text /\ Asked(t, a) \in Text
  <2>1. t \o nl \o a \o ruled \in Text
    <3>1. t \o nl \in Text
      BY Concatenated
    <3>2. t \o nl \o a \in Text
      BY <3>1, Concatenated
    <3> QED BY <3>2, Concatenated
  <2>2. t \o gap \o user \o a \o gap \o malama \in Text
    <3>1. t \o gap \in Text
      BY Concatenated
    <3>2. t \o gap \o user \in Text
      BY <3>1, Concatenated
    <3>3. t \o gap \o user \o a \in Text
      BY <3>2, Concatenated
    <3>4. t \o gap \o user \o a \o gap \in Text
      BY <3>3, Concatenated
    <3> QED BY <3>4, Concatenated
  <2> QED BY <1>1, <2>1, <2>2 DEF Answered, Asked
<1>4. ASSUME NEW t \in Text, NEW m \in Message PROVE Stored(t, m) \in Text
  <2>1. PICK content \in Text : content = m.content
    BY DEF Message
  <2>2. t \o gap \o user \o content \in Text
    <3>1. t \o gap \in Text
      BY Concatenated
    <3>2. t \o gap \o user \in Text
      BY <3>1, Concatenated
    <3> QED BY <3>2, Concatenated
  <2>3. ASSUME NEW title \in Text PROVE t \o gap \o title \o content \o ruled \in Text
    <3>1. t \o gap \in Text
      BY Concatenated
    <3>2. t \o gap \o title \in Text
      BY <3>1, Concatenated
    <3>3. t \o gap \o title \o content \in Text
      BY <3>2, Concatenated
    <3> QED BY <3>3, Concatenated
  <2>4. /\ t \o gap \o malama \o content \o ruled \in Text
        /\ t \o gap \o system \o content \o ruled \in Text
    BY <2>3
  <2>5. m.role \in {"user", "assistant", "system"}
    BY DEF Message
  <2> QED BY <1>1, <2>1, <2>2, <2>4, <2>5 DEF Stored
<1>5. "ready" \in Piece /\ "synchronized" \in Piece
  BY PieceTypes
<1> QED BY <1>2, <1>3, <1>4, <1>5

\* load_history appends one message after the other,
LEMMA LoadedRuns ==
  ASSUME NEW h \in Seq(Message), NEW start \in Text
  PROVE  \E G \in [0..Len(h) -> Text] :
            /\ G[0] = start
            /\ \A k \in 1..Len(h) : G[k] = Stored(G[k - 1], h[k])
            /\ FoldLeft(Stored, start, h) = G[Len(h)]
<1> DEFINE n == Len(h)
           D == 1..n
           base == start
           step == [p \in Text \X D |-> Stored(p[1], h[p[2]])]
           Rec(f) == f = [s \in SUBSET D |->
                            IF s = {} THEN base ELSE Stored(f[s \ {Max(s)}], h[Max(s)])]
           it == CHOOSE f : Rec(f)
<1>1. n \in Nat /\ DOMAIN h = D /\ \A k \in D : h[k] \in Message
  BY LenProperties, ElementOf
<1>2. FoldLeft(Stored, start, h) = it[D]
  BY <1>1 DEF FoldLeft, MapThenFoldSet
<1>3. base \in Text
  OBVIOUS
<1> HIDE DEF base
<1>4. /\ step \in [Text \X D -> Text]
      /\ \A r \in Text, k \in D : step[<<r, k>>] = Stored(r, h[k])
  BY <1>1, TextTypes
<1> HIDE DEF step, n
<1>5. PICK T : Folds(T, Text, base, step, n)
  BY <1>1, <1>3, <1>4, FoldsExist
<1>6. Rec(T)
  <2> DEFINE g == [s \in SUBSET D |->
                     IF s = {} THEN base ELSE Stored(T[s \ {Max(s)}], h[Max(s)])]
  <2>1. /\ T \in [SUBSET D -> Text] /\ T[{}] = base
        /\ \A s \in SUBSET D : s # {} => Max(s) \in s /\ T[s] = step[<<T[s \ {Max(s)}], Max(s)>>]
    BY <1>5 DEF Folds
  <2>2. ASSUME NEW s \in SUBSET D, s # {} PROVE T[s] = Stored(T[s \ {Max(s)}], h[Max(s)])
    <3>1. Max(s) \in D /\ s \ {Max(s)} \in SUBSET D
      BY <2>1, <2>2
    <3>2. T[s \ {Max(s)}] \in Text
      BY <2>1, <3>1
    <3> QED BY <1>4, <2>1, <2>2, <3>1, <3>2
  <2>3. \A s \in SUBSET D : T[s] = g[s]
    BY <2>1, <2>2
  <2>4. T = g
    <3> HIDE DEF g
    <3>1. g = [s \in SUBSET D |-> g[s]] /\ T = [s \in SUBSET D |-> T[s]]
      BY <2>1 DEF g
    <3> QED BY <2>3, <3>1
  <2> QED BY <2>4
<1> HIDE DEF Rec
<1>7. Rec(it)
  BY <1>6, Zenon
<1>8. /\ it[{}] = base
      /\ \A s \in SUBSET D : s # {} => it[s] = Stored(it[s \ {Max(s)}], h[Max(s)])
  BY <1>7 DEF Rec
<1> HIDE DEF it
<1>9. ASSUME NEW s \in SUBSET (1..n), s # {}, it[s \ {Max(s)}] \in Text
      PROVE  it[s] = step[<<it[s \ {Max(s)}], Max(s)>>]
  <2>1. Max(s) \in D
    BY <1>5, <1>9 DEF Folds
  <2> QED BY <1>4, <1>8, <1>9, <2>1
<1>10. PICK G : Runs(G, Text, base, step, n) /\ it[1..n] = G[n]
  <2>1. Takes(it, Text, base, step, n)
    BY <1>1, <1>3, <1>4, <1>8, <1>9 DEF Takes
  <2> QED BY <2>1, FoldRuns
<1>11. /\ G \in [0..n -> Text] /\ G[0] = base
       /\ \A k \in 1..n : G[k] = step[<<G[k - 1], k>>]
  BY <1>10 DEF Runs
<1>12. ASSUME NEW k \in 1..n PROVE G[k] = Stored(G[k - 1], h[k])
  <2>1. G[k - 1] \in Text
    <3>1. k - 1 \in 0..n
      BY <1>1
    <3> QED BY <1>11, <3>1
  <2> QED BY <1>4, <1>11, <2>1
<1> QED BY <1>2, <1>10, <1>11, <1>12 DEF n, base

\* and keeps the last prompt.
LEMMA LastRuns ==
  ASSUME NEW h \in Seq(Message), NEW start \in Text
  PROVE  \E G \in [0..Len(h) -> Text] :
            /\ G[0] = start
            /\ \A k \in 1..Len(h) :
                  G[k] = IF h[k].role = "user" THEN h[k].content ELSE G[k - 1]
            /\ FoldLeft(LAMBDA last, m : IF m.role = "user" THEN m.content ELSE last, start, h)
               = G[Len(h)]
<1> DEFINE n == Len(h)
           D == 1..n
           base == start
           step == [p \in Text \X D |-> (IF h[p[2]].role = "user" THEN h[p[2]].content ELSE p[1])]
           Rec(f) == f = [s \in SUBSET D |->
                            IF s = {} THEN base
              ELSE (IF h[Max(s)].role = "user" THEN h[Max(s)].content ELSE f[s \ {Max(s)}])]
           it == CHOOSE f : Rec(f)
<1>1. n \in Nat /\ DOMAIN h = D /\ \A k \in D : h[k].content \in Text
  <2>1. DOMAIN h = D /\ n \in Nat
    BY LenProperties
  <2>2. ASSUME NEW k \in D PROVE h[k].content \in Text
    <3>1. h[k] \in Message
      BY <2>2, ElementOf
    <3> QED BY <3>1 DEF Message
  <2> QED BY <2>1, <2>2
<1>2. FoldLeft(LAMBDA last, m : IF m.role = "user" THEN m.content ELSE last, start, h) = it[D]
  BY <1>1 DEF FoldLeft, MapThenFoldSet
<1>3. base \in Text
  OBVIOUS
<1> HIDE DEF base
<1>4. /\ step \in [Text \X D -> Text]
      /\ \A r \in Text, k \in D : step[<<r, k>>] = (IF h[k].role = "user" THEN h[k].content ELSE r)
  BY <1>1
<1> HIDE DEF step, n
<1>5. PICK T : Folds(T, Text, base, step, n)
  BY <1>1, <1>3, <1>4, FoldsExist
<1>6. Rec(T)
  <2> DEFINE g == [s \in SUBSET D |->
                     IF s = {} THEN base
              ELSE (IF h[Max(s)].role = "user" THEN h[Max(s)].content ELSE T[s \ {Max(s)}])]
  <2>1. /\ T \in [SUBSET D -> Text] /\ T[{}] = base
        /\ \A s \in SUBSET D : s # {} => Max(s) \in s /\ T[s] = step[<<T[s \ {Max(s)}], Max(s)>>]
    BY <1>5 DEF Folds
  <2>2. ASSUME NEW s \in SUBSET D, s # {}
        PROVE  T[s] = (IF h[Max(s)].role = "user" THEN h[Max(s)].content ELSE T[s \ {Max(s)}])
    <3>1. Max(s) \in D /\ s \ {Max(s)} \in SUBSET D
      BY <2>1, <2>2
    <3>2. T[s \ {Max(s)}] \in Text
      BY <2>1, <3>1
    <3> QED BY <1>4, <2>1, <2>2, <3>1, <3>2
  <2>3. \A s \in SUBSET D : T[s] = g[s]
    BY <2>1, <2>2
  <2>4. T = g
    <3> HIDE DEF g
    <3>1. g = [s \in SUBSET D |-> g[s]] /\ T = [s \in SUBSET D |-> T[s]]
      BY <2>1 DEF g
    <3> QED BY <2>3, <3>1
  <2> QED BY <2>4
<1> HIDE DEF Rec
<1>7. Rec(it)
  BY <1>6, Zenon
<1>8. /\ it[{}] = base
      /\ \A s \in SUBSET D : s # {} =>
                  it[s] = (IF h[Max(s)].role = "user" THEN h[Max(s)].content ELSE it[s \ {Max(s)}])
  BY <1>7 DEF Rec
<1> HIDE DEF it
<1>9. ASSUME NEW s \in SUBSET (1..n), s # {}, it[s \ {Max(s)}] \in Text
      PROVE  it[s] = step[<<it[s \ {Max(s)}], Max(s)>>]
  <2>1. Max(s) \in D
    BY <1>5, <1>9 DEF Folds
  <2> QED BY <1>4, <1>8, <1>9, <2>1
<1>10. PICK G : Runs(G, Text, base, step, n) /\ it[1..n] = G[n]
  <2>1. Takes(it, Text, base, step, n)
    BY <1>1, <1>3, <1>4, <1>8, <1>9 DEF Takes
  <2> QED BY <2>1, FoldRuns
<1>11. /\ G \in [0..n -> Text] /\ G[0] = base
       /\ \A k \in 1..n : G[k] = step[<<G[k - 1], k>>]
  BY <1>10 DEF Runs
<1>12. ASSUME NEW k \in 1..n PROVE G[k] = (IF h[k].role = "user" THEN h[k].content ELSE G[k - 1])
  <2>1. G[k - 1] \in Text
    <3>1. k - 1 \in 0..n
      BY <1>1
    <3> QED BY <1>11, <3>1
  <2> QED BY <1>4, <1>11, <2>1
<1> QED BY <1>2, <1>10, <1>11, <1>12 DEF n, base

\* What it leaves in the panel.
LEMMA LoadedTypes ==
  ASSUME NEW h \in Seq(Message)
  PROVE  /\ LoadedText("synchronized", h) \in Text
         /\ FoldLeft(LAMBDA last, m : IF m.role = "user" THEN m.content ELSE last, <<>>, h)
            \in Text
<1>1. Len(h) \in 0..Len(h)
  <2>1. Len(h) \in Nat
    BY LenProperties
  <2> QED BY <2>1
<1>2. PICK start \in Text, none \in Text : start = Banner("synchronized") /\ none = <<>>
  BY TextTypes, HeaderType
<1>3. LoadedText("synchronized", h) \in Text
  <2>1. \E G \in [0..Len(h) -> Text] :
            /\ G[0] = start
            /\ \A k \in 1..Len(h) : G[k] = Stored(G[k - 1], h[k])
            /\ FoldLeft(Stored, start, h) = G[Len(h)]
    BY LoadedRuns
  <2>2. FoldLeft(Stored, start, h) \in Text
    BY <1>1, <2>1
  <2> QED BY <1>2, <2>2 DEF LoadedText
<1> DEFINE lastOf(s) ==
      FoldLeft(LAMBDA last, m : IF m.role = "user" THEN m.content ELSE last, s, h)
<1>4. lastOf(none) \in Text
  <2>1. \E G \in [0..Len(h) -> Text] :
            /\ G[0] = none
            /\ \A k \in 1..Len(h) :
                  G[k] = IF h[k].role = "user" THEN h[k].content ELSE G[k - 1]
            /\ lastOf(none) = G[Len(h)]
    BY LastRuns
  <2> HIDE DEF lastOf
  <2> QED BY <1>1, <2>1
<1> QED BY <1>2, <1>3, <1>4

-----------------------------------------------------------------------------
(* The invariant. *)

PanelTyped ==
  /\ raw \in Text /\ stream \in Text /\ lastPrompt \in Text
  /\ messages \in Seq(Message)
  /\ loaded \in 0..Len(messages)
  /\ received \in 0..MaxReceived
  /\ theme \in Themes

ShowingInvariant == PanelTyped /\ Showing(shown, inline, blocks)

\* What the panel was loaded with is the beginning of what it holds.
LEMMA LoadedStays ==
  ASSUME NEW log \in Seq(Message), NEW more \in Seq(Message), NEW n \in 0..Len(log)
  PROVE  log \o more \in Seq(Message) /\ n \in 0..Len(log \o more)
<1>1. Len(log) \in Nat /\ Len(more) \in Nat
  BY LenProperties
<1>2. log \o more \in Seq(Message) /\ Len(log \o more) = Len(log) + Len(more)
  BY ConcatProperties
<1> QED BY <1>1, <1>2

\* To render is to show, whatever the panel's texts have become.
LEMMA RenderShows ==
  ASSUME ShowingInvariant, raw' \in Text, stream' \in Text, Render
  PROVE  Showing(shown', inline', blocks')
<1>1. PICK nl \in Text : nl = <<Break>>
  BY HeaderType
<1>2. PICK text \in Text : text = raw' \o nl \o stream'
  <2>1. PICK t \in Text, u \in Text : t = raw' /\ u = stream'
    OBVIOUS
  <2>2. t \o nl \in Text
    BY Concatenated
  <2>3. t \o nl \o u \in Text
    BY <2>2, Concatenated
  <2> QED BY <2>1, <2>3
<1>3. PICK c \in Themes : c = theme
  BY DEF ShowingInvariant, PanelTyped
<1>4. PICK i, b : i = inline /\ b = blocks /\ Sound(i, Inlines) /\ Sound(b, Codes)
  BY DEF ShowingInvariant, Showing
<1>5. LET r == Process(text, c, i, b)
      IN  Showing([text |-> text, theme |-> c, page |-> r.page], r.inline, r.blocks)
  BY <1>4, ProcessShows
<1>6. /\ inline' = Process(text, c, i, b).inline
      /\ blocks' = Process(text, c, i, b).blocks
      /\ shown' = [text |-> text, theme |-> c, page |-> Process(text, c, i, b).page]
  BY <1>1, <1>2, <1>3, <1>4 DEF Render
<1> QED BY <1>5, <1>6

\* The first page, made with empty caches.
LEMMA InitShows == Init => ShowingInvariant
<1> SUFFICES ASSUME Init PROVE ShowingInvariant
  OBVIOUS
<1>1. PanelTyped
  <2>1. <<>> \in Seq(Message) /\ Len(<<>>) = 0 /\ 0 \in 0..0 /\ 0 \in 0..MaxReceived
    BY LimitAssumption
  <2>2. <<>> \in Text /\ Banner("ready") \in Text
    BY HeaderType, TextTypes
  <2> QED BY <2>1, <2>2 DEF Init, PanelTyped
<1>2. PICK text \in Text : text = Banner("ready") \o <<Break>>
  BY HeaderType, TextTypes, Concatenated
<1>3. PICK c \in Themes : c = theme
  BY DEF Init
<1>4. PICK e : e = EmptyCache /\ Sound(e, Inlines) /\ Sound(e, Codes)
  BY EmptySound
<1>5. LET r == Process(text, c, e, e)
      IN  Showing([text |-> text, theme |-> c, page |-> r.page], r.inline, r.blocks)
  BY <1>4, ProcessShows
<1>6. /\ inline = Process(text, c, e, e).inline
      /\ blocks = Process(text, c, e, e).blocks
      /\ shown = [text |-> text, theme |-> c, page |-> Process(text, c, e, e).page]
  BY <1>2, <1>3, <1>4 DEF Init
<1>7. Showing(shown, inline, blocks)
  BY <1>5, <1>6
<1> QED BY <1>1, <1>7 DEF ShowingInvariant

\* Every step keeps the invariant: it renders what it leaves in the panel, or leaves the
\* page alone.
LEMMA StepShows == ShowingInvariant /\ [Next]_vars => ShowingInvariant'
<1> SUFFICES ASSUME ShowingInvariant, [Next]_vars PROVE ShowingInvariant'
  OBVIOUS
<1>1. PanelTyped /\ Showing(shown, inline, blocks)
  BY DEF ShowingInvariant
<1>2. ASSUME NEW t \in Tokens, AppendToken(t) PROVE ShowingInvariant'
  <2>1. t \in Text
    BY TextAssumption
  <2>2. stream \o t \in Text
    BY <1>1, <2>1, Concatenated DEF PanelTyped
  <2>3. received' \in 0..MaxReceived
    BY <1>1, <1>2, LimitAssumption DEF PanelTyped, AppendToken
  <2>4. PanelTyped'
    BY <1>1, <1>2, <2>2, <2>3 DEF PanelTyped, AppendToken
  <2>5. Showing(shown', inline', blocks')
    BY <1>2, <2>4, RenderShows DEF PanelTyped, AppendToken
  <2> QED BY <2>4, <2>5 DEF ShowingInvariant
<1>3. ASSUME NEW p \in Prompts, AppendUserMessage(p) PROVE ShowingInvariant'
  <2> DEFINE answer == IF stream = <<>> THEN <<>> ELSE <<Assistant(stream)>>
             before == IF stream = <<>> THEN raw ELSE Answered(raw, stream)
  <2>1. p \in Text
    BY TextAssumption
  <2>2. answer \in Seq(Message)
    <3>1. PICK s \in Text : s = stream
      BY <1>1 DEF PanelTyped
    <3>2. Assistant(s) \in Message
      BY DEF Assistant, Message
    <3>3. <<Assistant(s)>> \in Seq(Message) /\ <<>> \in Seq(Message)
      BY <3>2
    <3> QED BY <3>1, <3>3
  <2>3. before \in Text
    BY <1>1, TextTypes DEF PanelTyped
  <2>4. /\ stream' = <<>> /\ theme' = theme /\ received' = received /\ loaded' = loaded
        /\ \/ /\ raw' = before /\ messages' = messages \o answer
              /\ UNCHANGED <<lastPrompt, caches, shown>>
           \/ /\ raw' = Asked(before, p)
              /\ messages' = messages \o answer \o <<User(p)>>
              /\ lastPrompt' = p
              /\ Render
    BY <1>3 DEF AppendUserMessage
  <2> HIDE DEF answer, before
  <2>5. messages \o answer \in Seq(Message) /\ loaded \in 0..Len(messages \o answer)
    BY <1>1, <2>2, LoadedStays DEF PanelTyped
  <2>6. CASE raw' = before /\ messages' = messages \o answer
             /\ UNCHANGED <<lastPrompt, caches, shown>>
    <3>1. PanelTyped'
      BY <1>1, <2>3, <2>4, <2>5, <2>6, HeaderType DEF PanelTyped
    <3>2. Showing(shown', inline', blocks')
      BY <1>1, <2>6 DEF caches
    <3> QED BY <3>1, <3>2 DEF ShowingInvariant
  <2>7. CASE raw' = Asked(before, p) /\ messages' = messages \o answer \o <<User(p)>>
             /\ lastPrompt' = p /\ Render
    <3>1. <<User(p)>> \in Seq(Message)
      <4>1. User(p) \in Message
        BY <2>1 DEF User, Message
      <4> QED BY <4>1
    <3>2. /\ messages \o answer \o <<User(p)>> \in Seq(Message)
          /\ loaded \in 0..Len(messages \o answer \o <<User(p)>>)
      BY <2>5, <3>1, LoadedStays
    <3>3. Asked(before, p) \in Text
      BY <2>1, <2>3, TextTypes
    <3>4. PanelTyped'
      BY <1>1, <2>1, <2>4, <2>7, <3>2, <3>3, HeaderType DEF PanelTyped
    <3>5. Showing(shown', inline', blocks')
      BY <2>7, <3>4, RenderShows DEF PanelTyped
    <3> QED BY <3>4, <3>5 DEF ShowingInvariant
  <2> QED BY <2>4, <2>6, <2>7
<1>4. ASSUME NEW h \in Histories, LoadHistory(h) PROVE ShowingInvariant'
  <2>1. h \in Seq(Message) /\ Len(h) \in 0..Len(h)
    <3>1. h \in Seq(Message)
      BY HistoryAssumption
    <3>2. Len(h) \in Nat
      BY <3>1, LenProperties
    <3> QED BY <3>1, <3>2
  <2>2. raw' \in Text /\ lastPrompt' \in Text
    BY <1>4, <2>1, LoadedTypes DEF LoadHistory
  <2>3. PanelTyped'
    <3>1. /\ received' = 0 /\ messages' = h /\ loaded' = Len(h)
          /\ theme' = theme /\ stream' = <<>>
      BY <1>4 DEF LoadHistory
    <3>2. 0 \in 0..MaxReceived
      BY LimitAssumption
    <3> QED BY <1>1, <2>1, <2>2, <3>1, <3>2, HeaderType DEF PanelTyped
  <2>4. Render
    BY <1>4 DEF LoadHistory
  <2>5. Showing(shown', inline', blocks')
    BY <2>3, <2>4, RenderShows DEF PanelTyped
  <2> QED BY <2>3, <2>5 DEF ShowingInvariant
<1>5. ASSUME NEW t \in Themes, SaveAppearance(t) PROVE ShowingInvariant'
  BY <1>1, <1>5 DEF SaveAppearance, ShowingInvariant, PanelTyped, panel, caches
<1>6. CASE UNCHANGED vars
  BY <1>1, <1>6 DEF vars, ShowingInvariant, PanelTyped, panel, caches
<1> QED BY <1>2, <1>3, <1>4, <1>5, <1>6 DEF Next

\* Whatever is received, asked, loaded and configured, and in whatever order, the page
\* shown is drawn from its text and the caches hold what was used last.
THEOREM InvariantHolds == Spec => []ShowingInvariant
BY InitShows, StepShows, PTL DEF Spec

\* The state keeps its type: the texts the panel puts together, the entries of the caches
\* and the elements of the page.
THEOREM TypeCorrect == Spec => []TypeOK
<1>1. ShowingInvariant => TypeOK
  <2> SUFFICES ASSUME ShowingInvariant PROVE TypeOK
    OBVIOUS
  <2>1. PanelTyped /\ Showing(shown, inline, blocks)
    BY DEF ShowingInvariant
  <2>2. shown.page \in Seq(PageElement)
    BY <2>1, ShownAnew
  <2>3. \A cache \in {inline, blocks} :
          \A k \in DOMAIN cache.html : cache.html[k] \in Fragments
    <3>1. PICK i, b : i = inline /\ b = blocks /\ i \in Cache /\ b \in Cache
      BY <2>1 DEF Showing, Sound
    <3>2. ASSUME NEW cache \in Cache
          PROVE  \A k \in DOMAIN cache.html : cache.html[k] \in Fragments
      <4>1. PICK D \in SUBSET Keys : cache.html \in [D -> Fragments]
        BY DEF Cache
      <4> QED BY <4>1
    <3> QED BY <3>1, <3>2
  <2> QED BY <2>1, <2>2, <2>3 DEF TypeOK, PanelTyped, Showing
<1> QED BY <1>1, InvariantHolds, PTL

\* FragmentCache stays consistent: table and list have the same keys, each once and at
\* most MaxEntries, and what the page used last is kept, however many fragments it has.
THEOREM CachesStayConsistent == Spec => []CachesConsistent
<1>1. ShowingInvariant => CachesConsistent
  <2> SUFFICES ASSUME ShowingInvariant PROVE CachesConsistent
    OBVIOUS
  <2>1. Showing(shown, inline, blocks)
    BY DEF ShowingInvariant
  <2>2. PICK others \in Uses, code \in Uses :
          others = Used(shown, Decorated \ {"code"}) /\ code = Used(shown, {"code"})
    BY <2>1, UsedType DEF Showing
  <2>3. PICK i : i = inline /\ Sound(i, Inlines) /\ Recent(i.order, others)
    BY <2>1, <2>2 DEF Showing
  <2>4. PICK b : b = blocks /\ Sound(b, Codes) /\ Recent(b.order, code)
    BY <2>1, <2>2 DEF Showing
  <2>5. /\ Range(i.order) = DOMAIN i.html
        /\ Len(i.order) = Cardinality(DOMAIN i.html)
        /\ Len(i.order) <= MaxEntries
        /\ Kept(others, i)
    BY <2>3, SoundConsistent
  <2>6. /\ Range(b.order) = DOMAIN b.html
        /\ Len(b.order) = Cardinality(DOMAIN b.html)
        /\ Len(b.order) <= MaxEntries
        /\ Kept(code, b)
    BY <2>4, SoundConsistent
  <2> QED BY <2>2, <2>3, <2>4, <2>5, <2>6 DEF CachesConsistent
<1> QED BY <1>1, InvariantHolds, PTL

\* No fragment is taken for another one: the page is what it would be without the caches,
\* whatever was rendered before, in whatever colours.
THEOREM PagesAreGenuine == Spec => []PageGenuine
<1>1. ShowingInvariant => PageGenuine
  BY ShownAnew DEF ShowingInvariant, PageGenuine
<1> QED BY <1>1, InvariantHolds, PTL

\* In the page of every transcript, cut off by a token wherever it may be, lists are
\* opened, filled and closed in order.
THEOREM ListsStayBalanced == Spec => []ListsBalanced
<1>1. ShowingInvariant => ListsBalanced
  BY PageBalanced DEF ShowingInvariant, ListsBalanced
<1> QED BY <1>1, InvariantHolds, PTL

-----------------------------------------------------------------------------
(* Sequences of sequences, flattened. *)

\* F[k] is what the first k sequences of ss are together.
Joins(F, ss, n, S) ==
  /\ F \in [0..n -> Seq(S)]
  /\ F[0] = <<>>
  /\ \A k \in 1..n : F[k] = F[k - 1] \o ss[k]

\* There is a running concatenation of any sequence of sequences.
LEMMA JoinsExist ==
  ASSUME NEW S, NEW ss \in Seq(Seq(S))
  PROVE  \E F : Joins(F, ss, Len(ss), S)
<1> DEFINE N == {n \in Nat : n <= Len(ss) => \E F : Joins(F, ss, n, S)}
<1>1. Len(ss) \in Nat /\ \A i \in 1..Len(ss) : ss[i] \in Seq(S)
  BY LenProperties, ElementOf
<1>2. 0 \in N
  <2> DEFINE F == [k \in 0..0 |-> <<>>]
  <2>1. <<>> \in Seq(S)
    OBVIOUS
  <2>2. Joins(F, ss, 0, S)
    BY <2>1 DEF Joins
  <2> QED BY <2>2
<1>3. ASSUME NEW n \in Nat, n \in N PROVE n + 1 \in N
  <2>1. SUFFICES ASSUME n + 1 <= Len(ss) PROVE \E F : Joins(F, ss, n + 1, S)
    OBVIOUS
  <2>2. PICK F : Joins(F, ss, n, S)
    BY <1>1, <1>3, <2>1
  <2> DEFINE G == [k \in 0..(n + 1) |-> IF k = n + 1 THEN F[n] \o ss[n + 1] ELSE F[k]]
  <2>3. F[n] \in Seq(S) /\ ss[n + 1] \in Seq(S)
    BY <1>1, <2>1, <2>2 DEF Joins
  <2>4. F[n] \o ss[n + 1] \in Seq(S)
    BY <2>3, ConcatProperties
  <2>5. G \in [0..(n + 1) -> Seq(S)]
    BY <2>2, <2>4 DEF Joins
  <2>6. G[0] = <<>>
    BY <2>2 DEF Joins
  <2>7. ASSUME NEW k \in 1..(n + 1) PROVE G[k] = G[k - 1] \o ss[k]
    <3>1. CASE k = n + 1
      <4>1. k \in 0..(n + 1) /\ k - 1 \in 0..(n + 1) /\ k - 1 = n /\ n # n + 1
        BY <3>1
      <4> QED BY <3>1, <4>1
    <3>2. CASE k # n + 1
      <4>1. k \in 1..n /\ k - 1 \in 0..(n + 1) /\ k \in 0..(n + 1) /\ k - 1 # n + 1
        BY <3>2
      <4> QED BY <2>2, <3>2, <4>1 DEF Joins
    <3> QED BY <3>1, <3>2
  <2> HIDE DEF G
  <2> QED BY <2>5, <2>6, <2>7 DEF Joins
<1> HIDE DEF N
<1>4. Len(ss) \in N
  BY <1>1, <1>2, <1>3, Induction
<1> QED BY <1>1, <1>4 DEF N

\* What the community modules flatten a sequence of sequences to is the last of these.
LEMMA FlattenByJoins ==
  ASSUME NEW S, NEW ss \in Seq(Seq(S)), NEW F, Joins(F, ss, Len(ss), S)
  PROVE  FlattenSeq(ss) = F[Len(ss)] /\ FlattenSeq(ss) \in Seq(S)
<1> DEFINE n == Len(ss)
           Rec(g) == g = [i \in 1..n |-> IF i = 1 THEN ss[i] ELSE g[i - 1] \o ss[i]]
           it == CHOOSE g : Rec(g)
<1>1. n \in Nat /\ \A i \in 1..n : ss[i] \in Seq(S)
  BY LenProperties, ElementOf
<1>2. FlattenSeq(ss) = IF n = 0 THEN ss ELSE it[n]
  BY DEF FlattenSeq
<1> HIDE DEF n
<1>3. Rec([i \in 1..n |-> F[i]])
  <2> DEFINE f == [i \in 1..n |-> F[i]]
  <2>1. ASSUME NEW i \in 1..n, i = 1 PROVE F[i] = ss[i]
    <3>1. F[i] = F[i - 1] \o ss[i] /\ F[0] = <<>>
      BY DEF Joins, n
    <3>2. i - 1 = 0
      BY <2>1
    <3>3. F[i] = <<>> \o ss[i]
      BY <3>1, <3>2
    <3>4. ss[i] \in Seq(S)
      BY <1>1
    <3> HIDE DEF f
    <3>5. <<>> \o ss[i] = ss[i]
      BY <3>4, ConcatEmptySeq
    <3> QED BY <3>3, <3>5
  <2>2. ASSUME NEW i \in 1..n, i # 1 PROVE F[i] = f[i - 1] \o ss[i]
    <3>1. i - 1 \in 1..n
      BY <1>1, <2>2
    <3> QED BY <3>1 DEF Joins, n
  <2>3. f = [i \in 1..n |-> IF i = 1 THEN ss[i] ELSE f[i - 1] \o ss[i]]
    BY <2>1, <2>2
  <2> QED BY <2>3
<1> HIDE DEF Rec
<1>4. Rec(it)
  BY <1>3, Zenon
<1>5. \A i \in 1..n : it[i] = IF i = 1 THEN ss[i] ELSE it[i - 1] \o ss[i]
  BY <1>4 DEF Rec
<1> HIDE DEF it
<1> DEFINE N == {k \in Nat : k \in 1..n => it[k] = F[k]}
<1>6. 0 \in N
  OBVIOUS
<1>7. ASSUME NEW k \in Nat, k \in N PROVE k + 1 \in N
  <2>1. SUFFICES ASSUME k + 1 \in 1..n PROVE it[k + 1] = F[k + 1]
    OBVIOUS
  <2>2. F[k + 1] = F[k] \o ss[k + 1]
    <3>1. (k + 1) - 1 = k
      BY <1>7
    <3> QED BY <2>1, <3>1 DEF Joins, n
  <2>3. CASE k = 0
    <3>1. F[0] = <<>>
      BY DEF Joins
    <3>2. F[1] = ss[1]
      BY <1>1, <2>1, <2>2, <2>3, <3>1, ConcatEmptySeq
    <3> QED BY <1>5, <2>1, <2>3, <3>2
  <2>4. CASE k # 0
    <3>1. k \in 1..n /\ k + 1 # 1 /\ (k + 1) - 1 = k
      BY <1>1, <2>1, <2>4
    <3>2. it[k] = F[k]
      BY <1>7, <3>1
    <3>3. it[k + 1] = it[k] \o ss[k + 1]
      BY <1>5, <2>1, <3>1
    <3> QED BY <2>2, <3>2, <3>3
  <2> QED BY <2>3, <2>4
<1> HIDE DEF N
<1>8. n \in N
  BY <1>1, <1>6, <1>7, Induction
<1>9. FlattenSeq(ss) = F[n]
  <2>1. CASE n = 0
    <3>1. ss = <<>>
      BY <2>1, EmptySeq DEF n
    <3> QED BY <1>2, <2>1, <3>1 DEF Joins
  <2>2. CASE n # 0
    <3>1. n \in 1..n
      BY <1>1, <2>2
    <3> QED BY <1>2, <1>8, <2>2, <3>1 DEF N
  <2> QED BY <2>1, <2>2
<1> QED BY <1>1, <1>9 DEF Joins, n

\* One more sequence comes last.
LEMMA FlattenOfMore ==
  ASSUME NEW S, NEW n \in Nat, NEW ss \in [1..n -> Seq(S)], NEW tt \in [1..(n + 1) -> Seq(S)],
         \A i \in 1..n : tt[i] = ss[i]
  PROVE  FlattenSeq(tt) = FlattenSeq(ss) \o tt[n + 1] /\ FlattenSeq(ss) \in Seq(S)
<1>1. ss \in Seq(Seq(S)) /\ Len(ss) = n /\ tt \in Seq(Seq(S)) /\ Len(tt) = n + 1
  <2> DEFINE T == Seq(S)
  <2> HIDE DEF T
  <2>1. \A m \in Nat : \A f \in [1..m -> T] : f \in Seq(T) /\ DOMAIN f = 1..m
    OBVIOUS
  <2>2. ss \in Seq(T) /\ DOMAIN ss = 1..n /\ tt \in Seq(T) /\ DOMAIN tt = 1..(n + 1)
    BY <2>1 DEF T
  <2>3. Len(ss) = n /\ Len(tt) = n + 1
    BY <2>2, LenProperties
  <2> QED BY <2>2, <2>3 DEF T
<1>2. PICK G : Joins(G, tt, n + 1, S)
  BY <1>1, JoinsExist
<1> DEFINE F == [k \in 0..n |-> G[k]]
<1>3. Joins(F, ss, n, S)
  <2>1. F \in [0..n -> Seq(S)] /\ F[0] = <<>>
    BY <1>1, <1>2 DEF Joins
  <2>2. ASSUME NEW k \in 1..n PROVE F[k] = F[k - 1] \o ss[k]
    <3>1. k \in 1..(n + 1) /\ k \in 0..n /\ k - 1 \in 0..n
      BY <1>1
    <3> QED BY <1>1, <1>2, <3>1 DEF Joins
  <2> HIDE DEF F
  <2> QED BY <2>1, <2>2 DEF Joins
<1>4. FlattenSeq(tt) = G[n + 1] /\ FlattenSeq(ss) = F[n] /\ FlattenSeq(ss) \in Seq(S)
  BY <1>1, <1>2, <1>3, FlattenByJoins
<1>5. G[n + 1] = F[n] \o tt[n + 1]
  <2>1. n + 1 \in 1..(n + 1) /\ (n + 1) - 1 = n /\ n \in 0..n
    BY <1>1
  <2> QED BY <1>1, <1>2, <2>1 DEF Joins
<1> QED BY <1>4, <1>5

\* Of no sequences nothing is left.
LEMMA FlattenNone == FlattenSeq(<<>>) = <<>>
<1>1. Len(<<>>) = 0
  OBVIOUS
<1> QED BY <1>1 DEF FlattenSeq


\* z is x with y after it.
Joined(S, n, m, x, y, z) ==
  /\ n \in Nat /\ m \in Nat
  /\ x \in [1..n -> Seq(S)] /\ y \in [1..m -> Seq(S)] /\ z \in [1..(n + m) -> Seq(S)]
  /\ \A i \in 1..n : z[i] = x[i]
  /\ \A j \in 1..m : z[n + j] = y[j]

\* Two sequences of sequences, one after the other.
LEMMA FlattenBoth ==
  ASSUME NEW S, NEW n, NEW m, NEW x, NEW y, NEW z, Joined(S, n, m, x, y, z)
  PROVE  FlattenSeq(z) = FlattenSeq(x) \o FlattenSeq(y)
<1> SUFFICES ASSUME n \in Nat, m \in Nat,
                    x \in [1..n -> Seq(S)], y \in [1..m -> Seq(S)], z \in [1..(n + m) -> Seq(S)],
                    \A i \in 1..n : z[i] = x[i], \A j \in 1..m : z[n + j] = y[j]
             PROVE  FlattenSeq(z) = FlattenSeq(x) \o FlattenSeq(y)
  BY DEF Joined
<1> DEFINE Y(k) == [j \in 1..k |-> y[j]]
           Z(k) == [i \in 1..(n + k) |-> z[i]]
           Both(k) == /\ FlattenSeq(Z(k)) = FlattenSeq(x) \o FlattenSeq(Y(k))
                      /\ FlattenSeq(x) \in Seq(S) /\ FlattenSeq(Y(k)) \in Seq(S)
           N == {k \in Nat : k <= m => Both(k)}
<1>1. ASSUME NEW k \in Nat, k <= m
      PROVE  Y(k) \in [1..k -> Seq(S)] /\ Z(k) \in [1..(n + k) -> Seq(S)]
  <2>1. \A j \in 1..k : j \in 1..m
    BY <1>1
  <2>2. \A i \in 1..(n + k) : i \in 1..(n + m)
    BY <1>1
  <2> QED BY <2>1, <2>2
<1>2. 0 \in N
  <2>1. Z(0) = x
    <3>1. n + 0 = n
      OBVIOUS
    <3>2. x = [i \in 1..n |-> x[i]]
      OBVIOUS
    <3>3. [i \in 1..n |-> z[i]] = [i \in 1..n |-> x[i]]
      OBVIOUS
    <3> QED BY <3>1, <3>2, <3>3
  <2>2. Y(0) = <<>>
    BY 1..0 = {}
  <2>3. FlattenSeq(x) \in Seq(S)
    <3>1. x \in Seq(Seq(S)) /\ Len(x) = n
      <4> DEFINE T == Seq(S)
      <4> HIDE DEF T
      <4>1. \A f \in [1..n -> T] : f \in Seq(T) /\ DOMAIN f = 1..n
        OBVIOUS
      <4>2. x \in Seq(T) /\ DOMAIN x = 1..n
        BY <4>1 DEF T
      <4> QED BY <4>2, LenProperties DEF T
    <3>2. PICK F : Joins(F, x, Len(x), S)
      BY <3>1, JoinsExist
    <3> QED BY <3>1, <3>2, FlattenByJoins
  <2> HIDE DEF Y, Z
  <2>4. FlattenSeq(Z(0)) = FlattenSeq(x) /\ FlattenSeq(Y(0)) = <<>> /\ <<>> \in Seq(S)
    BY <2>1, <2>2, FlattenNone
  <2>5. FlattenSeq(x) \o <<>> = FlattenSeq(x)
    BY <2>3, ConcatEmptySeq
  <2>6. Both(0)
    BY <2>3, <2>4, <2>5
  <2> HIDE DEF Both
  <2> QED BY <2>6
<1>3. ASSUME NEW k \in Nat, k \in N PROVE k + 1 \in N
  <2> HIDE DEF Both
  <2>1. SUFFICES ASSUME k + 1 <= m PROVE Both(k + 1)
    OBVIOUS
  <2>2. Both(k)
    <3>1. k <= m
      BY <2>1
    <3> QED BY <1>3, <3>1
  <2> USE DEF Both
  <2>3. /\ Y(k) \in [1..k -> Seq(S)] /\ Z(k) \in [1..(n + k) -> Seq(S)]
        /\ Y(k + 1) \in [1..(k + 1) -> Seq(S)] /\ Z(k + 1) \in [1..((n + k) + 1) -> Seq(S)]
    <3>1. k <= m /\ k + 1 \in Nat /\ n + (k + 1) = (n + k) + 1
      BY <2>1
    <3> QED BY <1>1, <2>1, <3>1
  <2>4. /\ \A j \in 1..k : Y(k + 1)[j] = Y(k)[j]
        /\ \A i \in 1..(n + k) : Z(k + 1)[i] = Z(k)[i]
        /\ Y(k + 1)[k + 1] = y[k + 1] /\ Z(k + 1)[(n + k) + 1] = y[k + 1]
    <3>1. \A j \in 1..k : j \in 1..(k + 1)
      OBVIOUS
    <3>2. \A i \in 1..(n + k) : i \in 1..(n + (k + 1))
      OBVIOUS
    <3>3. /\ k + 1 \in 1..(k + 1) /\ (n + k) + 1 \in 1..(n + (k + 1)) /\ (n + k) + 1 = n + (k + 1)
          /\ k + 1 \in 1..m
      BY <2>1
    <3> QED BY <3>1, <3>2, <3>3
  <2>5. y[k + 1] \in Seq(S)
    BY <2>1
  <2> DEFINE w == y[k + 1]
             A == Y(k)
             B == Z(k)
             C == Y(k + 1)
             D == Z(k + 1)
  <2>6. FlattenSeq(C) = FlattenSeq(A) \o C[k + 1] /\ FlattenSeq(A) \in Seq(S)
    <3> HIDE DEF Y, Z
    <3> QED BY <2>3, <2>4, FlattenOfMore
  <2>7. FlattenSeq(D) = FlattenSeq(B) \o D[(n + k) + 1]
    <3>1. PICK l \in Nat : l = n + k
      OBVIOUS
    <3> HIDE DEF Y, Z
    <3>2. /\ B \in [1..l -> Seq(S)] /\ D \in [1..(l + 1) -> Seq(S)]
          /\ \A i \in 1..l : D[i] = B[i]
      BY <2>3, <2>4, <3>1
    <3> HIDE DEF B, D
    <3>3. FlattenSeq(D) = FlattenSeq(B) \o D[l + 1]
      BY <3>2, FlattenOfMore
    <3> QED BY <3>1, <3>3
  <2>8. C[k + 1] = w /\ D[(n + k) + 1] = w /\ w \in Seq(S)
    BY <2>4, <2>5
  <2>9. FlattenSeq(B) = FlattenSeq(x) \o FlattenSeq(A) /\ FlattenSeq(x) \in Seq(S)
    BY <2>2
  <2> HIDE DEF w, A, B, C, D, Y, Z
  <2>10. /\ FlattenSeq(D) = FlattenSeq(x) \o FlattenSeq(C)
         /\ FlattenSeq(x) \in Seq(S) /\ FlattenSeq(C) \in Seq(S)
    <3> DEFINE a == FlattenSeq(A)
               b == FlattenSeq(x)
    <3>1. a \in Seq(S) /\ b \in Seq(S) /\ FlattenSeq(D) = (b \o a) \o w /\ FlattenSeq(C) = a \o w
      BY <2>6, <2>7, <2>8, <2>9
    <3> HIDE DEF a, b
    <3>2. w \in Seq(S)
      BY <2>8
    <3>3. a \o w \in Seq(S)
      BY <3>1, <3>2, ConcatProperties
    <3>4. (b \o a) \o w = b \o (a \o w)
      BY <3>1, <3>2, ConcatAssociative
    <3> QED BY <3>1, <3>3, <3>4 DEF b
  <2> QED BY <2>10 DEF C, D
<1> HIDE DEF N, Both
<1>4. m \in N
  BY <1>2, <1>3, Induction
<1>5. Both(m)
  BY <1>4 DEF N
<1> USE DEF Both
<1>6. Y(m) = y /\ Z(m) = z
  OBVIOUS
<1> HIDE DEF Y, Z
<1> QED BY <1>5, <1>6

\* What f makes of the elements of s, one after the other.
Along(f, s) == FlattenSeq([i \in 1..Len(s) |-> f[s[i]]])

\* The sequences that are flattened.
LEMMA AlongType ==
  ASSUME NEW X, NEW S, NEW f \in [X -> Seq(S)], NEW s \in Seq(X)
  PROVE  /\ [i \in 1..Len(s) |-> f[s[i]]] \in [1..Len(s) -> Seq(S)]
         /\ Along(f, s) \in Seq(S)
<1> DEFINE n == Len(s)
           ss == [i \in 1..n |-> f[s[i]]]
<1>1. n \in Nat /\ \A i \in 1..n : s[i] \in X
  BY LenProperties, ElementOf
<1>2. ss \in [1..n -> Seq(S)]
  BY <1>1
<1> HIDE DEF ss, n
<1>3. ss \in Seq(Seq(S)) /\ Len(ss) = n
  <2> DEFINE Y == Seq(S)
  <2> HIDE DEF Y
  <2>1. \A g \in [1..n -> Y] : g \in Seq(Y) /\ DOMAIN g = 1..n
    BY <1>1
  <2>2. ss \in Seq(Y) /\ DOMAIN ss = 1..n
    BY <1>2, <2>1 DEF Y
  <2> QED BY <1>1, <2>2, LenProperties DEF Y
<1>4. PICK F : Joins(F, ss, Len(ss), S)
  BY <1>3, JoinsExist
<1>5. FlattenSeq(ss) \in Seq(S)
  BY <1>3, <1>4, FlattenByJoins
<1> QED BY <1>2, <1>5 DEF Along, ss, n

\* Of nothing it makes nothing,
LEMMA AlongEmpty == \A f : Along(f, <<>>) = <<>>
<1> SUFFICES ASSUME NEW f PROVE Along(f, <<>>) = <<>>
  OBVIOUS
<1>1. Len(<<>>) = 0 /\ 1..0 = {}
  OBVIOUS
<1>2. [i \in 1..Len(<<>>) |-> f[<<>>[i]]] = <<>>
  BY <1>1
<1> QED BY <1>2, FlattenNone DEF Along

\* of two sequences what it makes of each.
LEMMA AlongBoth ==
  ASSUME NEW X, NEW S, NEW f \in [X -> Seq(S)], NEW s \in Seq(X), NEW t \in Seq(X)
  PROVE  Along(f, s \o t) = Along(f, s) \o Along(f, t)
<1>1. PICK n \in Nat, m \in Nat : n = Len(s) /\ m = Len(t)
  BY LenProperties
<1>2. PICK u \in Seq(X) :
         /\ u = s \o t /\ Len(u) = n + m
         /\ \A i \in 1..(n + m) : u[i] = IF i <= n THEN s[i] ELSE t[i - n]
  <2>1. /\ s \o t \in Seq(X) /\ Len(s \o t) = n + m
        /\ \A i \in 1..(n + m) : (s \o t)[i] = IF i <= n THEN s[i] ELSE t[i - n]
    BY <1>1, ConcatProperties
  <2> QED BY <2>1
<1> DEFINE x == [i \in 1..n |-> f[s[i]]]
           y == [i \in 1..m |-> f[t[i]]]
           z == [i \in 1..(n + m) |-> f[u[i]]]
<1>3. x \in [1..n -> Seq(S)] /\ y \in [1..m -> Seq(S)] /\ z \in [1..(n + m) -> Seq(S)]
  <2>1. [i \in 1..Len(s) |-> f[s[i]]] \in [1..Len(s) -> Seq(S)]
    BY AlongType
  <2>2. [i \in 1..Len(t) |-> f[t[i]]] \in [1..Len(t) -> Seq(S)]
    BY AlongType
  <2>3. [i \in 1..Len(u) |-> f[u[i]]] \in [1..Len(u) -> Seq(S)]
    BY AlongType
  <2> QED BY <1>1, <1>2, <2>1, <2>2, <2>3
<1>4. \A i \in 1..n : z[i] = x[i]
  <2>1. \A i \in 1..n : i \in 1..(n + m) /\ i <= n
    OBVIOUS
  <2> QED BY <1>2, <2>1
<1>5. \A j \in 1..m : z[n + j] = y[j]
  <2>1. \A j \in 1..m : n + j \in 1..(n + m) /\ ~(n + j <= n) /\ (n + j) - n = j
    OBVIOUS
  <2> QED BY <1>2, <2>1
<1>6. FlattenSeq(z) = FlattenSeq(x) \o FlattenSeq(y)
  <2> HIDE DEF x, y, z
  <2>1. Joined(S, n, m, x, y, z)
    BY <1>3, <1>4, <1>5 DEF Joined
  <2> QED BY <2>1, FlattenBoth
<1> QED BY <1>1, <1>2, <1>6 DEF Along

\* The conclusion of AlongBoth, and its lemma with a name for it.
BothAlong(f, s, t) == Along(f, s \o t) = Along(f, s) \o Along(f, t)

\* What is made of two sequences is what is made of each.
LEMMA BothAre ==
  ASSUME NEW X, NEW S, NEW f \in [X -> Seq(S)], NEW s \in Seq(X), NEW t \in Seq(X)
  PROVE  BothAlong(f, s, t)
BY AlongBoth DEF BothAlong

\* One more element comes last.
LEMMA AlongMore ==
  ASSUME NEW X, NEW S, NEW f \in [X -> Seq(S)], NEW s \in Seq(X), NEW x \in X
  PROVE  Along(f, Append(s, x)) = Along(f, s) \o f[x]
<1>1. PICK t \in Seq(X) : t = <<x>> /\ Append(s, x) = s \o t
  <2>1. <<x>> \in Seq(X)
    OBVIOUS
  <2>2. Append(s, x) = s \o <<x>>
    BY AppendIsConcat
  <2> QED BY <2>1, <2>2
<1>2. Along(f, s \o t) = Along(f, s) \o Along(f, t)
  BY AlongBoth
<1>3. Along(f, t) = f[x]
  <2>1. Len(t) = 1 /\ t[1] = x
    BY <1>1
  <2> DEFINE y == [i \in 1..1 |-> f[t[i]]]
  <2>2. PICK none \in Nat : none = 0 /\ none + 1 = 1
    OBVIOUS
  <2>3. PICK e \in [1..none -> Seq(S)] : e = <<>>
    <3>1. 1..none = {}
      BY <2>2
    <3>2. [i \in {} |-> <<>>] = <<>> /\ [i \in {} |-> <<>>] \in [{} -> Seq(S)]
      OBVIOUS
    <3> QED BY <3>1, <3>2
  <2>4. PICK z \in [1..(none + 1) -> Seq(S)] : z = y /\ z[none + 1] = f[x]
    <3>1. y \in [1..1 -> Seq(S)] /\ y[1] = f[x]
      BY <2>1
    <3> HIDE DEF y
    <3> QED BY <2>2, <3>1
  <2> HIDE DEF y
  <2>5. FlattenSeq(z) = FlattenSeq(e) \o z[none + 1] /\ FlattenSeq(e) \in Seq(S)
    <3>1. \A i \in 1..none : z[i] = e[i]
      BY <2>2
    <3> QED BY ONLY <3>1, none \in Nat, e \in [1..none -> Seq(S)],
                    z \in [1..(none + 1) -> Seq(S)], FlattenOfMore
  <2>6. f[x] \in Seq(S)
    OBVIOUS
  <2>7. FlattenSeq(y) = f[x]
    BY <2>3, <2>4, <2>5, <2>6, FlattenNone, ConcatEmptySeq
  <2> QED BY <2>1, <2>7 DEF Along, y
<1> QED BY <1>1, <1>2, <1>3

\* What is made of a sequence with one more element.
OneMore(f, s, x) == Along(f, Append(s, x)) = Along(f, s) \o f[x]

\* It is what is made of the sequence, and then of the element.
LEMMA OneMoreIs ==
  ASSUME NEW X, NEW S, NEW f \in [X -> Seq(S)], NEW s \in Seq(X), NEW x \in X
  PROVE  OneMore(f, s, x)
BY AlongMore DEF OneMore

\* Three sequences in a row,
InARow(s, t, u) == (s \o t) \o u = s \o (t \o u)

\* whichever two are joined first.
LEMMA InARowIs ==
  ASSUME NEW S, NEW s \in Seq(S), NEW t \in Seq(S), NEW u \in Seq(S)
  PROVE  InARow(s, t, u)
BY ConcatAssociative DEF InARow

\* Where it makes nothing of any element, nothing is left.
LEMMA AlongNothing ==
  ASSUME NEW X, NEW S, NEW f \in [X -> Seq(S)], NEW s \in Seq(X),
         \A i \in 1..Len(s) : f[s[i]] = <<>>
  PROVE  Along(f, s) = <<>>
<1> DEFINE n == Len(s)
           part(k) == [i \in 1..k |-> <<>>]
           N == {k \in Nat : FlattenSeq(part(k)) = <<>>}
<1>1. n \in Nat /\ [i \in 1..n |-> f[s[i]]] = part(n)
  BY LenProperties
<1>2. 0 \in N
  <2>1. part(0) = <<>>
    OBVIOUS
  <2> HIDE DEF part
  <2> QED BY <2>1, FlattenNone
<1>3. ASSUME NEW k \in Nat, k \in N PROVE k + 1 \in N
  <2>1. /\ part(k) \in [1..k -> Seq(S)] /\ part(k + 1) \in [1..(k + 1) -> Seq(S)]
        /\ (\A i \in 1..k : part(k + 1)[i] = part(k)[i]) /\ part(k + 1)[k + 1] = <<>>
    OBVIOUS
  <2>2. PICK x, y : x = part(k) /\ y = part(k + 1)
    OBVIOUS
  <2> HIDE DEF part
  <2>3. FlattenSeq(y) = FlattenSeq(x) \o y[k + 1]
    BY <2>1, <2>2, FlattenOfMore
  <2> QED BY <1>3, <2>1, <2>2, <2>3
<1> HIDE DEF N, part
<1>4. n \in N
  BY <1>1, <1>2, <1>3, Induction
<1> QED BY <1>1, <1>4 DEF N, Along

-----------------------------------------------------------------------------
(* Fences, and the code between them. *)

Block == [text : Text, language : Text]

\* Nothing is made of one such element,
LEMMA OneNothing ==
  ASSUME NEW X, NEW S, NEW f \in [X -> Seq(S)], NEW x \in X, f[x] = <<>>
  PROVE  <<x>> \in Seq(X) /\ Along(f, <<x>>) = <<>>
<1>1. <<x>> \in Seq(X) /\ \A i \in 1..Len(<<x>>) : <<x>>[i] = x
  OBVIOUS
<1>2. PICK s \in Seq(X) : s = <<x>> /\ \A i \in 1..Len(s) : f[s[i]] = <<>>
  BY <1>1
<1>3. Along(f, s) = <<>>
  BY <1>2, AlongNothing
<1> QED BY <1>2, <1>3

\* nor of two of them around others.
Enclosed(x, s, y) == (<<x>> \o s) \o <<y>>

LEMMA InNothing ==
  ASSUME NEW X, NEW S, NEW f \in [X -> Seq(S)], NEW x \in X, NEW y \in X,
         f[x] = <<>>, f[y] = <<>>, NEW s \in Seq(X)
  PROVE  Along(f, Enclosed(x, s, y)) = Along(f, s)
<1>1. PICK a \in Seq(X), z \in Seq(X) :
         a = <<x>> /\ z = <<y>> /\ Along(f, a) = <<>> /\ Along(f, z) = <<>>
  <2>1. <<x>> \in Seq(X) /\ Along(f, <<x>>) = <<>>
    BY OneNothing
  <2>2. <<y>> \in Seq(X) /\ Along(f, <<y>>) = <<>>
    BY OneNothing
  <2> QED BY <2>1, <2>2
<1>2. PICK b \in Seq(X) : b = a \o s
  BY ConcatProperties
<1>3. BothAlong(f, a, s) /\ BothAlong(f, b, z)
  BY BothAre
<1>4. Along(f, b) = Along(f, a) \o Along(f, s) /\ Along(f, b \o z) = Along(f, b) \o Along(f, z)
  BY <1>2, <1>3 DEF BothAlong
<1>5. PICK u \in Seq(S) : u = Along(f, s)
  BY AlongType
<1>6. <<>> \o u = u /\ u \o <<>> = u
  BY ConcatEmptySeq
<1>7. Along(f, b) = u
  BY <1>1, <1>4, <1>5, <1>6
<1>8. Along(f, b \o z) = u
  BY <1>1, <1>4, <1>6, <1>7
<1> QED BY <1>1, <1>2, <1>5, <1>8 DEF Enclosed

\* The fences before a line, and those with this line.
LEMMA FencesNext ==
  ASSUME NEW lines \in Seq(Plain), NEW b \in 1..Len(lines)
  PROVE  /\ FencesBefore(lines, b) \in SUBSET (1..Len(lines))
         /\ b \notin FencesBefore(lines, b) /\ \A a \in FencesBefore(lines, b) : a < b
         /\ FencesBefore(lines, b + 1) =
              IF StartsWith(lines[b], Fence) THEN FencesBefore(lines, b) \cup {b}
                                             ELSE FencesBefore(lines, b)
         /\ FencesBefore(lines, 1) = {}
<1>1. PICK n \in Nat : n = Len(lines) /\ DOMAIN lines = 1..n
  BY LenProperties
<1>2. \A a \in 1..n : (a < b + 1) <=> (a < b \/ a = b)
  BY <1>1
<1>3. \A a \in 1..n : ~(a < 1) /\ ~(b < b)
  BY <1>1
<1> QED BY <1>1, <1>2, <1>3 DEF FencesBefore

\* No fences are an even number of them.
LEMMA NoneOdd == Cardinality({}) % 2 # 1
<1>1. Cardinality({}) = 0
  BY FS_EmptySet
<1>2. 0 % 2 # 1
  OBVIOUS
<1> QED BY <1>1, <1>2

\* Each fence opens a block of code or closes it.
LEMMA CodeOpenNext ==
  ASSUME NEW lines \in Seq(Plain), NEW b \in 1..Len(lines)
  PROVE  /\ CodeOpen(lines, b + 1) <=>
              IF StartsWith(lines[b], Fence) THEN ~CodeOpen(lines, b) ELSE CodeOpen(lines, b)
         /\ ~CodeOpen(lines, 1)
<1>1. Len(lines) \in Nat
  BY LenProperties
<1> DEFINE s == FencesBefore(lines, b)
           t == FencesBefore(lines, b + 1)
<1>2. s \in SUBSET (1..Len(lines)) /\ b \notin s
  BY FencesNext
<1>3. IsFiniteSet(s)
  <2>1. IsFiniteSet(1..Len(lines))
    BY <1>1, FS_Interval
  <2> QED BY <1>2, <2>1, FS_Subset
<1>4. PICK c \in Nat : c = Cardinality(s)
  BY <1>3, FS_CardinalityType
<1>5. t = IF StartsWith(lines[b], Fence) THEN s \cup {b} ELSE s
  BY FencesNext
<1>6. CodeOpen(lines, b) <=> c % 2 = 1
  BY <1>4 DEF CodeOpen
<1>7. ASSUME StartsWith(lines[b], Fence)
      PROVE  CodeOpen(lines, b + 1) <=> ~CodeOpen(lines, b)
  <2>1. Cardinality(t) = c + 1
    <3> HIDE DEF s, t
    <3>1. Cardinality(s \cup {b}) = Cardinality(s) + 1
      BY <1>2, <1>3, FS_AddElement
    <3> QED BY <1>4, <1>5, <1>7, <3>1
  <2>2. CodeOpen(lines, b + 1) <=> (c + 1) % 2 = 1
    BY <2>1 DEF CodeOpen
  <2>3. (c + 1) % 2 = 1 <=> ~(c % 2 = 1)
    OBVIOUS
  <2> QED BY <1>6, <2>2, <2>3, Zenon
<1>8. ASSUME ~StartsWith(lines[b], Fence)
      PROVE  CodeOpen(lines, b + 1) <=> CodeOpen(lines, b)
  <2>1. t = s
    BY <1>5, <1>8
  <2> HIDE DEF s, t
  <2> QED BY <2>1 DEF CodeOpen, s, t
<1>9. ~CodeOpen(lines, 1)
  <2>1. FencesBefore(lines, 1) = {}
    BY FencesNext
  <2> QED BY <2>1, NoneOdd DEF CodeOpen
<1> QED BY <1>7, <1>8, <1>9

\* The fence that opened the block before line b.
Opener(lines, b) == Max(FencesBefore(lines, b))

\* An open block was opened before; a line that is no fence leaves it open, a fence where
\* none is open opens one.
LEMMA OpenerIs ==
  ASSUME NEW lines \in Seq(Plain), NEW b \in 1..Len(lines)
  PROVE  /\ CodeOpen(lines, b) => /\ Opener(lines, b) \in 1..(b - 1)
                                  /\ StartsWith(lines[Opener(lines, b)], Fence)
         /\ ~StartsWith(lines[b], Fence) => Opener(lines, b + 1) = Opener(lines, b)
         /\ StartsWith(lines[b], Fence) => Opener(lines, b + 1) = b
<1>1. PICK n \in Nat : n = Len(lines)
  BY LenProperties
<1> DEFINE s == FencesBefore(lines, b)
           t == FencesBefore(lines, b + 1)
<1>2. /\ s \in SUBSET (1..n) /\ \A a \in s : a < b
      /\ t = IF StartsWith(lines[b], Fence) THEN s \cup {b} ELSE s
  BY <1>1, FencesNext
<1>6. \A a \in s : StartsWith(lines[a], Fence)
  BY DEF FencesBefore
<1>3. CodeOpen(lines, b) => s # {}
  BY NoneOdd DEF CodeOpen
<1> HIDE DEF s, t
<1>4. ASSUME s # {} PROVE Max(s) \in 1..(b - 1) /\ Max(s) \in s
  <2>1. s \in SUBSET (0..n)
    BY <1>2
  <2>2. Max(s) \in s
    BY <1>4, <2>1, MaxExists
  <2>3. Max(s) \in 1..n /\ Max(s) < b
    BY <1>2, <2>2
  <2> QED BY <2>2, <2>3
<1>5. ASSUME StartsWith(lines[b], Fence) PROVE Max(t) = b
  <2>1. b \in t /\ t \subseteq Nat /\ \A x \in t : x <= b
    BY <1>1, <1>2, <1>5
  <2> QED BY <2>1, MaxOf
<1> QED BY <1>2, <1>3, <1>4, <1>5, <1>6 DEF Opener, s, t

\* What is read of a block before line b, and with line b.
LEMMA BetweenMore ==
  ASSUME NEW lines \in Seq(Plain), NEW b \in 1..Len(lines), NEW a \in 1..b
  PROVE  /\ Between(lines, b, b + 1).text = <<>>
         /\ Between(lines, a, b).language = Trim(Tail(lines[a]))
         /\ Between(lines, a, b + 1).language = Trim(Tail(lines[a]))
         /\ a # b => /\ Between(lines, a, b).text \in Text
                     /\ Between(lines, a, b + 1).text =
                          Between(lines, a, b).text \o lines[b] \o <<Break>>
<1>1. PICK n \in Nat : n = Len(lines) /\ \A i \in 1..n : lines[i] \in Plain
  BY LenProperties, ElementOf
<1>2. Between(lines, b, b + 1).text = <<>>
  <2>1. (b + 1) - b - 1 = 0
    BY <1>1
  <2> DEFINE ss == [k \in 1..((b + 1) - b - 1) |-> lines[b + k] \o <<Break>>]
  <2>2. ss = <<>>
    BY <2>1
  <2>3. Between(lines, b, b + 1).text = FlattenSeq(ss)
    BY DEF Between
  <2> QED BY <2>2, <2>3, FlattenNone
<1>3. ASSUME a # b
      PROVE  /\ Between(lines, a, b).text \in Text
             /\ Between(lines, a, b + 1).text =
                  Between(lines, a, b).text \o lines[b] \o <<Break>>
  <2>1. PICK m \in Nat : m = b - a - 1 /\ (b + 1) - a - 1 = m + 1 /\ a + (m + 1) = b
    <3>1. b - a - 1 \in Nat
      BY <1>1, <1>3
    <3> QED BY <3>1
  <2> DEFINE Line(k) == lines[a + k] \o <<Break>>
             ss == [k \in 1..m |-> Line(k)]
             tt == [k \in 1..(m + 1) |-> Line(k)]
  <2>2. ASSUME NEW k \in 1..(m + 1) PROVE Line(k) \in Seq(Piece)
    <3>1. a + k \in 1..n
      BY <1>1, <2>1
    <3>2. PICK l \in Seq(Piece) : l = lines[a + k]
      <4>1. lines[a + k] \in Plain
        BY <1>1, <3>1
      <4> QED BY <4>1, SeqMonotonic DEF Plain
    <3>3. <<Break>> \in Seq(Piece)
      BY DEF Piece
    <3> QED BY <3>2, <3>3, ConcatProperties
  <2>3. /\ ss \in [1..m -> Seq(Piece)] /\ tt \in [1..(m + 1) -> Seq(Piece)]
        /\ (\A i \in 1..m : tt[i] = ss[i]) /\ tt[m + 1] = Line(m + 1)
    <3>1. \A i \in 1..m : i \in 1..(m + 1)
      OBVIOUS
    <3> HIDE DEF Line
    <3> QED BY <2>2, <3>1
  <2>4. /\ Between(lines, a, b).text = FlattenSeq(ss)
        /\ Between(lines, a, b + 1).text = FlattenSeq(tt)
    BY <2>1 DEF Between
  <2>5. Line(m + 1) = lines[b] \o <<Break>>
    BY <2>1
  <2> HIDE DEF ss, tt, Line
  <2>6. FlattenSeq(tt) = FlattenSeq(ss) \o tt[m + 1] /\ FlattenSeq(ss) \in Seq(Piece)
    BY <2>3, FlattenOfMore
  <2>7. PICK x \in Seq(Piece), l \in Seq(Piece), nl \in Seq(Piece) :
           x = FlattenSeq(ss) /\ l = lines[b] /\ nl = <<Break>>
    <3>1. lines[b] \in Seq(Piece)
      <4>1. lines[b] \in Plain
        BY <1>1
      <4> QED BY <4>1, SeqMonotonic DEF Plain
    <3>2. <<Break>> \in Seq(Piece)
      BY DEF Piece
    <3> QED BY <2>6, <3>1, <3>2
  <2>8. (x \o l) \o nl = x \o (l \o nl)
    BY ConcatAssociative
  <2> QED BY <2>3, <2>4, <2>5, <2>6, <2>7, <2>8 DEF Text
<1>4. \A x, y : Between(lines, x, y).language = Trim(Tail(lines[x]))
  BY DEF Between
<1> QED BY <1>2, <1>3, <1>4

-----------------------------------------------------------------------------
(* The tokens of a text, one line after the other. *)

TokenTypes == {"paragraph", "heading", "bullet", "number", "code"}

\* What is in the buffer becomes a token of it.
LEMMA PushBufferTokens ==
  ASSUME NEW s \in Reading, NEW type \in TokenTypes, type = "code" => s.inside
  PROVE  LET token == [type |-> type, content |-> s.buffer, language |-> s.language]
         IN  IF s.buffer = <<>> THEN PushBuffer(s, type) = s
             ELSE /\ token \in Toks
                  /\ PushBuffer(s, type) = [tokens |-> Append(s.tokens, token), buffer |-> <<>>,
                                            language |-> <<>>, inside |-> s.inside]
<1>1. PICK tokens \in Seq(Toks), buffer \in Text, language \in Plain, inside \in BOOLEAN :
         /\ s = [tokens |-> tokens, buffer |-> buffer, language |-> language, inside |-> inside]
         /\ inside => buffer \in CodeText \cup {<<>>}
         /\ s.tokens = tokens /\ s.buffer = buffer /\ s.language = language /\ s.inside = inside
  BY DEF Reading
<1>2. CASE buffer = <<>>
  BY <1>1, <1>2 DEF PushBuffer
<1>3. CASE buffer # <<>>
  <2>1. PICK token : token = [type |-> type, content |-> buffer, language |-> language]
    OBVIOUS
  <2>2. token \in Toks
    <3>1. language \in Text
      BY SeqMonotonic DEF Plain, Text
    <3>2. token \in Token
      BY <2>1, <3>1 DEF Token, TokenTypes
    <3>3. type = "code" => buffer \in CodeText
      BY <1>1, <1>3
    <3> QED BY <2>1, <3>2, <3>3 DEF Toks
  <2>3. PICK more : more = Append(tokens, token)
    OBVIOUS
  <2>4. PICK t : t = [s EXCEPT !.tokens = more, !.buffer = <<>>, !.language = <<>>]
    OBVIOUS
  <2>5. PushBuffer(s, type) = t
    BY <1>1, <1>3, <2>1, <2>3, <2>4 DEF PushBuffer
  <2>6. t = [tokens |-> more, buffer |-> <<>>, language |-> <<>>, inside |-> inside]
    BY <1>1, <2>4
  <2> QED BY <1>1, <1>3, <2>1, <2>2, <2>3, <2>5, <2>6
<1> QED BY <1>2, <1>3

\* A line of its own becomes one, unless nothing follows its mark,
LEMMA PushLineTokens ==
  ASSUME NEW s \in Reading, ~s.inside, NEW type \in {"heading", "bullet", "number"},
         NEW content \in Text
  PROVE  \E language \in Plain :
           LET token == [type |-> type, content |-> content, language |-> language]
           IN  /\ token \in Toks
               /\ PushLine(s, type, content).buffer = <<>>
               /\ PushLine(s, type, content).tokens =
                    IF content = <<>> THEN PushBuffer(s, "paragraph").tokens
                    ELSE Append(PushBuffer(s, "paragraph").tokens, token)
<1>1. PICK r \in Reading : r = PushBuffer(s, "paragraph") /\ ~r.inside
  BY PushBufferType
<1>2. PICK tokens \in Seq(Toks), buffer \in Text, language \in Plain :
         /\ r = [tokens |-> tokens, buffer |-> buffer, language |-> language, inside |-> FALSE]
         /\ r.tokens = tokens
  BY <1>1 DEF Reading
<1>3. PICK t : t = [r EXCEPT !.buffer = content]
  OBVIOUS
<1>4. /\ t = [tokens |-> tokens, buffer |-> content, language |-> language, inside |-> FALSE]
      /\ t.tokens = tokens /\ t.buffer = content /\ t.language = language /\ ~t.inside
  BY <1>2, <1>3
<1>5. t \in Reading
  BY <1>4, Fields
<1>6. PushLine(s, type, content) = PushBuffer(t, type)
  BY <1>1, <1>3 DEF PushLine
<1>7. PICK token : token = [type |-> type, content |-> content, language |-> language]
  OBVIOUS
<1>8. token \in Toks
  <2>1. language \in Text
    BY SeqMonotonic DEF Plain, Text
  <2> QED BY <1>7, <2>1 DEF Toks, Token
<1>9. IF content = <<>> THEN PushBuffer(t, type) = t
      ELSE PushBuffer(t, type) = [tokens |-> Append(tokens, token), buffer |-> <<>>,
                                  language |-> <<>>, inside |-> FALSE]
  <2>1. type \in TokenTypes /\ type # "code"
    BY DEF TokenTypes
  <2>2. IF t.buffer = <<>> THEN PushBuffer(t, type) = t
        ELSE PushBuffer(t, type) =
               [tokens |-> Append(t.tokens, [type |-> type, content |-> t.buffer,
                                             language |-> t.language]), buffer |-> <<>>,
                language |-> <<>>, inside |-> t.inside]
    BY <1>5, <2>1, PushBufferTokens
  <2>3. t.inside = FALSE
    BY <1>4
  <2> QED BY <1>4, <1>7, <2>2, <2>3
<1>10. PICK p : p = PushLine(s, type, content)
  OBVIOUS
<1>11. p.buffer = <<>> /\ p.tokens = IF content = <<>> THEN tokens ELSE Append(tokens, token)
  <2>1. CASE content = <<>>
    BY <1>4, <1>6, <1>9, <1>10, <2>1
  <2>2. CASE content # <<>>
    <3>1. p = [tokens |-> Append(tokens, token), buffer |-> <<>>, language |-> <<>>,
               inside |-> FALSE]
      BY <1>6, <1>9, <1>10, <2>2
    <3> QED BY <2>2, <3>1
  <2> QED BY <2>1, <2>2
<1> QED BY <1>1, <1>2, <1>7, <1>8, <1>10, <1>11

\* a row of a table always,
LEMMA PushRowTokens ==
  ASSUME NEW s \in Reading, ~s.inside, NEW line \in Plain
  PROVE  LET token == [type |-> "paragraph", content |-> line, language |-> <<>>]
         IN  /\ token \in Toks
             /\ PushRow(s, line).buffer = <<>>
             /\ PushRow(s, line).tokens = Append(PushBuffer(s, "paragraph").tokens, token)
<1>1. PICK r \in Reading : r = PushBuffer(s, "paragraph") /\ ~r.inside /\ r.buffer = <<>>
  BY PushBufferType
<1>2. PICK tokens \in Seq(Toks), language \in Plain :
         /\ r = [tokens |-> tokens, buffer |-> <<>>, language |-> language, inside |-> FALSE]
         /\ r.tokens = tokens
  BY <1>1 DEF Reading
<1>3. PICK token \in Toks : token = [type |-> "paragraph", content |-> line, language |-> <<>>]
  <2>1. line \in Text /\ <<>> \in Text
    BY SeqMonotonic DEF Plain, Text
  <2> QED BY <2>1 DEF Toks, Token
<1>4. PICK more : more = Append(tokens, token)
  OBVIOUS
<1>5. PICK t : t = [r EXCEPT !.tokens = more]
  OBVIOUS
<1>6. PushRow(s, line) = t
  BY <1>1, <1>2, <1>3, <1>4, <1>5 DEF PushRow
<1>7. t = [tokens |-> more, buffer |-> <<>>, language |-> language, inside |-> FALSE]
  BY <1>2, <1>5
<1>8. t.tokens = more /\ t.buffer = <<>>
  BY <1>7
<1> QED BY <1>1, <1>2, <1>3, <1>4, <1>6, <1>8

\* and a line of dashes none.
LEMMA DividerTokens ==
  ASSUME NEW s \in Reading, ~s.inside
  PROVE  PushLine(s, "divider", <<>>) = PushBuffer(s, "paragraph")
<1>1. PICK r \in Reading : r = PushBuffer(s, "paragraph") /\ r.buffer = <<>>
  BY PushBufferType
<1>2. PICK t : t = [r EXCEPT !.buffer = <<>>]
  OBVIOUS
<1>3. t = r
  BY <1>1, <1>2 DEF Reading
<1> QED BY <1>1, <1>2, <1>3 DEF PushLine, PushBuffer

\* A line that starts with a mark is one block, or none;
LineOfMark(s, line, p) ==
  /\ \E mark \in {Hash, Bullet, Number} : StartsWith(line, mark)
  /\ \E type \in {"heading", "bullet", "number"}, language \in Plain :
       LET token == [type |-> type, content |-> Tail(line), language |-> language]
       IN  /\ token \in Toks /\ p.buffer = <<>>
           /\ p.tokens = IF Tail(line) = <<>> THEN PushBuffer(s, "paragraph").tokens
                         ELSE Append(PushBuffer(s, "paragraph").tokens, token)
\* dashes end a paragraph,
LineOfDashes(s, line, p) ==
  /\ IsDivider(line) /\ p.buffer = <<>>
  /\ p.tokens = PushBuffer(s, "paragraph").tokens
\* a row is a paragraph of its own,
LineOfRow(s, line, p) ==
  LET token == [type |-> "paragraph", content |-> line, language |-> <<>>]
  IN  /\ HasTablePipe(line) /\ token \in Toks /\ p.buffer = <<>>
      /\ p.tokens = Append(PushBuffer(s, "paragraph").tokens, token)
\* any other line goes on with one.
LineOfWords(s, line, p) ==
  /\ ~HasTablePipe(line) /\ p.tokens = s.tokens
  /\ p.buffer = IF line = <<>> THEN Append(s.buffer, Break) ELSE s.buffer \o line \o <<Blank>>

\* Which of these a line outside a block of code is (parse_markdown_elements).
LEMMA ParseTokens ==
  ASSUME NEW s \in Reading, ~s.inside, NEW line \in Plain
  PROVE  LET p == ParseMarkdownElements(s, line)
         IN  \/ LineOfMark(s, line, p) \/ LineOfDashes(s, line, p)
             \/ LineOfRow(s, line, p) \/ LineOfWords(s, line, p)
<1> DEFINE p == ParseMarkdownElements(s, line)
<1>0. /\ Hash # Bullet /\ Hash # Number /\ Bullet # Number
      /\ (HasTablePipe(line) /\ line[1] \notin {Hash, Bullet, Number}) <=> IsRow(line)
  BY DEF Hash, Bullet, Number, IsRow
<1>m. ASSUME NEW mark \in {Hash, Bullet, Number}, StartsWith(line, mark),
             NEW type \in {"heading", "bullet", "number"}, p = PushLine(s, type, Tail(line))
      PROVE  LineOfMark(s, line, p)
  <2>1. Tail(line) \in Text
    BY <1>m, TailType
  <2>2. PICK c \in Text : c = Tail(line)
    BY <2>1
  <2>3. PICK q : q = PushLine(s, type, c)
    OBVIOUS
  <2>4. \E language \in Plain :
          LET token == [type |-> type, content |-> c, language |-> language]
          IN  /\ token \in Toks
              /\ q.buffer = <<>>
              /\ q.tokens = IF c = <<>> THEN PushBuffer(s, "paragraph").tokens
                            ELSE Append(PushBuffer(s, "paragraph").tokens, token)
    BY <2>3, PushLineTokens
  <2>5. p = q
    BY <1>m, <2>2, <2>3
  <2> HIDE DEF p
  <2> QED BY <1>m, <2>2, <2>4, <2>5 DEF LineOfMark
<1>1. CASE StartsWith(line, Hash)
  <2>1. p = PushLine(s, "heading", Tail(line))
    BY <1>0, <1>1, LineKinds DEF ParseMarkdownElements
  <2> QED BY <1>1, <1>m, <2>1
<1>2. CASE ~StartsWith(line, Hash) /\ IsDivider(line)
  <2>1. p = PushLine(s, "divider", <<>>)
    BY <1>0, <1>2, LineKinds DEF ParseMarkdownElements
  <2>2. p = PushBuffer(s, "paragraph") /\ PushBuffer(s, "paragraph").buffer = <<>>
    BY <2>1, DividerTokens, PushBufferType
  <2> QED BY <1>2, <2>2 DEF LineOfDashes
<1>3. CASE ~StartsWith(line, Hash) /\ ~IsDivider(line) /\ StartsWith(line, Bullet)
  <2>1. p = PushLine(s, "bullet", Tail(line))
    BY <1>0, <1>3, LineKinds DEF ParseMarkdownElements
  <2> QED BY <1>3, <1>m, <2>1
<1>4. CASE /\ ~StartsWith(line, Hash) /\ ~IsDivider(line) /\ ~StartsWith(line, Bullet)
           /\ StartsWith(line, Number)
  <2>1. p = PushLine(s, "number", Tail(line))
    BY <1>0, <1>4, LineKinds DEF ParseMarkdownElements
  <2> QED BY <1>4, <1>m, <2>1
<1>5. CASE /\ ~StartsWith(line, Hash) /\ ~IsDivider(line) /\ ~StartsWith(line, Bullet)
           /\ ~StartsWith(line, Number)
  <2>1. CASE IsRow(line)
    <3>1. p = PushRow(s, line)
      BY <1>0, <1>5, <2>1, LineKinds DEF ParseMarkdownElements
    <3>2. LineOfRow(s, line, PushRow(s, line))
      BY <2>1, PushRowTokens DEF LineOfRow, IsRow
    <3> QED BY <3>1, <3>2
  <2>2. /\ s.buffer \in Text
        /\ s = [tokens |-> s.tokens, buffer |-> s.buffer, language |-> s.language,
                inside |-> s.inside]
    BY DEF Reading
  <2>3. ASSUME ~IsRow(line) PROVE ~HasTablePipe(line)
    <3>1. PICK n \in Nat : n = Len(line) /\ DOMAIN line = 1..n
      BY LenProperties DEF Plain
    <3>2. HasTablePipe(line) => line # <<>>
      BY <3>1 DEF HasTablePipe, Contains
    <3>3. line # <<>> => line[1] \notin {Hash, Bullet, Number}
      BY <1>5 DEF StartsWith
    <3> QED BY <2>3, <3>2, <3>3 DEF IsRow
  <2>4. CASE ~IsRow(line) /\ line = <<>>
    <3>1. p = [s EXCEPT !.buffer = Append(s.buffer, Break)]
      BY <1>0, <1>5, <2>4 DEF ParseMarkdownElements
    <3>2. PICK b : b = Append(s.buffer, Break)
      OBVIOUS
    <3>3. p = [tokens |-> s.tokens, buffer |-> b, language |-> s.language, inside |-> s.inside]
      BY <2>2, <3>1, <3>2
    <3> HIDE DEF p
    <3>4. p.tokens = s.tokens /\ p.buffer = b
      BY <3>3
    <3>5. LineOfWords(s, line, p)
      BY <2>3, <2>4, <3>2, <3>4 DEF LineOfWords
    <3> QED BY <3>5 DEF p
  <2>5. CASE ~IsRow(line) /\ line # <<>>
    <3>1. p = [s EXCEPT !.buffer = s.buffer \o line \o <<Blank>>]
      BY <1>0, <1>5, <2>5 DEF ParseMarkdownElements
    <3>2. PICK b : b = s.buffer \o line \o <<Blank>>
      OBVIOUS
    <3>3. p = [tokens |-> s.tokens, buffer |-> b, language |-> s.language, inside |-> s.inside]
      BY <2>2, <3>1, <3>2
    <3> HIDE DEF p
    <3>4. p.tokens = s.tokens /\ p.buffer = b
      BY <3>3
    <3>5. LineOfWords(s, line, p)
      BY <2>3, <2>5, <3>2, <3>4 DEF LineOfWords
    <3> QED BY <3>5 DEF p
  <2> QED BY <2>1, <2>4, <2>5
<1> QED BY <1>1, <1>2, <1>3, <1>4, <1>5

-----------------------------------------------------------------------------
(* What is shown of the tokens: something that is read off the elements can *)
(* be read off the tokens they were made from.                              *)

\* What f makes of the first k elements of s.
First(f, s, k) == FlattenSeq([i \in 1..k |-> f[s[i]]])

\* One more of them,
LEMMA FirstMore ==
  ASSUME NEW X, NEW S, NEW f \in [X -> Seq(S)], NEW s \in Seq(X),
         NEW k \in Nat, k + 1 <= Len(s)
  PROVE  First(f, s, k + 1) = First(f, s, k) \o f[s[k + 1]] /\ First(f, s, k) \in Seq(S)
<1> DEFINE x == [i \in 1..k |-> f[s[i]]]
           y == [i \in 1..(k + 1) |-> f[s[i]]]
<1>1. \A i \in 1..(k + 1) : f[s[i]] \in Seq(S)
  <2>1. Len(s) \in Nat /\ \A i \in 1..Len(s) : s[i] \in X
    BY LenProperties, ElementOf
  <2>2. \A i \in 1..(k + 1) : i \in 1..Len(s)
    BY <2>1
  <2> QED BY <2>1, <2>2
<1>2. /\ x \in [1..k -> Seq(S)] /\ y \in [1..(k + 1) -> Seq(S)]
      /\ (\A i \in 1..k : y[i] = x[i]) /\ y[k + 1] = f[s[k + 1]]
  <2>1. \A i \in 1..k : i \in 1..(k + 1)
    OBVIOUS
  <2> QED BY <1>1, <2>1
<1> HIDE DEF x, y
<1>3. FlattenSeq(y) = FlattenSeq(x) \o y[k + 1] /\ FlattenSeq(x) \in Seq(S)
  BY <1>2, FlattenOfMore
<1> QED BY <1>2, <1>3 DEF First, x, y

\* and more of them, of which nothing is made.
LEMMA FirstNothing ==
  ASSUME NEW X, NEW S, NEW f \in [X -> Seq(S)], NEW s \in Seq(X),
         NEW k \in Nat, NEW m \in Nat, k <= m, m <= Len(s),
         \A i \in (k + 1)..m : f[s[i]] = <<>>
  PROVE  First(f, s, m) = First(f, s, k)
<1> DEFINE N == {j \in Nat : k + j <= m => First(f, s, k + j) = First(f, s, k)}
<1>0. Len(s) \in Nat
  BY LenProperties
<1>1. 0 \in N
  <2>1. k + 0 = k
    OBVIOUS
  <2> QED BY <2>1
<1>2. ASSUME NEW j \in Nat, j \in N PROVE j + 1 \in N
  <2>1. SUFFICES ASSUME k + (j + 1) <= m PROVE First(f, s, k + (j + 1)) = First(f, s, k)
    OBVIOUS
  <2>2. PICK i \in Nat : /\ i = k + j /\ k + (j + 1) = i + 1
                         /\ i + 1 <= Len(s) /\ i + 1 \in (k + 1)..m /\ i <= m
    <3>1. /\ k + j \in Nat /\ k + (j + 1) = (k + j) + 1
          /\ (k + j) + 1 <= Len(s) /\ (k + j) + 1 \in (k + 1)..m /\ k + j <= m
      BY <1>0, <2>1
    <3> QED BY <3>1
  <2>3. First(f, s, i) = First(f, s, k)
    BY <1>2, <2>2
  <2>4. f[s[i + 1]] = <<>>
    BY <2>2
  <2>5. First(f, s, i + 1) = First(f, s, i) \o f[s[i + 1]] /\ First(f, s, i) \in Seq(S)
    <3>1. i + 1 <= Len(s)
      BY <2>2
    <3> QED BY ONLY <3>1, f \in [X -> Seq(S)], s \in Seq(X), i \in Nat, FirstMore
  <2> QED BY <2>2, <2>3, <2>4, <2>5, ConcatEmptySeq
<1> HIDE DEF N
<1>3. m - k \in N
  <2>1. m - k \in Nat
    OBVIOUS
  <2> QED BY <1>1, <1>2, <2>1, Induction
<1>4. k + (m - k) = m /\ k + (m - k) <= m
  OBVIOUS
<1> QED BY <1>3, <1>4 DEF N

\* The element of a token that is not part of a table.
ElementFor(token) ==
  IF token.type = "code"
  THEN [tag |-> "code", text |-> token.content, language |-> token.language]
  ELSE Element(IF token.type \in {"bullet", "number"} THEN "li" ELSE token.type, token.content)

\* What f reads off elements, g reads off tokens: nothing off the marks of lists, the same
\* off a token and its element, and off a table what the tokens of its rows have.
Agree(S, f, g, tokens) ==
  /\ f \in [WellFormed -> Seq(S)] /\ g \in [Toks -> Seq(S)]
  /\ \A tag \in ListMarks : f[Mark(tag)] = <<>>
  /\ \A token \in Toks : f[ElementFor(token)] = g[token]
  /\ \A i \in 1..Len(tokens) :
       IsTable(tokens, i) =>
         First(g, tokens, i - 1) \o Along(f, Table(tokens, i)) =
           First(g, tokens, RunEnd(tokens, i))

\* Elements of tokens are well formed.
LEMMA ElementForType ==
  ASSUME NEW token \in Toks
  PROVE  ElementFor(token) \in WellFormed
<1>1. token.content \in Text /\ token.type \in TokenTypes
  BY DEF Toks, Token, TokenTypes
<1>2. CASE token.type = "code"
  <2>1. token.content \in CodeText /\ token.language \in Plain
    BY <1>2 DEF Toks
  <2>2. [tag |-> "code", text |-> token.content, language |-> token.language] \in WellFormed
    BY <2>1 DEF WellFormed, Codes
  <2> QED BY <1>2, <2>2 DEF ElementFor
<1>3. CASE token.type # "code"
  <2>1. PICK tag \in {"li", "heading", "paragraph"} :
           tag = IF token.type \in {"bullet", "number"} THEN "li" ELSE token.type
    BY <1>1, <1>3 DEF TokenTypes
  <2> QED BY <1>1, <1>3, <2>1, ElementTypes DEF ElementFor
<1> QED BY <1>2, <1>3

\* Of a list that is closed nothing is read,
LEMMA CloseShows ==
  ASSUME NEW S, NEW f \in [WellFormed -> Seq(S)], \A tag \in ListMarks : f[Mark(tag)] = <<>>,
         NEW e \in Emitting, NEW list \in {"ul", "ol"}
  PROVE  Along(f, Close(e, list).out) = Along(f, e.out) /\ Close(e, list) \in Emitting
<1>1. Close(e, list) \in Emitting
  BY CloseUL, CloseOL
<1>2. PICK out \in Seq(WellFormed) : out = e.out
  BY DEF Emitting
<1>3. CASE e[list]
  <2>1. PICK x \in WellFormed : /\ x = Mark(IF list = "ul" THEN "/ul" ELSE "/ol")
                                /\ f[x] = <<>>
    BY MarkTypes DEF ListMarks
  <2>2. Close(e, list) = [e EXCEPT !.out = Append(out, x), ![list] = FALSE]
    BY <1>2, <1>3, <2>1 DEF Close
  <2>3. Close(e, list).out = Append(out, x)
    BY <2>2 DEF Emitting
  <2>4. Along(f, Append(out, x)) = Along(f, out) \o f[x]
    BY AlongMore
  <2>5. Along(f, out) \in Seq(S)
    BY AlongType
  <2> QED BY <1>1, <1>2, <2>1, <2>3, <2>4, <2>5, ConcatEmptySeq
<1>4. CASE ~e[list]
  BY <1>1, <1>4 DEF Close
<1> QED BY <1>3, <1>4

\* or of both.
LEMMA ListsClosedShow ==
  ASSUME NEW S, NEW f \in [WellFormed -> Seq(S)], \A tag \in ListMarks : f[Mark(tag)] = <<>>,
         NEW e \in Emitting
  PROVE  /\ CloseActiveLists(e) \in Emitting
         /\ Along(f, CloseActiveLists(e).out) = Along(f, e.out)
<1>1. PICK a \in Emitting : a = Close(e, "ul") /\ Along(f, a.out) = Along(f, e.out)
  BY CloseShows
<1>2. PICK b \in Emitting : b = Close(a, "ol") /\ Along(f, b.out) = Along(f, a.out)
  BY CloseShows
<1> QED BY <1>1, <1>2 DEF CloseActiveLists

\* An item is read, the marks of its list are not.
LEMMA HandleListShows ==
  ASSUME NEW S, NEW f \in [WellFormed -> Seq(S)], \A tag \in ListMarks : f[Mark(tag)] = <<>>,
         NEW e \in Emitting, NEW token \in Toks, NEW item \in WellFormed,
         item = Element("li", token.content),
         NEW list \in {"ul", "ol"}, NEW alternative \in {"ul", "ol"}
  PROVE  Along(f, HandleList(e, token, list, alternative).out) = Along(f, e.out) \o f[item]
<1>1. PICK c \in Emitting : c = Close(e, alternative) /\ Along(f, c.out) = Along(f, e.out)
  BY CloseShows
<1>2. PICK out \in Seq(WellFormed) : out = c.out
  BY DEF Emitting
<1>3. PICK x \in WellFormed : x = Mark(list) /\ f[x] = <<>>
  BY MarkTypes DEF ListMarks
<1>4. PICK opened : opened = IF c[list] THEN c
                             ELSE [c EXCEPT !.out = Append(out, x), ![list] = TRUE]
  OBVIOUS
<1>5. PICK o \in Seq(WellFormed) : o = opened.out /\ Along(f, o) = Along(f, out)
  <2>1. CASE c[list]
    BY <1>2, <1>4, <2>1
  <2>2. CASE ~c[list]
    <3>1. PICK p \in Seq(WellFormed) : p = Append(out, x)
      BY AppendProperties
    <3>2. opened = [c EXCEPT !.out = p, ![list] = TRUE]
      BY <1>4, <2>2, <3>1
    <3>3. opened.out = p
      BY <3>2 DEF Emitting
    <3>4. Along(f, Append(out, x)) = Along(f, out) \o f[x]
      BY AlongMore
    <3>5. Along(f, out) \in Seq(S)
      BY AlongType
    <3>6. Along(f, p) = Along(f, out)
      BY <1>3, <3>1, <3>4, <3>5, ConcatEmptySeq
    <3> QED BY <3>3, <3>6
  <2> QED BY <2>1, <2>2
<1>6. HandleList(e, token, list, alternative) = [opened EXCEPT !.out = Append(@, item)]
  BY <1>1, <1>2, <1>3, <1>4 DEF HandleList
<1>7. HandleList(e, token, list, alternative).out = Append(o, item)
  <2>1. "out" \in DOMAIN opened
    BY <1>4 DEF Emitting
  <2> QED BY <1>5, <1>6, <2>1
<1>8. Along(f, Append(o, item)) = Along(f, o) \o f[item]
  BY AlongMore
<1> QED BY <1>1, <1>2, <1>5, <1>7, <1>8

\* Any token that is no row is read in its turn.
LEMMA EmitTokenShows ==
  ASSUME NEW S, NEW f \in [WellFormed -> Seq(S)], \A tag \in ListMarks : f[Mark(tag)] = <<>>,
         NEW e \in Emitting, NEW token \in Toks
  PROVE  Along(f, EmitToken(e, token).out) = Along(f, e.out) \o f[ElementFor(token)]
<1>1. PICK x \in WellFormed : x = ElementFor(token)
  BY ElementForType
<1>2. token.type \in TokenTypes
  BY DEF Toks, Token, TokenTypes
<1>3. CASE token.type \in {"bullet", "number"}
  <2>1. x = Element("li", token.content)
    BY <1>1, <1>3 DEF ElementFor
  <2>2. PICK list \in {"ul", "ol"}, alternative \in {"ul", "ol"} :
           EmitToken(e, token) = HandleList(e, token, list, alternative)
    BY <1>3 DEF EmitToken
  <2>3. Along(f, HandleList(e, token, list, alternative).out) = Along(f, e.out) \o f[x]
    BY <2>1, HandleListShows
  <2> QED BY <1>1, <2>2, <2>3
<1>4. CASE token.type \in {"heading", "paragraph", "code"}
  <2>1. PICK c \in Emitting : c = CloseActiveLists(e) /\ Along(f, c.out) = Along(f, e.out)
    BY ListsClosedShow
  <2>2. PICK out \in Seq(WellFormed) : out = c.out
    BY DEF Emitting
  <2>3. EmitToken(e, token) = [c EXCEPT !.out = Append(out, x)]
    BY <1>1, <1>4, <2>1, <2>2 DEF EmitToken, ElementFor
  <2>4. EmitToken(e, token).out = Append(out, x)
    BY <2>3 DEF Emitting
  <2>5. Along(f, Append(out, x)) = Along(f, out) \o f[x]
    BY AlongMore
  <2> QED BY <1>1, <2>1, <2>2, <2>4, <2>5
<1> QED BY <1>2, <1>3, <1>4 DEF TokenTypes

\* The state of emit after k tokens: what the tokens before the next one have is read.
Read(f, g, tokens, k, e) ==
  /\ e \in Emitting
  /\ e.next - 1 \in k..Len(tokens)
  /\ Along(f, e.out) = First(g, tokens, e.next - 1)

\* One turn of the loop of emit.
LEMMA EmitFromShows ==
  ASSUME NEW tokens \in Seq(Toks), NEW S, NEW f, NEW g, Agree(S, f, g, tokens),
         NEW k \in Nat, k + 1 <= Len(tokens), NEW e, Read(f, g, tokens, k, e)
  PROVE  Read(f, g, tokens, k + 1, EmitFrom(tokens, e, k + 1))
<1>0. /\ f \in [WellFormed -> Seq(S)] /\ g \in [Toks -> Seq(S)]
      /\ \A tag \in ListMarks : f[Mark(tag)] = <<>>
  BY DEF Agree
<1>1. PICK n \in Nat : n = Len(tokens)
  BY LenProperties
<1>2. PICK i \in 1..Len(tokens) : i = k + 1 /\ i - 1 = k /\ i + 1 - 1 = i /\ i \in Nat
  <2>1. k + 1 \in 1..Len(tokens) /\ (k + 1) - 1 = k /\ (k + 1) + 1 - 1 = k + 1
    BY <1>1
  <2> QED BY <2>1
<1>3. PICK next \in Int : next = e.next
  BY DEF Read, Emitting
<1>4. /\ e \in Emitting /\ next - 1 \in k..n
      /\ Along(f, e.out) = First(g, tokens, next - 1)
  BY <1>1, <1>3 DEF Read
<1>5. PICK token \in Toks : token = tokens[i]
  BY ElementOf
<1>6. EmitFrom(tokens, e, i) \in Emitting
  BY <1>4, EmitFromStep
<1> SUFFICES Read(f, g, tokens, i, EmitFrom(tokens, e, i))
  BY <1>2
<1>7. CASE i < next
  <2>1. EmitFrom(tokens, e, i) = e
    BY <1>3, <1>7 DEF EmitFrom
  <2>2. next - 1 \in i..n
    BY <1>1, <1>4, <1>7
  <2> QED BY <1>1, <1>3, <1>4, <2>1, <2>2 DEF Read
<1>8. CASE ~(i < next)
  <2>1. next - 1 = k
    BY <1>1, <1>2, <1>4, <1>8
  <2>2. Along(f, e.out) = First(g, tokens, k)
    BY <1>4, <2>1
  <2>3. CASE ~IsTable(tokens, i)
    <3>1. PICK r \in Emitting : r = EmitToken(e, token)
      BY <1>4, EmitTokenStep
    <3>2. EmitFrom(tokens, e, i) = [r EXCEPT !.next = i + 1]
      BY <1>3, <1>5, <1>8, <2>3, <3>1 DEF EmitFrom
    <3>3. PICK t : t = EmitFrom(tokens, e, i) /\ t.next = i + 1 /\ t.out = r.out
      <4>1. [r EXCEPT !.next = i + 1].next = i + 1 /\ [r EXCEPT !.next = i + 1].out = r.out
        BY DEF Emitting
      <4> QED BY <3>2, <4>1
    <3>4. Along(f, r.out) = Along(f, e.out) \o f[ElementFor(token)]
      BY <1>0, <1>4, <3>1, EmitTokenShows
    <3>5. f[ElementFor(token)] = g[token]
      BY DEF Agree
    <3>6. /\ First(g, tokens, k + 1) = First(g, tokens, k) \o g[tokens[k + 1]]
          /\ First(g, tokens, k) \in Seq(S)
      <4>1. g \in [Toks -> Seq(S)]
        BY <1>0
      <4> QED BY ONLY <4>1, k \in Nat, k + 1 <= Len(tokens), tokens \in Seq(Toks), FirstMore
    <3>7. Along(f, t.out) = First(g, tokens, t.next - 1)
      <4>1. t.next - 1 = k + 1 /\ tokens[k + 1] = token
        BY <1>2, <1>5, <3>3
      <4> QED BY ONLY <2>2, <3>3, <3>4, <3>5, <3>6, <4>1
    <3>8. t.next - 1 \in i..Len(tokens)
      BY <1>1, <1>2, <3>3
    <3> QED BY <1>6, <3>3, <3>7, <3>8 DEF Read
  <2>4. CASE IsTable(tokens, i)
    <3>1. RunEnd(tokens, i) > i
      BY <2>4 DEF IsTable
    <3>2. PICK table \in Seq(Tabular) : table = Table(tokens, i)
      BY <3>1, TableType
    <3>3. PICK end \in i..n : end = RunEnd(tokens, i) /\ end + 1 - 1 = end
      <4>1. RunEnd(tokens, i) \in (i - 1)..n
        BY <1>1, RunEndType
      <4>2. RunEnd(tokens, i) \in i..n
        BY <1>1, <3>1, <4>1
      <4> QED BY <4>2
    <3>4. PICK c \in Emitting : c = CloseActiveLists(e) /\ Along(f, c.out) = Along(f, e.out)
      BY <1>0, <1>4, ListsClosedShow
    <3>5. PICK out \in Seq(WellFormed) : out = c.out
      BY DEF Emitting
    <3>6. EmitFrom(tokens, e, i) = [c EXCEPT !.out = out \o table, !.next = end + 1]
      BY <1>3, <1>8, <2>4, <3>2, <3>3, <3>4, <3>5 DEF EmitFrom
    <3>7. PICK t : t = EmitFrom(tokens, e, i) /\ t.next = end + 1 /\ t.out = out \o table
      <4>1. PICK t : t = [c EXCEPT !.out = out \o table, !.next = end + 1]
        OBVIOUS
      <4>2. t.next = end + 1 /\ t.out = out \o table
        BY <4>1 DEF Emitting
      <4> QED BY <3>6, <4>1, <4>2
    <3>8. Along(f, out \o table) = Along(f, out) \o Along(f, table)
      <4>1. table \in Seq(WellFormed)
        BY SeqMonotonic DEF Tabular
      <4>2. BothAlong(f, out, table)
        BY <1>0, <4>1, BothAre
      <4> QED BY <4>2 DEF BothAlong
    <3>9. First(g, tokens, k) \o Along(f, table) = First(g, tokens, end)
      BY <1>2, <2>4, <3>2, <3>3 DEF Agree
    <3>10. Along(f, t.out) = First(g, tokens, t.next - 1)
      BY <2>2, <3>3, <3>4, <3>5, <3>7, <3>8, <3>9
    <3>11. t.next - 1 \in i..Len(tokens)
      BY <1>1, <3>3, <3>7
    <3> QED BY <1>6, <3>7, <3>10, <3>11 DEF Read
  <2> QED BY <2>3, <2>4
<1> QED BY <1>7, <1>8

\* All turns.
LEMMA EmitShows ==
  ASSUME NEW tokens \in Seq(Toks), NEW S, NEW f, NEW g, Agree(S, f, g, tokens)
  PROVE  Along(f, Emit(tokens)) = Along(g, tokens)
<1>1. /\ f \in [WellFormed -> Seq(S)] /\ g \in [Toks -> Seq(S)]
      /\ \A tag \in ListMarks : f[Mark(tag)] = <<>>
  BY DEF Agree
<1>2. PICK n \in Nat : n = Len(tokens) /\ n \in 0..n /\ DOMAIN tokens = 1..n
  BY LenProperties
<1> DEFINE is == [i \in DOMAIN tokens |-> i]
           start == [out |-> <<>>, ul |-> FALSE, ol |-> FALSE, next |-> 1]
           r == FoldLeft(LAMBDA e, i : EmitFrom(tokens, e, i), start, is)
<1>3. Emit(tokens) = CloseActiveLists(r).out
  BY DEF Emit
<1>4. is \in Seq(1..Len(tokens)) /\ Len(is) = n /\ \A k \in 1..n : is[k] = k
  <2>1. is \in Seq(1..Len(tokens)) /\ DOMAIN is = 1..n /\ \A k \in 1..n : is[k] = k
    BY <1>2
  <2>2. Len(is) = n
    BY <2>1, <1>2, LenProperties
  <2> QED BY <2>1, <2>2
<1>5. start \in Emitting /\ start.out = <<>> /\ start.next = 1
  <2>1. Well(<<>>, "none")
    <3>1. <<>> \in Seq(WellFormed) /\ Len(<<>>) = 0
      OBVIOUS
    <3>2. OpenAt(<<>>, 0 + 1) = "none"
      <4>1. {k \in 1..((0 + 1) - 1) : <<>>[k].tag \in {"ul", "/ul", "ol", "/ol"}} = {}
        OBVIOUS
      <4> QED BY <4>1 DEF OpenAt
    <3> QED BY <3>1, <3>2 DEF Well
  <2>2. OpenOf(FALSE, FALSE) = "none" /\ <<>> \in Seq(WellFormed) /\ 1 \in Int
    BY DEF OpenOf
  <2> QED BY <2>1, <2>2 DEF Emitting
<1> HIDE DEF is, start
<1>6. PICK G \in [0..n -> Emitting] :
         /\ G[0] = start
         /\ \A k \in 1..n : G[k] = EmitFrom(tokens, G[k - 1], k)
         /\ r = G[n]
  <2>1. PICK G \in [0..Len(is) -> Emitting] :
           /\ G[0] = start
           /\ \A k \in 1..Len(is) : G[k] = EmitFrom(tokens, G[k - 1], is[k])
           /\ r = G[Len(is)]
    <3>1. \E G \in [0..Len(is) -> Emitting] :
            /\ G[0] = start
            /\ \A k \in 1..Len(is) : G[k] = EmitFrom(tokens, G[k - 1], is[k])
            /\ r = G[Len(is)]
      <4>1. is \in Seq(1..Len(tokens))
        BY <1>4
      <4>2. start \in Emitting
        BY <1>5
      <4> QED BY <4>1, <4>2, EmitRuns
    <3> QED BY <3>1
  <2> HIDE DEF r
  <2> QED BY <1>4, <2>1
<1> HIDE DEF r
<1> DEFINE N == {k \in Nat : k <= n => Read(f, g, tokens, k, G[k])}
<1>7. 0 \in N
  <2>1. First(g, tokens, 0) = <<>>
    <3>1. [i \in 1..0 |-> g[tokens[i]]] = <<>>
      OBVIOUS
    <3> QED BY <3>1, FlattenNone DEF First
  <2>2. Along(f, <<>>) = <<>>
    BY AlongEmpty
  <2>3. 1 - 1 = 0 /\ 0 \in 0..Len(tokens)
    BY <1>2
  <2>4. Read(f, g, tokens, 0, G[0])
    BY <1>5, <1>6, <2>1, <2>2, <2>3 DEF Read
  <2> QED BY <2>4
<1>8. ASSUME NEW k \in Nat, k \in N PROVE k + 1 \in N
  <2>1. SUFFICES ASSUME k + 1 <= n PROVE Read(f, g, tokens, k + 1, G[k + 1])
    OBVIOUS
  <2>2. Read(f, g, tokens, k, G[k]) /\ k + 1 \in 1..n /\ (k + 1) - 1 = k
    BY <1>8, <2>1
  <2>3. G[k + 1] = EmitFrom(tokens, G[k], k + 1)
    BY <1>6, <2>2
  <2> QED BY <1>2, <2>1, <2>2, <2>3, EmitFromShows
<1> HIDE DEF N
<1>9. n \in N
  BY <1>7, <1>8, Induction
<1>10. r \in Emitting /\ Along(f, r.out) = First(g, tokens, n)
  <2>1. Read(f, g, tokens, n, r)
    BY <1>6, <1>9 DEF N
  <2>2. r.next - 1 = n
    BY <1>2, <2>1 DEF Read
  <2> QED BY <2>1, <2>2 DEF Read
<1>11. Along(f, Emit(tokens)) = First(g, tokens, n)
  BY <1>1, <1>3, <1>10, ListsClosedShow
<1>12. First(g, tokens, n) = Along(g, tokens)
  BY <1>2 DEF First, Along
<1> QED BY <1>11, <1>12

\* The tokens up to the end of a run are rows.
LEMMA RunEndRows ==
  ASSUME NEW tokens \in Seq(Toks), NEW i \in 1..Len(tokens)
  PROVE  \A j \in i..RunEnd(tokens, i) : IsCandidate(tokens[j])
<1>1. PICK n \in Nat : n = Len(tokens)
  BY LenProperties
<1> DEFINE run == {k \in (i - 1)..n : \A j \in i..k : IsCandidate(tokens[j])}
<1>2. i - 1 \in run
  BY <1>1
<1>3. run \in SUBSET (0..n)
  BY <1>1
<1>4. RunEnd(tokens, i) = Max(run)
  BY <1>1 DEF RunEnd
<1>5. Max(run) \in run
  <2> HIDE DEF run
  <2> QED BY <1>2, <1>3, MaxExists
<1> QED BY <1>4, <1>5

-----------------------------------------------------------------------------
(* Code, from its lines to the page. *)

\* The blocks of code among the tokens,
TokenCode ==
  [t \in Toks |-> IF t.type = "code" THEN <<[text |-> t.content, language |-> t.language]>>
                  ELSE <<>>]
\* among the elements,
ElementCode ==
  [e \in WellFormed |-> IF e.tag = "code" THEN <<[text |-> e.text, language |-> e.language]>>
                        ELSE <<>>]
\* and those that one of the first k lines ends.
Upto(lines, k) == FlattenSeq([b \in 1..k |-> EndedBy(lines, b)])

\* Each of a token, and of an element, is a sequence of blocks.
LEMMA CodeTypes == TokenCode \in [Toks -> Seq(Block)] /\ ElementCode \in [WellFormed -> Seq(Block)]
<1>1. <<>> \in Seq(Block)
  OBVIOUS
<1>2. ASSUME NEW text \in Text, NEW language \in Text
      PROVE  <<[text |-> text, language |-> language]>> \in Seq(Block)
  <2>1. PICK b \in Block : b = [text |-> text, language |-> language]
    BY DEF Block
  <2>2. <<b>> \in Seq(Block)
    OBVIOUS
  <2> QED BY <2>1, <2>2
<1>3. \A t \in Toks : t.content \in Text /\ t.language \in Text
  BY DEF Toks, Token
<1>4. \A e \in WellFormed : e.tag = "code" => e.text \in Text /\ e.language \in Text
  <2>1. Plain \subseteq Text
    BY SeqMonotonic DEF Plain, Text
  <2> QED BY <2>1 DEF WellFormed, Codes, CodeText, Inlines, Marks, Decorated
<1>5. TokenCode \in [Toks -> Seq(Block)]
  BY <1>1, <1>2, <1>3 DEF TokenCode
<1>6. ElementCode \in [WellFormed -> Seq(Block)]
  BY <1>1, <1>2, <1>4 DEF ElementCode
<1> QED BY <1>5, <1>6

\* The block that a line ends.
LEMMA EndedByType ==
  ASSUME NEW lines \in Seq(Plain), NEW b \in 1..Len(lines)
  PROVE  EndedBy(lines, b) \in Seq(Block)
<1>1. CASE ~CodeOpen(lines, b)
  <2>1. EndedBy(lines, b) = <<>>
    BY <1>1 DEF EndedBy
  <2> QED BY <2>1
<1>2. CASE CodeOpen(lines, b)
  <2>1. PICK a \in 1..(b - 1) : a = Opener(lines, b) /\ StartsWith(lines[a], Fence)
    BY <1>2, OpenerIs
  <2>2. PICK block : block = Between(lines, a, b)
    OBVIOUS
  <2>3. a \in 1..b /\ a # b /\ a \in 1..Len(lines)
    <3>1. Len(lines) \in Nat
      BY LenProperties
    <3> QED BY <3>1
  <2>4. block.text \in Text
    BY <2>2, <2>3, BetweenMore
  <2>5. block.language \in Text
    <3>1. lines[a] \in Plain
      BY <2>3, ElementOf
    <3>2. Tail(lines[a]) \in Text
      BY <2>1, <3>1, TailType
    <3>3. Trim(Tail(lines[a])) \in Text
      BY <3>2, TrimType DEF Text
    <3> QED BY <2>2, <2>3, <3>3, BetweenMore
  <2>6. block \in Block
    BY <2>2, <2>4, <2>5 DEF Between, Block
  <2>7. EndedBy(lines, b) = IF StartsWith(lines[b], Fence) /\ block.text # <<>>
                            THEN <<block>> ELSE <<>>
    BY <1>2, <2>1, <2>2 DEF EndedBy, Opener
  <2>8. <<block>> \in Seq(Block) /\ <<>> \in Seq(Block)
    BY <2>6
  <2> QED BY <2>7, <2>8
<1> QED BY <1>1, <1>2

\* One line more.
LEMMA UptoMore ==
  ASSUME NEW lines \in Seq(Plain), NEW k \in Nat, k + 1 <= Len(lines)
  PROVE  /\ Upto(lines, k + 1) = Upto(lines, k) \o EndedBy(lines, k + 1)
         /\ Upto(lines, k) \in Seq(Block)
<1> DEFINE x == [b \in 1..k |-> EndedBy(lines, b)]
           y == [b \in 1..(k + 1) |-> EndedBy(lines, b)]
<1>1. \A b \in 1..(k + 1) : EndedBy(lines, b) \in Seq(Block)
  <2>1. Len(lines) \in Nat
    BY LenProperties
  <2>2. \A b \in 1..(k + 1) : b \in 1..Len(lines)
    BY <2>1
  <2> QED BY <2>2, EndedByType
<1>2. /\ x \in [1..k -> Seq(Block)] /\ y \in [1..(k + 1) -> Seq(Block)]
      /\ (\A i \in 1..k : y[i] = x[i]) /\ y[k + 1] = EndedBy(lines, k + 1)
  <2>1. \A b \in 1..k : b \in 1..(k + 1)
    OBVIOUS
  <2> QED BY <1>1, <2>1
<1> HIDE DEF x, y
<1>3. FlattenSeq(y) = FlattenSeq(x) \o y[k + 1] /\ FlattenSeq(x) \in Seq(Block)
  BY <1>2, FlattenOfMore
<1> QED BY <1>2, <1>3 DEF Upto, x, y

\* What is in the buffer outside of code does not add to it,
LEMMA PushBufferCode ==
  ASSUME NEW s \in Reading
  PROVE  /\ Along(TokenCode, PushBuffer(s, "paragraph").tokens) = Along(TokenCode, s.tokens)
         /\ PushBuffer(s, "paragraph") \in Reading
<1>1. PushBuffer(s, "paragraph") \in Reading
  BY PushBufferType
<1>2. CASE s.buffer = <<>>
  <2>1. PushBuffer(s, "paragraph") = s
    BY <1>2 DEF PushBuffer
  <2> QED BY <1>1, <2>1
<1>3. CASE s.buffer # <<>>
  <2>1. PICK tokens \in Seq(Toks) : tokens = s.tokens
    BY DEF Reading
  <2>2. PICK token : token = [type |-> "paragraph", content |-> s.buffer, language |-> s.language]
    OBVIOUS
  <2>3. /\ token \in Toks
        /\ PushBuffer(s, "paragraph") = [tokens |-> Append(tokens, token), buffer |-> <<>>,
                                         language |-> <<>>, inside |-> s.inside]
    BY <1>3, <2>1, <2>2, PushBufferTokens DEF TokenTypes
  <2>4. TokenCode[token] = <<>>
    BY <2>2, <2>3 DEF TokenCode
  <2>5. Along(TokenCode, Append(tokens, token)) = Along(TokenCode, tokens) \o TokenCode[token]
    BY <2>3, CodeTypes, AlongMore
  <2>6. Along(TokenCode, tokens) \in Seq(Block)
    BY CodeTypes, AlongType
  <2>7. PushBuffer(s, "paragraph").tokens = Append(tokens, token)
    BY <2>3
  <2> QED BY <1>1, <2>1, <2>4, <2>5, <2>6, <2>7, ConcatEmptySeq
<1> QED BY <1>2, <1>3

\* and neither does a line outside of it.
LEMMA ParseCode ==
  ASSUME NEW s \in Reading, ~s.inside, NEW line \in Plain
  PROVE  Along(TokenCode, ParseMarkdownElements(s, line).tokens) = Along(TokenCode, s.tokens)
<1> DEFINE p == ParseMarkdownElements(s, line)
<1>1. PICK r \in Reading : /\ r = PushBuffer(s, "paragraph")
                           /\ Along(TokenCode, r.tokens) = Along(TokenCode, s.tokens)
  BY PushBufferCode
<1>2. PICK tokens \in Seq(Toks) : tokens = r.tokens
  BY DEF Reading
<1>3. ASSUME NEW token \in Toks, token.type # "code"
      PROVE  Along(TokenCode, Append(tokens, token)) = Along(TokenCode, tokens)
  <2>1. TokenCode[token] = <<>>
    BY <1>3 DEF TokenCode
  <2>2. Along(TokenCode, Append(tokens, token)) = Along(TokenCode, tokens) \o TokenCode[token]
    BY CodeTypes, AlongMore
  <2>3. Along(TokenCode, tokens) \in Seq(Block)
    BY CodeTypes, AlongType
  <2> QED BY <2>1, <2>2, <2>3, ConcatEmptySeq
<1>4. \/ p.tokens = tokens \/ p.tokens = s.tokens
      \/ \E token \in Toks : token.type # "code" /\ p.tokens = Append(tokens, token)
  <2>1. \/ LineOfMark(s, line, p) \/ LineOfDashes(s, line, p)
        \/ LineOfRow(s, line, p) \/ LineOfWords(s, line, p)
    BY ParseTokens
  <2> HIDE DEF p
  <2>2. CASE LineOfMark(s, line, p)
    <3>1. PICK type \in {"heading", "bullet", "number"}, language \in Plain :
            LET token == [type |-> type, content |-> Tail(line), language |-> language]
            IN  /\ token \in Toks
                /\ p.tokens = IF Tail(line) = <<>> THEN PushBuffer(s, "paragraph").tokens
                              ELSE Append(PushBuffer(s, "paragraph").tokens, token)
      BY <2>2 DEF LineOfMark
    <3>2. PICK token : token = [type |-> type, content |-> Tail(line), language |-> language]
      OBVIOUS
    <3>3. token \in Toks /\ token.type # "code"
      BY <3>1, <3>2
    <3> QED BY <1>1, <1>2, <3>1, <3>2, <3>3
  <2>3. CASE LineOfDashes(s, line, p)
    BY <1>1, <1>2, <2>3 DEF LineOfDashes
  <2>4. CASE LineOfRow(s, line, p)
    <3>1. PICK token : token = [type |-> "paragraph", content |-> line, language |-> <<>>]
      OBVIOUS
    <3>2. token \in Toks /\ token.type # "code" /\ p.tokens = Append(tokens, token)
      BY <1>1, <1>2, <2>4, <3>1 DEF LineOfRow
    <3> QED BY <3>2
  <2>5. CASE LineOfWords(s, line, p)
    BY <2>5 DEF LineOfWords
  <2> QED BY <2>1, <2>2, <2>3, <2>4, <2>5
<1> HIDE DEF p
<1>5. Along(TokenCode, p.tokens) = Along(TokenCode, s.tokens)
  BY <1>1, <1>2, <1>3, <1>4
<1> QED BY <1>5 DEF p

\* Only a fence opens a block of code.
LEMMA ParseOutside ==
  ASSUME NEW s \in Reading, ~s.inside, NEW line \in Plain
  PROVE  ~ParseMarkdownElements(s, line).inside
<1> DEFINE p == ParseMarkdownElements(s, line)
<1>0. /\ Hash # Bullet /\ Hash # Number /\ Bullet # Number
      /\ (HasTablePipe(line) /\ line[1] \notin {Hash, Bullet, Number}) <=> IsRow(line)
  BY DEF Hash, Bullet, Number, IsRow
<1>1. PICK r \in Reading : r = PushBuffer(s, "paragraph") /\ r.inside = FALSE
  <2>1. s.inside = FALSE
    BY DEF Reading
  <2> QED BY <2>1, PushBufferType
<1>2. ASSUME NEW mark \in {Hash, Bullet, Number}, StartsWith(line, mark),
             NEW type \in {"heading", "bullet", "number"}, p = PushLine(s, type, Tail(line))
      PROVE  ~p.inside
  <2>1. Tail(line) \in Text
    BY <1>2, TailType
  <2>2. PICK t : t = [r EXCEPT !.buffer = Tail(line)]
    OBVIOUS
  <2>3. t = [tokens |-> r.tokens, buffer |-> Tail(line), language |-> r.language, inside |-> FALSE]
    BY <1>1, <2>2 DEF Reading
  <2>4. t \in Reading /\ t.inside = FALSE
    BY <2>1, <2>3 DEF Reading
  <2>5. p = PushBuffer(t, type)
    BY <1>1, <1>2, <2>2 DEF PushLine
  <2>6. PushBuffer(t, type).inside = t.inside
    BY <2>4, PushBufferType
  <2> QED BY <2>4, <2>5, <2>6
<1>3. CASE StartsWith(line, Hash)
  <2>1. p = PushLine(s, "heading", Tail(line))
    BY <1>0, <1>3, LineKinds DEF ParseMarkdownElements
  <2> QED BY <1>2, <1>3, <2>1
<1>4. CASE ~StartsWith(line, Hash) /\ IsDivider(line)
  <2>1. p = PushLine(s, "divider", <<>>)
    BY <1>0, <1>4, LineKinds DEF ParseMarkdownElements
  <2> QED BY <1>1, <2>1, DividerTokens
<1>5. CASE ~StartsWith(line, Hash) /\ ~IsDivider(line) /\ StartsWith(line, Bullet)
  <2>1. p = PushLine(s, "bullet", Tail(line))
    BY <1>0, <1>5, LineKinds DEF ParseMarkdownElements
  <2> QED BY <1>2, <1>5, <2>1
<1>6. CASE /\ ~StartsWith(line, Hash) /\ ~IsDivider(line) /\ ~StartsWith(line, Bullet)
           /\ StartsWith(line, Number)
  <2>1. p = PushLine(s, "number", Tail(line))
    BY <1>0, <1>6, LineKinds DEF ParseMarkdownElements
  <2> QED BY <1>2, <1>6, <2>1
<1>7. CASE /\ ~StartsWith(line, Hash) /\ ~IsDivider(line) /\ ~StartsWith(line, Bullet)
           /\ ~StartsWith(line, Number)
  <2>1. CASE IsRow(line)
    <3>1. p = PushRow(s, line)
      BY <1>0, <1>7, <2>1, LineKinds DEF ParseMarkdownElements
    <3> QED BY <1>1, <3>1 DEF PushRow, Reading
  <2>2. CASE ~IsRow(line)
    <3>1. \E buffer : p = [s EXCEPT !.buffer = buffer]
      BY <1>0, <1>7, <2>2 DEF ParseMarkdownElements
    <3> QED BY <3>1 DEF Reading
  <2> QED BY <2>1, <2>2
<1> QED BY <1>3, <1>4, <1>5, <1>6, <1>7

\* After k lines: whether a block is open, the blocks that have ended, and what has been
\* read of the one that is open.
CodeRead(lines, k, s) ==
  /\ s \in Reading
  /\ s.inside <=> CodeOpen(lines, k + 1)
  /\ Along(TokenCode, s.tokens) = Upto(lines, k)
  /\ s.inside => LET block == Between(lines, Opener(lines, k + 1), k + 1)
                 IN  s.language = block.language /\ s.buffer = block.text

\* The next line (evaluate_line_tokens).
LEMMA CodeReadNext ==
  ASSUME NEW lines \in Seq(Plain), NEW k \in Nat, k + 1 <= Len(lines),
         NEW s, CodeRead(lines, k, s)
  PROVE  CodeRead(lines, k + 1, EvaluateLine(s, lines[k + 1]))
<1> DEFINE e == EvaluateLine(s, lines[k + 1])
<1>1. PICK b \in 1..Len(lines) : b = k + 1 /\ b \in Nat /\ b + 1 = (k + 1) + 1
  <2>1. Len(lines) \in Nat
    BY LenProperties
  <2>2. k + 1 \in 1..Len(lines)
    BY <2>1
  <2> QED BY <2>2
<1>2. PICK line \in Plain : line = lines[b]
  BY ElementOf
<1>3. /\ s \in Reading /\ s.inside \in BOOLEAN
      /\ s.inside <=> CodeOpen(lines, b)
      /\ Along(TokenCode, s.tokens) = Upto(lines, k)
      /\ s.inside => LET block == Between(lines, Opener(lines, b), b)
                     IN  s.language = block.language /\ s.buffer = block.text
  BY <1>1 DEF CodeRead, Reading
<1>4. e = EvaluateLine(s, line) /\ e \in Reading
  <2>1. EvaluateLine(s, line) \in Reading
    BY <1>3, EvaluateLineStep
  <2> QED BY <1>1, <1>2, <2>1
<1>5. Upto(lines, b) = Upto(lines, k) \o EndedBy(lines, b) /\ Upto(lines, k) \in Seq(Block)
  BY <1>1, UptoMore
<1>6. CodeOpen(lines, b + 1) <=>
        IF StartsWith(line, Fence) THEN ~CodeOpen(lines, b) ELSE CodeOpen(lines, b)
  BY <1>2, CodeOpenNext
<1> SUFFICES CodeRead(lines, b, e)
  BY <1>1
<1> HIDE DEF e
<1>7. ASSUME EndedBy(lines, b) = <<>>
      PROVE  Upto(lines, b) = Upto(lines, k)
  BY <1>5, <1>7, ConcatEmptySeq
<1>8. CASE StartsWith(line, Fence) /\ s.inside
  <2>1. PICK a \in 1..(b - 1) : a = Opener(lines, b)
    BY <1>3, <1>8, OpenerIs
  <2>2. PICK block : /\ block = Between(lines, a, b)
                     /\ block = [text |-> block.text, language |-> block.language]
    <3>1. PICK x, y : Between(lines, a, b) = [text |-> x, language |-> y]
      BY DEF Between
    <3>2. PICK block : block = [text |-> x, language |-> y]
      OBVIOUS
    <3> QED BY <3>1, <3>2
  <2>3. s.language = block.language /\ s.buffer = block.text
    BY <1>3, <1>8, <2>1, <2>2
  <2>4. EndedBy(lines, b) = IF block.text # <<>> THEN <<block>> ELSE <<>>
    BY <1>2, <1>3, <1>8, <2>1, <2>2 DEF EndedBy, Opener
  <2>5. PICK r \in Reading : r = PushBuffer(s, "code")
    BY <1>3, <1>8, PushBufferType
  <2>6. e = [r EXCEPT !.inside = FALSE]
    BY <1>4, <1>8, <2>5 DEF EvaluateLine
  <2>7. e.inside = FALSE /\ e.tokens = r.tokens
    BY <2>6 DEF Reading
  <2>8. Along(TokenCode, r.tokens) = Upto(lines, b)
    <3>1. CASE s.buffer = <<>>
      <4>1. r = s
        BY <2>5, <3>1 DEF PushBuffer
      <4> QED BY <1>3, <1>7, <2>3, <2>4, <3>1, <4>1
    <3>2. CASE s.buffer # <<>>
      <4>1. PICK tokens \in Seq(Toks) : tokens = s.tokens
        BY <1>3 DEF Reading
      <4>2. PICK token : token = [type |-> "code", content |-> s.buffer, language |-> s.language]
        OBVIOUS
      <4>3. /\ token \in Toks
            /\ PushBuffer(s, "code") = [tokens |-> Append(tokens, token), buffer |-> <<>>,
                                        language |-> <<>>, inside |-> s.inside]
        BY <1>3, <1>8, <3>2, <4>1, <4>2, PushBufferTokens DEF TokenTypes
      <4>4. TokenCode[token] = <<block>>
        <5>1. TokenCode[token] = <<[text |-> s.buffer, language |-> s.language]>>
          BY <4>2, <4>3 DEF TokenCode
        <5> QED BY <2>2, <2>3, <5>1
      <4>5. Along(TokenCode, Append(tokens, token)) = Along(TokenCode, tokens) \o TokenCode[token]
        BY <4>3, CodeTypes, AlongMore
      <4>6. r.tokens = Append(tokens, token)
        BY <2>5, <4>3
      <4>7. EndedBy(lines, b) = <<block>>
        BY <2>3, <2>4, <3>2
      <4> QED BY <1>3, <1>5, <4>1, <4>4, <4>5, <4>6, <4>7
    <3> QED BY <3>1, <3>2
  <2>9. ~CodeOpen(lines, b + 1)
    BY <1>3, <1>6, <1>8
  <2> QED BY <1>4, <2>7, <2>8, <2>9 DEF CodeRead
<1>9. CASE StartsWith(line, Fence) /\ ~s.inside
  <2>1. PICK r \in Reading : r = PushBuffer(s, "paragraph") /\ r.buffer = <<>>
    BY <1>3, PushBufferType
  <2>2. e = [r EXCEPT !.inside = TRUE, !.language = Trim(Tail(line))]
    BY <1>4, <1>9, <2>1 DEF EvaluateLine
  <2>3. /\ e.inside = TRUE /\ e.tokens = r.tokens /\ e.buffer = <<>>
        /\ e.language = Trim(Tail(line))
    BY <2>1, <2>2 DEF Reading
  <2>4. EndedBy(lines, b) = <<>>
    BY <1>3, <1>9 DEF EndedBy
  <2>5. Along(TokenCode, e.tokens) = Upto(lines, b)
    BY <1>3, <1>7, <2>1, <2>3, <2>4, PushBufferCode
  <2>6. CodeOpen(lines, b + 1) /\ Opener(lines, b + 1) = b
    BY <1>2, <1>3, <1>6, <1>9, OpenerIs
  <2>7. /\ Between(lines, b, b + 1).text = <<>>
        /\ Between(lines, b, b + 1).language = Trim(Tail(line))
    <3>1. b \in 1..b
      BY <1>1
    <3> QED BY <1>2, <3>1, BetweenMore
  <2> QED BY <1>4, <2>3, <2>5, <2>6, <2>7 DEF CodeRead
<1>10. CASE ~StartsWith(line, Fence) /\ s.inside
  <2>1. PICK a \in 1..(b - 1) : a = Opener(lines, b) /\ a = Opener(lines, b + 1)
    BY <1>2, <1>3, <1>10, OpenerIs
  <2>2. e = [s EXCEPT !.buffer = s.buffer \o line \o <<Break>>]
    BY <1>4, <1>10 DEF EvaluateLine, CodeLine
  <2>3. /\ e.inside = TRUE /\ e.tokens = s.tokens
        /\ e.buffer = s.buffer \o line \o <<Break>> /\ e.language = s.language
    BY <1>3, <1>10, <2>2 DEF Reading
  <2>4. EndedBy(lines, b) = <<>>
    BY <1>2, <1>10 DEF EndedBy
  <2>5. Along(TokenCode, e.tokens) = Upto(lines, b)
    BY <1>3, <1>7, <2>3, <2>4
  <2>6. CodeOpen(lines, b + 1)
    BY <1>3, <1>6, <1>10
  <2>7. /\ Between(lines, a, b + 1).language = Between(lines, a, b).language
        /\ Between(lines, a, b + 1).text = Between(lines, a, b).text \o line \o <<Break>>
    <3>1. a \in 1..b /\ a # b
      BY <1>1
    <3> QED BY <1>2, <3>1, BetweenMore
  <2>8. s.language = Between(lines, a, b).language /\ s.buffer = Between(lines, a, b).text
    BY <1>3, <1>10, <2>1
  <2> QED BY <1>4, <2>1, <2>3, <2>5, <2>6, <2>7, <2>8 DEF CodeRead
<1>11. CASE ~StartsWith(line, Fence) /\ ~s.inside
  <2>1. e = ParseMarkdownElements(s, line)
    BY <1>4, <1>11 DEF EvaluateLine
  <2>2. Along(TokenCode, e.tokens) = Along(TokenCode, s.tokens)
    BY <1>3, <1>11, <2>1, ParseCode
  <2>3. EndedBy(lines, b) = <<>>
    BY <1>2, <1>11 DEF EndedBy
  <2>4. ~CodeOpen(lines, b + 1)
    BY <1>3, <1>6, <1>11
  <2>5. ~e.inside
    BY <1>3, <1>11, <2>1, ParseOutside
  <2> QED BY <1>3, <1>4, <1>7, <2>2, <2>3, <2>4, <2>5 DEF CodeRead
<1> QED BY <1>3, <1>8, <1>9, <1>10, <1>11

\* All lines.
LEMMA TokenizeReads ==
  ASSUME NEW text \in Text, NEW lines \in Seq(Plain), lines = Lines(text)
  PROVE  \E G \in [0..Len(lines) -> Reading] :
            /\ G[0].tokens = <<>> /\ G[0].buffer = <<>>
            /\ \A k \in 1..Len(lines) : G[k] = EvaluateLine(G[k - 1], lines[k])
            /\ \A k \in 0..Len(lines) : CodeRead(lines, k, G[k])
            /\ Tokenize(text) = PushBuffer(G[Len(lines)], "paragraph").tokens
<1>2. PICK start \in Reading :
         start = [tokens |-> <<>>, buffer |-> <<>>, language |-> <<>>, inside |-> FALSE]
  <2>1. <<>> \in Seq(Toks) /\ <<>> \in Text /\ <<>> \in Plain
    BY DEF Text, Plain
  <2> QED BY <2>1, Fields
<1>3. PICK n \in Nat : n = Len(lines) /\ n \in 0..n
  BY LenProperties
<1>4. PICK G \in [0..n -> Reading] :
         /\ G[0] = start
         /\ \A k \in 1..n : G[k] = EvaluateLine(G[k - 1], lines[k])
         /\ FoldLeft(EvaluateLine, start, lines) = G[n]
  BY <1>3, TokenizeRuns
<1> DEFINE N == {k \in Nat : k <= n => CodeRead(lines, k, G[k])}
<1>5. 0 \in N
  <2>1. ~CodeOpen(lines, 0 + 1)
    <3>1. FencesBefore(lines, 1) = {}
      <4>1. DOMAIN lines = 1..n
        BY <1>3, LenProperties
      <4>2. \A a \in 1..n : ~(a < 1)
        OBVIOUS
      <4> QED BY <4>1, <4>2 DEF FencesBefore
    <3>2. 0 + 1 = 1
      OBVIOUS
    <3> QED BY <3>1, <3>2, NoneOdd DEF CodeOpen
  <2>2. Upto(lines, 0) = <<>>
    <3>1. [b \in 1..0 |-> EndedBy(lines, b)] = <<>>
      OBVIOUS
    <3> QED BY <3>1, FlattenNone DEF Upto
  <2>3. Along(TokenCode, <<>>) = <<>>
    BY AlongEmpty
  <2>4. G[0].inside = FALSE /\ G[0].tokens = <<>> /\ G[0] \in Reading
    BY <1>2, <1>4
  <2>5. CodeRead(lines, 0, G[0])
    BY <2>1, <2>2, <2>3, <2>4 DEF CodeRead
  <2> QED BY <2>5
<1>6. ASSUME NEW k \in Nat, k \in N PROVE k + 1 \in N
  <2>1. SUFFICES ASSUME k + 1 <= n PROVE CodeRead(lines, k + 1, G[k + 1])
    OBVIOUS
  <2>2. CodeRead(lines, k, G[k]) /\ k + 1 \in 1..n /\ (k + 1) - 1 = k
    BY <1>6, <2>1
  <2>3. G[k + 1] = EvaluateLine(G[k], lines[k + 1])
    BY <1>4, <2>2
  <2> QED BY <1>3, <2>1, <2>2, <2>3, CodeReadNext
<1> HIDE DEF N
<1>7. \A k \in 0..n : CodeRead(lines, k, G[k])
  <2>1. \A k \in 0..n : k \in N /\ k \in Nat /\ k <= n
    BY <1>3, <1>5, <1>6, Induction
  <2> QED BY <2>1 DEF N
<1>8. Tokenize(text) = PushBuffer(G[n], "paragraph").tokens
  BY <1>2, <1>4 DEF Tokenize
<1>9. G[0].tokens = <<>> /\ G[0].buffer = <<>>
  BY <1>2, <1>4
<1> QED BY <1>3, <1>4, <1>7, <1>8, <1>9

\* The code tokens of a text are the blocks its lines end.
LEMMA TokenizeCode ==
  ASSUME NEW text \in Text
  PROVE  Along(TokenCode, Tokenize(text)) = Upto(Lines(text), Len(Lines(text)))
<1>1. PICK lines \in Seq(Plain) : lines = Lines(text)
  BY LinesType
<1>2. PICK n \in Nat : n = Len(lines) /\ n \in 0..n
  BY LenProperties
<1>3. PICK G \in [0..Len(lines) -> Reading] :
         /\ \A k \in 0..Len(lines) : CodeRead(lines, k, G[k])
         /\ Tokenize(text) = PushBuffer(G[Len(lines)], "paragraph").tokens
  BY <1>1, TokenizeReads
<1>4. PICK r \in Reading : r = G[n] /\ Along(TokenCode, r.tokens) = Upto(lines, n)
  BY <1>2, <1>3 DEF CodeRead
<1> QED BY <1>1, <1>2, <1>3, <1>4, PushBufferCode

\* Where no token is code there is none.
LEMMA TokenCodeNothing ==
  ASSUME NEW tokens \in Seq(Toks), NEW k \in Nat, NEW m \in Nat, k <= m, m <= Len(tokens),
         \A i \in (k + 1)..m : TokenCode[tokens[i]] = <<>>
  PROVE  First(TokenCode, tokens, m) = First(TokenCode, tokens, k)
<1>1. TokenCode \in [Toks -> Seq(Block)]
  BY CodeTypes
<1>2. PICK f \in [Toks -> Seq(Block)] : f = TokenCode
  BY <1>1
<1>3. \A i \in (k + 1)..m : f[tokens[i]] = <<>>
  BY <1>2
<1>4. First(f, tokens, m) = First(f, tokens, k)
  BY <1>3, FirstNothing
<1> QED BY <1>2, <1>4

\* Tables and the marks of lists are not code.
LEMMA CodeAgrees ==
  ASSUME NEW tokens \in Seq(Toks)
  PROVE  Agree(Block, ElementCode, TokenCode, tokens)
<1>1. PICK f \in [WellFormed -> Seq(Block)], g \in [Toks -> Seq(Block)] :
         f = ElementCode /\ g = TokenCode
  BY CodeTypes
<1>2. \A tag \in ListMarks : f[Mark(tag)] = <<>>
  <2>1. ASSUME NEW tag \in ListMarks PROVE f[Mark(tag)] = <<>>
    <3>1. Mark(tag) \in WellFormed /\ Mark(tag).tag # "code"
      BY MarkTypes DEF ListMarks, Mark
    <3> QED BY <1>1, <3>1 DEF ElementCode
  <2> QED BY <2>1
<1>3. ASSUME NEW token \in Toks PROVE f[ElementFor(token)] = g[token]
  <2>1. PICK x \in WellFormed : x = ElementFor(token)
    BY ElementForType
  <2>2. token.type \in TokenTypes
    BY DEF Toks, Token, TokenTypes
  <2>3. CASE token.type = "code"
    <3>1. x = [tag |-> "code", text |-> token.content, language |-> token.language]
      BY <2>1, <2>3 DEF ElementFor
    <3>2. x.tag = "code" /\ x.text = token.content /\ x.language = token.language
      BY <3>1
    <3> QED BY <1>1, <2>1, <2>3, <3>2 DEF ElementCode, TokenCode
  <2>4. CASE token.type # "code"
    <3>1. x.tag # "code"
      BY <2>1, <2>2, <2>4 DEF ElementFor, Element, TokenTypes
    <3> QED BY <1>1, <2>1, <2>4, <3>1 DEF ElementCode, TokenCode
  <2> QED BY <2>3, <2>4
<1>4. ASSUME NEW i \in 1..Len(tokens), IsTable(tokens, i)
      PROVE  First(g, tokens, i - 1) \o Along(f, Table(tokens, i)) =
               First(g, tokens, RunEnd(tokens, i))
  <2>1. PICK n \in Nat : n = Len(tokens)
    BY LenProperties
  <2>2. PICK k \in Nat : k = i - 1 /\ k + 1 = i
    <3>1. i - 1 \in Nat /\ (i - 1) + 1 = i
      BY <2>1
    <3> QED BY <3>1
  <2>3. RunEnd(tokens, i) > i
    BY <1>4 DEF IsTable
  <2>4. PICK end \in i..n : end = RunEnd(tokens, i)
    <3>1. RunEnd(tokens, i) \in (i - 1)..n
      BY <2>1, RunEndType
    <3> QED BY <2>1, <2>3, <3>1
  <2>5. PICK table \in Seq(Tabular) : table = Table(tokens, i)
    BY <2>3, TableType
  <2>6. \A j \in 1..Len(table) : f[table[j]] = <<>>
    <3>1. \A j \in 1..Len(table) : table[j] \in Tabular
      BY ElementOf
    <3> QED BY <1>1, <3>1 DEF Tabular, ElementCode
  <2>7. table \in Seq(WellFormed)
    BY SeqMonotonic DEF Tabular
  <2>8. Along(f, table) = <<>>
    BY <2>6, <2>7, AlongNothing
  <2>9. \A j \in (k + 1)..end : g[tokens[j]] = <<>>
    <3>1. ASSUME NEW j \in (k + 1)..end PROVE g[tokens[j]] = <<>>
      <4>1. IsCandidate(tokens[j])
        BY <2>2, <2>4, <3>1, RunEndRows
      <4>2. tokens[j] \in Toks
        <5>1. j \in 1..Len(tokens)
          BY <2>1, <2>2, <3>1
        <5> QED BY <5>1, ElementOf
      <4> QED BY <1>1, <4>1, <4>2 DEF IsCandidate, TokenCode
    <3> QED BY <3>1
  <2>10. First(g, tokens, end) = First(g, tokens, k)
    <3>1. end \in Nat /\ k <= end /\ end <= Len(tokens)
      BY <2>1, <2>2
    <3>2. \A j \in (k + 1)..end : TokenCode[tokens[j]] = <<>>
      BY <1>1, <2>9
    <3>3. First(TokenCode, tokens, end) = First(TokenCode, tokens, k)
      BY <3>1, <3>2, TokenCodeNothing
    <3> QED BY <1>1, <3>3
  <2>11. First(g, tokens, k) \in Seq(Block)
    <3>1. k + 1 <= Len(tokens)
      BY <2>1, <2>2
    <3> QED BY ONLY <3>1, g \in [Toks -> Seq(Block)], tokens \in Seq(Toks), k \in Nat, FirstMore
  <2> QED BY <2>2, <2>4, <2>5, <2>8, <2>10, <2>11, ConcatEmptySeq
<1>5. Agree(Block, f, g, tokens)
  BY <1>2, <1>3, <1>4 DEF Agree
<1> QED BY <1>1, <1>5

\* The code among the elements of a text is what its fences enclose.
LEMMA ElementsCode ==
  ASSUME NEW text \in Text
  PROVE  Along(ElementCode, Elements(text)) = Upto(Lines(text), Len(Lines(text)))
<1>1. PICK tokens \in Seq(Toks) : tokens = Tokenize(text)
  BY TokenizeType
<1>2. Along(ElementCode, Emit(tokens)) = Along(TokenCode, tokens)
  BY CodeAgrees, EmitShows
<1> QED BY <1>1, <1>2, TokenizeCode DEF Elements

\* So is the code of a page.
LEMMA PageCode ==
  ASSUME NEW page, NEW i, NEW b, Showing(page, i, b)
  PROVE  FlattenSeq([k \in DOMAIN page.page |->
                       IF page.page[k].tag = "code"
                       THEN <<[text |-> page.page[k].html.text,
                               language |-> page.page[k].html.language]>>
                       ELSE <<>>])
         = FlattenSeq([k \in DOMAIN Lines(page.text) |-> EndedBy(Lines(page.text), k)])
<1>1. PICK text \in Text : text = page.text
  BY DEF Showing
<1>2. PICK es \in Seq(WellFormed) : es = Elements(text)
  BY ElementsType DEF Well
<1>3. PICK n \in Nat : n = Len(es)
  BY LenProperties
<1>4. PICK p : /\ p = page.page
              /\ p = [k \in 1..n |-> Drawn(es[k], page.theme)]
  BY <1>1, <1>2, <1>3 DEF Showing, PageOf
<1>5. ASSUME NEW k \in 1..n
      PROVE  (IF p[k].tag = "code"
              THEN <<[text |-> p[k].html.text, language |-> p[k].html.language]>>
              ELSE <<>>) = ElementCode[es[k]]
  <2>1. PICK e \in WellFormed : e = es[k]
    BY <1>3, ElementOf
  <2>2. PICK d : d = Drawn(e, page.theme)
    OBVIOUS
  <2>3. d.tag = e.tag
    BY <2>2 DEF Drawn
  <2>4. d.tag = "code" => d.html.text = e.text /\ d.html.language = e.language
    <3>1. SUFFICES ASSUME d.tag = "code"
                   PROVE  d.html.text = e.text /\ d.html.language = e.language
      OBVIOUS
    <3>2. d = [tag |-> e.tag, html |-> Fragment(e, page.theme)]
      BY <2>2, <2>3, <3>1 DEF Drawn, Decorated
    <3>3. d.html = Fragment(e, page.theme)
      BY <3>2
    <3>4. /\ Fragment(e, page.theme).text = e.text
          /\ Fragment(e, page.theme).language = e.language
      BY DEF Fragment
    <3> QED BY <3>3, <3>4
  <2>5. p[k] = d
    BY <1>4, <2>1, <2>2
  <2> QED BY <2>1, <2>3, <2>4, <2>5 DEF ElementCode
<1>6. [k \in DOMAIN p |-> IF p[k].tag = "code"
                          THEN <<[text |-> p[k].html.text, language |-> p[k].html.language]>>
                          ELSE <<>>]
        = [k \in 1..Len(es) |-> ElementCode[es[k]]]
  <2>1. DOMAIN p = 1..n
    BY <1>4
  <2> QED BY <1>3, <1>5, <2>1
<1>7. PICK lines \in Seq(Plain) : lines = Lines(text)
  BY LinesType
<1>8. FlattenSeq([k \in DOMAIN lines |-> EndedBy(lines, k)]) = Upto(lines, Len(lines))
  BY LenProperties DEF Upto
<1>9. Along(ElementCode, es) = Upto(lines, Len(lines))
  BY <1>2, <1>7, ElementsCode
<1> QED BY <1>1, <1>4, <1>6, <1>7, <1>8, <1>9 DEF Along

\* The code blocks of the page are the lines between one fence and the next, with the
\* language of their own fence, in their order: whatever the transcript holds, wherever a
\* token cuts it, and whatever lists and tables stand around them.
THEOREM CodeStaysVerbatim == Spec => []CodeVerbatim
<1>1. ShowingInvariant => CodeVerbatim
  BY PageCode DEF ShowingInvariant, CodeVerbatim
<1> QED BY <1>1, InvariantHolds, PTL

-----------------------------------------------------------------------------
(* Words, and what leaves them as they are. *)

\* The word that a piece is, and the words of a text.
PieceInk == [p \in Piece |-> IF p \in Words THEN <<p>> ELSE <<>>]
TextInk == [t \in Text |-> Ink(t)]

\* The words of a text, one piece after the other,
LEMMA InkIs ==
  ASSUME NEW text \in Text
  PROVE  Ink(text) = Along(PieceInk, text) /\ Ink(text) \in Seq(Words)
<1>1. PICK f \in [Piece -> Seq(Words)] : f = PieceInk
  <2>1. \A p \in Words : <<p>> \in Seq(Words)
    OBVIOUS
  <2>2. <<>> \in Seq(Words)
    OBVIOUS
  <2> QED BY <2>1, <2>2 DEF PieceInk
<1>2. text \in Seq(Piece)
  BY DEF Text
<1>3. DOMAIN text = 1..Len(text) /\ \A i \in 1..Len(text) : text[i] \in Piece
  BY <1>2, LenProperties, ElementOf
<1>4. [i \in DOMAIN text |-> IF text[i] \in Words THEN <<text[i]>> ELSE <<>>]
        = [i \in 1..Len(text) |-> f[text[i]]]
  BY <1>1, <1>3 DEF PieceInk
<1>5. Ink(text) = Along(f, text)
  BY <1>4 DEF Ink, Along
<1>6. Along(f, text) \in Seq(Words)
  BY <1>2, AlongType
<1> QED BY <1>1, <1>5, <1>6

\* those of each text,
LEMMA TextInkType == TextInk \in [Text -> Seq(Words)] /\ PieceInk \in [Piece -> Seq(Words)]
<1>1. \A t \in Text : Ink(t) \in Seq(Words)
  BY InkIs
<1>2. \A p \in Words : <<p>> \in Seq(Words)
  OBVIOUS
<1>3. <<>> \in Seq(Words)
  OBVIOUS
<1> QED BY <1>1, <1>2, <1>3 DEF TextInk, PieceInk

\* of two texts those of each,
LEMMA InkBoth ==
  ASSUME NEW s \in Text, NEW t \in Text
  PROVE  s \o t \in Text /\ Ink(s \o t) = Ink(s) \o Ink(t)
<1>1. s \in Seq(Piece) /\ t \in Seq(Piece)
  BY DEF Text
<1>2. PICK u \in Text : u = s \o t
  BY <1>1, ConcatProperties DEF Text
<1>3. PICK f \in [Piece -> Seq(Words)] : f = PieceInk
  BY TextInkType
<1>4. BothAlong(f, s, t)
  BY <1>1, BothAre
<1>5. Along(f, u) = Along(f, s) \o Along(f, t)
  BY <1>2, <1>4 DEF BothAlong
<1>6. Ink(u) = Along(f, u) /\ Ink(s) = Along(f, s) /\ Ink(t) = Along(f, t)
  BY <1>3, InkIs
<1> QED BY <1>2, <1>5, <1>6

\* and none where no piece is a word.
LEMMA InkNothing ==
  ASSUME NEW text \in Text, \A i \in 1..Len(text) : text[i] \notin Words
  PROVE  Ink(text) = <<>>
<1>1. PICK f \in [Piece -> Seq(Words)] : f = PieceInk
  BY TextInkType
<1>2. text \in Seq(Piece)
  BY DEF Text
<1>3. \A i \in 1..Len(text) : f[text[i]] = <<>>
  <2>1. \A i \in 1..Len(text) : text[i] \in Piece
    BY <1>2, ElementOf
  <2> QED BY <1>1, <2>1 DEF PieceInk
<1>4. Along(f, text) = <<>>
  BY <1>2, <1>3, AlongNothing
<1> QED BY <1>1, <1>4, InkIs

\* Marks, blanks and line breaks are no words.
LEMMA MarksAreNoWords ==
  \A p \in {Break, Blank, Fence, Hash, Rule, Bullet, Number, Pipe} : p \in Piece /\ p \notin Words
BY MarkAssumption DEF Piece

\* Another piece at the end.
LEMMA InkMore ==
  ASSUME NEW text \in Text, NEW p \in Piece
  PROVE  /\ Append(text, p) \in Text
         /\ Ink(Append(text, p)) = Ink(text) \o PieceInk[p]
         /\ p \notin Words => Ink(Append(text, p)) = Ink(text)
<1>1. PICK f \in [Piece -> Seq(Words)] : f = PieceInk
  BY TextInkType
<1>2. text \in Seq(Piece)
  BY DEF Text
<1>3. PICK u \in Text : u = Append(text, p)
  BY <1>2, AppendProperties DEF Text
<1>4. Along(f, Append(text, p)) = Along(f, text) \o f[p]
  BY <1>2, AlongMore
<1>5. Ink(u) = Along(f, u) /\ Ink(text) = Along(f, text) /\ Ink(text) \in Seq(Words)
  BY <1>1, InkIs
<1>6. p \notin Words => f[p] = <<>>
  BY <1>1 DEF PieceInk
<1> QED BY <1>1, <1>3, <1>4, <1>5, <1>6, ConcatEmptySeq

\* Nothing is lost with the ends of a text where they have no words.
LEMMA InkWithin ==
  ASSUME NEW text \in Text, NEW a \in Nat \ {0}, NEW b \in Nat, b <= Len(text),
         \A i \in 1..Len(text) : i < a \/ i > b => text[i] \notin Words
  PROVE  SubSeq(text, a, b) \in Text /\ Ink(SubSeq(text, a, b)) = Ink(text)
<1>0. PICK n \in Nat : n = Len(text)
  BY LenProperties DEF Text
<1>1. text \in Seq(Piece)
  BY DEF Text
<1>2. PICK y \in Text : y = SubSeq(text, a, b)
  BY <1>1, PartOf DEF Text
<1>3. CASE b < a
  <2>1. y = <<>>
    BY <1>2, <1>3, SubSeqEmpty
  <2>2. \A i \in 1..Len(y) : y[i] \notin Words
    <3>1. Len(y) = 0
      BY <2>1
    <3> QED BY <3>1
  <2>3. Ink(y) = <<>>
    BY <2>2, InkNothing
  <2>4. \A i \in 1..Len(text) : text[i] \notin Words
    <3>1. \A i \in 1..n : i < a \/ i > b
      BY <1>3
    <3> QED BY <1>0, <3>1
  <2>5. Ink(text) = <<>>
    BY <2>4, InkNothing
  <2> QED BY <1>2, <2>3, <2>5
<1>4. CASE ~(b < a)
  <2>1. PICK c \in Nat : c = a - 1 /\ c + 1 = a /\ c <= n /\ c \in 0..n /\ c \in 0..b
    <3>1. a - 1 \in Nat /\ (a - 1) + 1 = a /\ a - 1 <= n /\ a - 1 \in 0..n /\ a - 1 \in 0..b
      BY <1>0, <1>4
    <3> QED BY <3>1
  <2>2. PICK x \in Text : x = SubSeq(text, 1, c)
    <3>1. 1 \in Nat \ {0} /\ c <= Len(text)
      BY <1>0, <2>1
    <3> QED BY <1>1, <3>1, PartOf DEF Text
  <2>3. PICK z \in Text : z = SubSeq(text, b + 1, n)
    <3>1. b + 1 \in Nat \ {0} /\ n <= Len(text)
      BY <1>0
    <3> QED BY <1>1, <3>1, PartOf DEF Text
  <2>4. PICK w \in Text : w = SubSeq(text, 1, b)
    <3>1. 1 \in Nat \ {0}
      OBVIOUS
    <3> QED BY <1>1, <3>1, PartOf DEF Text
  <2>5. x \o y = w
    <3>1. /\ 1 \in 1..Len(text) + 1 /\ c \in (1 - 1)..Len(text) /\ b \in c..Len(text)
      BY <1>0, <2>1
    <3>2. SubSeq(text, 1, c) \o SubSeq(text, c + 1, b) = SubSeq(text, 1, b)
      BY <1>1, <3>1, ConcatAdjacentSubSeq
    <3> QED BY <1>2, <2>1, <2>2, <2>4, <3>2
  <2>6. w \o z = text
    <3>1. /\ 1 \in 1..Len(text) + 1 /\ b \in (1 - 1)..Len(text) /\ n \in b..Len(text)
      BY <1>0
    <3>2. SubSeq(text, 1, b) \o SubSeq(text, b + 1, n) = SubSeq(text, 1, n)
      BY <1>1, <3>1, ConcatAdjacentSubSeq
    <3>3. SubSeq(text, 1, n) = text
      BY <1>0, <1>1, SubSeqFull
    <3> QED BY <2>3, <2>4, <3>2, <3>3
  <2>7. Ink(x) = <<>>
    <3>1. /\ Len(x) = IF 1 <= c THEN c - 1 + 1 ELSE 0
          /\ \A i \in 1..c - 1 + 1 : x[i] = text[1 + i - 1]
      <4>1. \A i \in 1..c : text[i] \in Piece
        <5>1. \A i \in 1..c : i \in 1..Len(text)
          BY <1>0, <2>1
        <5> QED BY <1>1, <5>1, ElementOf
      <4> QED BY <2>2, <4>1, SubSeqProperties
    <3>2. ASSUME NEW i \in 1..Len(x) PROVE x[i] \notin Words
      <4>1. i \in 1..c /\ i \in 1..c - 1 + 1 /\ 1 + i - 1 = i
        BY <3>1
      <4>2. i \in 1..Len(text) /\ i < a
        BY <1>0, <2>1, <4>1
      <4> QED BY <3>1, <4>1, <4>2
    <3> QED BY <3>2, InkNothing
  <2>8. Ink(z) = <<>>
    <3>1. /\ Len(z) = IF b + 1 <= n THEN n - (b + 1) + 1 ELSE 0
          /\ \A i \in 1..n - (b + 1) + 1 : z[i] = text[b + 1 + i - 1]
      <4>1. \A i \in (b + 1)..n : text[i] \in Piece
        <5>1. \A i \in (b + 1)..n : i \in 1..Len(text)
          BY <1>0
        <5> QED BY <1>1, <5>1, ElementOf
      <4>2. b + 1 \in Int
        OBVIOUS
      <4> QED BY <2>3, <4>1, <4>2, SubSeqProperties
    <3>2. ASSUME NEW i \in 1..Len(z) PROVE z[i] \notin Words
      <4>1. i \in 1..n - (b + 1) + 1
        BY <3>1
      <4>2. b + 1 + i - 1 \in 1..n /\ b + 1 + i - 1 > b
        BY <4>1
      <4> QED BY <1>0, <3>1, <4>1, <4>2
    <3> QED BY <3>2, InkNothing
  <2>9. Ink(w) = Ink(x) \o Ink(y) /\ Ink(text) = Ink(w) \o Ink(z)
    BY <2>5, <2>6, InkBoth
  <2>10. Ink(y) \in Seq(Words) /\ Ink(w) \in Seq(Words)
    BY InkIs
  <2> QED BY <1>2, <2>7, <2>8, <2>9, <2>10, ConcatEmptySeq
<1> QED BY <1>3, <1>4

\* Trimming takes away blanks,
LEMMA TrimInk ==
  ASSUME NEW text \in Text
  PROVE  Trim(text) \in Text /\ Ink(Trim(text)) = Ink(text)
<1>1. PICK n \in Nat : n = Len(text) /\ DOMAIN text = 1..n
  BY LenProperties DEF Text
<1> DEFINE ink == {i \in DOMAIN text : text[i] \notin {Blank, Break}}
<1>2. \A i \in 1..n : i \notin ink => text[i] \notin Words
  BY <1>1, MarksAreNoWords
<1>3. CASE ink = {}
  <2>1. Trim(text) = <<>>
    BY <1>3 DEF Trim
  <2>2. Ink(text) = <<>>
    BY <1>1, <1>2, <1>3, InkNothing
  <2>3. <<>> \in Text /\ \A i \in 1..Len(<<>>) : <<>>[i] \notin Words
    BY DEF Text
  <2>4. Ink(<<>>) = <<>>
    BY <2>3, InkNothing
  <2> QED BY <2>1, <2>2, <2>3, <2>4
<1>4. CASE ink # {}
  <2>1. Trim(text) = SubSeq(text, Min(ink), Max(ink))
    BY <1>4 DEF Trim
  <2>2. ink \in SUBSET (0..n) /\ ink \subseteq 1..n
    BY <1>1
  <2> HIDE DEF ink
  <2>3. /\ Min(ink) \in ink /\ Max(ink) \in ink
        /\ \A x \in ink : Min(ink) <= x /\ x <= Max(ink)
    BY <1>4, <2>2, MinExists, MaxExists
  <2>4. PICK a \in 1..n, b \in 1..n :
           /\ a = Min(ink) /\ b = Max(ink) /\ \A x \in ink : a <= x /\ x <= b
    BY <2>2, <2>3
  <2>5. a \in Nat \ {0} /\ b \in Nat /\ b <= Len(text)
    BY <1>1
  <2>6. \A i \in 1..n : i < a \/ i > b => i \notin ink
    BY <2>4
  <2>7. \A i \in 1..Len(text) : i < a \/ i > b => text[i] \notin Words
    BY <1>1, <1>2, <2>6
  <2> QED BY <2>1, <2>4, <2>5, <2>7, InkWithin
<1> QED BY <1>3, <1>4

\* Another piece at the end of the last part.
LEMMA LastMoreInk ==
  ASSUME NEW parts \in Seq(Text), parts # <<>>, NEW p \in Piece, NEW more,
         more = [parts EXCEPT ![Len(parts)] = Append(@, p)]
  PROVE  more \in Seq(Text) /\ Along(TextInk, more) = Along(TextInk, parts) \o PieceInk[p]
<1>1. PICK f \in [Text -> Seq(Words)], g \in [Piece -> Seq(Words)] : f = TextInk /\ g = PieceInk
  BY TextInkType
<1>2. PICK k \in Nat : k + 1 = Len(parts)
  <2>1. Len(parts) \in Nat \ {0}
    BY EmptySeq
  <2>2. Len(parts) - 1 \in Nat /\ (Len(parts) - 1) + 1 = Len(parts)
    BY <2>1
  <2> QED BY <2>2
<1>3. PICK m \in 1..Len(parts) : m = k + 1 /\ m = Len(parts) /\ m \in Nat
  BY <1>2
<1>4. PICK last \in Text : last = parts[m]
  BY ElementOf
<1>5. PICK e \in Text : e = Append(last, p) /\ f[e] = f[last] \o g[p]
  <2>1. PICK e \in Text : e = Append(last, p) /\ Ink(e) = Ink(last) \o PieceInk[p]
    BY InkMore
  <2> QED BY <1>1, <2>1 DEF TextInk
<1>6. more = [parts EXCEPT ![m] = e]
  BY <1>3, <1>4, <1>5
<1>7. /\ more \in Seq(Text) /\ Len(more) = m
      /\ \A j \in 1..m : more[j] = IF j = m THEN e ELSE parts[j]
  <2>1. /\ [parts EXCEPT ![m] = e] \in Seq(Text)
        /\ Len([parts EXCEPT ![m] = e]) = Len(parts)
        /\ \A j \in 1..Len(parts) :
             [parts EXCEPT ![m] = e][j] = IF j = m THEN e ELSE parts[j]
    BY ONLY parts \in Seq(Text), m \in 1..Len(parts), e \in Text, ExceptSeq
  <2> QED BY <1>3, <1>6, <2>1
<1>8. /\ First(f, parts, k + 1) = First(f, parts, k) \o f[parts[k + 1]]
      /\ First(f, parts, k) \in Seq(Words)
  <2>1. k + 1 <= Len(parts)
    BY <1>2, <1>3
  <2> QED BY ONLY <2>1, f \in [Text -> Seq(Words)], parts \in Seq(Text), k \in Nat, FirstMore
<1>9. /\ First(f, more, k + 1) = First(f, more, k) \o f[more[k + 1]]
      /\ First(f, more, k) \in Seq(Words)
  <2>1. k + 1 <= Len(more) /\ more \in Seq(Text)
    BY <1>3, <1>7
  <2> QED BY ONLY <2>1, f \in [Text -> Seq(Words)], k \in Nat, FirstMore
<1>10. First(f, more, k) = First(f, parts, k)
  <2>1. \A j \in 1..k : more[j] = parts[j]
    <3>1. \A j \in 1..k : j \in 1..m /\ j # m
      BY <1>3
    <3> QED BY <1>7, <3>1
  <2>2. [j \in 1..k |-> f[more[j]]] = [j \in 1..k |-> f[parts[j]]]
    BY <2>1
  <2> QED BY <2>2 DEF First
<1>11. /\ Along(f, parts) = First(f, parts, k + 1)
       /\ Along(f, more) = First(f, more, k + 1)
  BY <1>3, <1>7 DEF First, Along
<1>12. more[k + 1] = e /\ parts[k + 1] = last
  BY <1>3, <1>4, <1>7
<1>13. (First(f, parts, k) \o f[last]) \o g[p] = First(f, parts, k) \o (f[last] \o g[p])
  <2>1. f[last] \in Seq(Words) /\ g[p] \in Seq(Words)
    OBVIOUS
  <2>2. InARow(First(f, parts, k), f[last], g[p])
    BY <1>8, <2>1, InARowIs
  <2> QED BY <2>2 DEF InARow
<1> QED BY <1>1, <1>5, <1>7, <1>8, <1>9, <1>10, <1>11, <1>12, <1>13

\* Splitting takes away separators,
LEMMA SplitInk ==
  ASSUME NEW text \in Text, NEW separator \in Piece, separator \notin Words
  PROVE  /\ SplitAt(text, separator) \in Seq(Text)
         /\ Along(TextInk, SplitAt(text, separator)) = Ink(text)
<1>1. PICK f \in [Text -> Seq(Words)], g \in [Piece -> Seq(Words)] : f = TextInk /\ g = PieceInk
  BY TextInkType
<1>2. PICK n \in Nat : n = Len(text) /\ n \in 0..n
  BY LenProperties DEF Text
<1>3. text \in Seq(Piece)
  BY DEF Text
<1>4. PICK G \in [0..n -> Seq(Text) \ {<<>>}] :
         /\ G[0] = << <<>> >>
         /\ \A k \in 1..n :
              G[k] = IF text[k] = separator THEN Append(G[k - 1], <<>>)
                     ELSE [G[k - 1] EXCEPT ![Len(G[k - 1])] = Append(@, text[k])]
         /\ SplitAt(text, separator) = G[n]
  <2>1. PICK G \in [0..Len(text) -> Seq(Seq(Piece \ {separator})) \ {<<>>}] :
           Splits(G, text, separator)
    BY <1>3, SplitRuns
  <2>2. Seq(Piece \ {separator}) \subseteq Text
    BY SeqMonotonic DEF Text
  <2>3. Seq(Seq(Piece \ {separator})) \subseteq Seq(Text)
    BY <2>2, SeqMonotonic
  <2>4. G \in [0..n -> Seq(Text) \ {<<>>}]
    BY <1>2, <2>1, <2>3
  <2> QED BY <1>2, <2>1, <2>4 DEF Splits
<1> DEFINE N == {k \in Nat : k <= n => Along(f, G[k]) = First(g, text, k)}
<1>5. <<>> \in Text /\ f[<<>>] = <<>>
  <2>1. <<>> \in Text /\ \A i \in 1..Len(<<>>) : <<>>[i] \notin Words
    BY DEF Text
  <2> QED BY <1>1, <2>1, InkNothing DEF TextInk
<1>6. 0 \in N
  <2>1. PICK one \in Seq(Text) : one = << <<>> >> /\ \A i \in 1..Len(one) : one[i] = <<>>
    <3>1. PICK x \in Text : x = <<>>
      BY <1>5
    <3>2. <<x>> \in Seq(Text) /\ \A i \in 1..Len(<<x>>) : <<x>>[i] = x
      OBVIOUS
    <3> QED BY <3>1, <3>2
  <2>2. \A i \in 1..Len(one) : f[one[i]] = <<>>
    BY <1>5, <2>1
  <2>3. Along(f, << <<>> >>) = <<>>
    <3>1. Along(f, one) = <<>>
      BY ONLY <2>2, f \in [Text -> Seq(Words)], one \in Seq(Text), AlongNothing
    <3> QED BY <2>1, <3>1
  <2>4. First(g, text, 0) = <<>>
    <3>1. [i \in 1..0 |-> g[text[i]]] = <<>>
      OBVIOUS
    <3> QED BY <3>1, FlattenNone DEF First
  <2> QED BY <1>4, <2>3, <2>4
<1>7. ASSUME NEW k \in Nat, k \in N PROVE k + 1 \in N
  <2>1. SUFFICES ASSUME k + 1 <= n PROVE Along(f, G[k + 1]) = First(g, text, k + 1)
    OBVIOUS
  <2>2. k + 1 \in 1..n /\ (k + 1) - 1 = k /\ k \in 0..n /\ k <= n
    BY <2>1
  <2>3. PICK parts \in Seq(Text) : parts = G[k] /\ parts # <<>>
    BY <1>4, <2>2
  <2>4. PICK p \in Piece : p = text[k + 1]
    <3>1. k + 1 \in 1..Len(text)
      BY <1>2, <2>2
    <3> QED BY <1>3, <3>1, ElementOf
  <2>5. G[k + 1] = IF p = separator THEN Append(parts, <<>>)
                   ELSE [parts EXCEPT ![Len(parts)] = Append(@, p)]
    BY <1>4, <2>2, <2>3, <2>4
  <2>6. Along(f, parts) = First(g, text, k)
    BY <1>7, <2>2, <2>3
  <2>7. /\ First(g, text, k + 1) = First(g, text, k) \o g[text[k + 1]]
        /\ First(g, text, k) \in Seq(Words)
    <3>1. k + 1 <= Len(text)
      BY <1>2, <2>1
    <3> QED BY ONLY <3>1, <1>3, g \in [Piece -> Seq(Words)], k \in Nat, FirstMore
  <2>8. CASE p = separator
    <3>1. PICK x \in Text : x = <<>>
      BY <1>5
    <3>2. Along(f, Append(parts, x)) = Along(f, parts) \o f[x]
      <4>1. OneMore(f, parts, x)
        BY OneMoreIs
      <4> QED BY <4>1 DEF OneMore
    <3>3. g[p] = <<>>
      BY <1>1, <2>8 DEF PieceInk
    <3> QED BY <1>5, <2>4, <2>5, <2>6, <2>7, <2>8, <3>1, <3>2, <3>3
  <2>9. CASE p # separator
    <3>1. PICK more : more = [parts EXCEPT ![Len(parts)] = Append(@, p)]
      OBVIOUS
    <3>2. Along(TextInk, more) = Along(TextInk, parts) \o PieceInk[p]
      BY <2>3, <3>1, LastMoreInk
    <3> QED BY <1>1, <2>4, <2>5, <2>6, <2>7, <2>9, <3>1, <3>2
  <2> QED BY <2>8, <2>9
<1> HIDE DEF N
<1>8. n \in N
  BY <1>6, <1>7, Induction
<1>9. First(g, text, n) = Along(g, text)
  BY <1>2 DEF First, Along
<1>10. Along(f, G[n]) = Ink(text)
  BY <1>1, <1>8, <1>9, InkIs DEF N
<1> QED BY <1>1, <1>2, <1>4, <1>10

\* and so does a row of a table its pipes.
LEMMA RowCellsInk ==
  ASSUME NEW text \in Text
  PROVE  RowCells(text) \in Seq(Text) /\ Along(TextInk, RowCells(text)) = Ink(text)
<1>1. PICK row \in Text : row = Trim(text) /\ Ink(row) = Ink(text)
  BY TrimInk
<1>2. PICK n \in Nat : n = Len(row)
  BY LenProperties DEF Text
<1>3. PICK first \in {1, 2} : /\ first = IF row[1] = Pipe THEN 2 ELSE 1
                              /\ first = 2 => row[1] = Pipe
  OBVIOUS
<1>4. PICK last \in Nat : /\ last <= n /\ last = IF n > 1 /\ Last(row) = Pipe THEN n - 1 ELSE n
                          /\ last = n \/ (last = n - 1 /\ row[n] = Pipe)
  <2>1. n > 1 => n - 1 \in Nat /\ n - 1 <= n
    OBVIOUS
  <2>2. Last(row) = row[n]
    BY <1>2 DEF Last
  <2> QED BY <2>1, <2>2
<1>5. \A i \in 1..Len(row) : i < first \/ i > last => row[i] \notin Words
  <2>1. ASSUME NEW i \in 1..n, i < first \/ i > last PROVE row[i] = Pipe
    <3>1. i < first => i = 1 /\ first = 2
      BY <1>3
    <3>2. i > last => i = n /\ last # n
      BY <1>4
    <3> QED BY <1>3, <1>4, <2>1, <3>1, <3>2
  <2> QED BY <1>2, <2>1, MarksAreNoWords
<1>6. PICK part \in Text : part = SubSeq(row, first, last) /\ Ink(part) = Ink(row)
  <2>1. first \in Nat \ {0} /\ last <= Len(row)
    BY <1>2, <1>3, <1>4
  <2> QED BY <1>5, <2>1, InkWithin
<1>7. RowCells(text) = SplitAt(part, Pipe)
  BY <1>1, <1>2, <1>3, <1>4, <1>6 DEF RowCells
<1>8. /\ SplitAt(part, Pipe) \in Seq(Text)
      /\ Along(TextInk, SplitAt(part, Pipe)) = Ink(part)
  BY MarksAreNoWords, SplitInk
<1> QED BY <1>1, <1>6, <1>7, <1>8

\* The words of an element that is shown,
ElementInk == [e \in WellFormed |-> IF e.tag \in Decorated THEN Ink(e.text) ELSE <<>>]
\* of a token,
TokenInk == [t \in Toks |-> Ink(t.content)]
\* and of a line.
LineInk == [l \in Plain |-> IF StartsWith(l, Fence) THEN <<>> ELSE Ink(l)]

\* Each of these is a sequence of words.
LEMMA InkTypes ==
  /\ ElementInk \in [WellFormed -> Seq(Words)]
  /\ TokenInk \in [Toks -> Seq(Words)]
  /\ LineInk \in [Plain -> Seq(Words)]
<1>1. \A t \in Text : Ink(t) \in Seq(Words)
  BY InkIs
<1>2. <<>> \in Seq(Words)
  OBVIOUS
<1>3. \A e \in WellFormed : e.text \in Text
  BY DEF WellFormed, Codes, CodeText, Inlines, Marks
<1>4. \A t \in Toks : t.content \in Text
  BY DEF Toks, Token
<1>5. \A l \in Plain : l \in Text
  BY SeqMonotonic DEF Plain, Text
<1> QED BY <1>1, <1>2, <1>3, <1>4, <1>5 DEF ElementInk, TokenInk, LineInk

\* Elements between two that show nothing.
LEMMA EnclosedInk ==
  ASSUME NEW x \in WellFormed, NEW y \in WellFormed, NEW s \in Seq(WellFormed),
         ElementInk[x] = <<>>, ElementInk[y] = <<>>
  PROVE  Along(ElementInk, Enclosed(x, s, y)) = Along(ElementInk, s)
<1>1. PICK f \in [WellFormed -> Seq(Words)] : f = ElementInk
  BY InkTypes
<1>2. f[x] = <<>> /\ f[y] = <<>>
  BY <1>1
<1>3. Along(f, Enclosed(x, s, y)) = Along(f, s)
  BY ONLY <1>2, f \in [WellFormed -> Seq(Words)], x \in WellFormed, y \in WellFormed,
          s \in Seq(WellFormed), InNothing
<1> QED BY <1>1, <1>3

\* A row as wide as its cells shows all of them.
LEMMA RowInk ==
  ASSUME NEW tag \in {"th", "td"}, NEW cells \in Seq(Text), NEW columns, columns = Len(cells)
  PROVE  Along(ElementInk, Row(tag, cells, columns)) = Along(TextInk, cells)
<1>1. PICK f \in [WellFormed -> Seq(Words)], g \in [Text -> Seq(Words)] :
         f = ElementInk /\ g = TextInk
  BY InkTypes, TextInkType
<1>2. PICK n \in Nat : n = Len(cells) /\ DOMAIN cells = 1..n
  BY LenProperties
<1> DEFINE middle == [c \in 1..columns |->
                        Element(tag, IF c \in DOMAIN cells THEN Trim(cells[c]) ELSE <<>>)]
<1>3. Row(tag, cells, columns) = (<<Mark("tr")>> \o middle) \o <<Mark("/tr")>>
  BY DEF Row
<1>4. ASSUME NEW c \in 1..n
      PROVE  middle[c] \in WellFormed /\ f[middle[c]] = g[cells[c]]
  <2>1. PICK cell \in Text : cell = cells[c]
    BY <1>2, ElementOf
  <2>2. PICK text \in Text : text = Trim(cell) /\ Ink(text) = Ink(cell)
    BY TrimInk
  <2>3. middle[c] = Element(tag, text)
    BY <1>2, <2>1, <2>2
  <2>4. PICK e \in WellFormed : e = Element(tag, text)
    BY TabularType DEF Tabular
  <2>5. e.tag \in Decorated /\ e.text = text
    BY <2>4 DEF Element, Decorated
  <2> HIDE DEF middle
  <2> QED BY <1>1, <2>1, <2>2, <2>3, <2>4, <2>5 DEF ElementInk, TextInk
<1>5. middle \in Seq(WellFormed) /\ Len(middle) = n
  BY <1>2, <1>4
<1> HIDE DEF middle
<1>6. Along(f, middle) = Along(g, cells)
  <2>1. [c \in 1..n |-> f[middle[c]]] = [c \in 1..n |-> g[cells[c]]]
    BY <1>4
  <2> QED BY <1>2, <1>5, <2>1 DEF Along
<1>7. PICK x \in WellFormed, y \in WellFormed :
         x = Mark("tr") /\ y = Mark("/tr") /\ f[x] = <<>> /\ f[y] = <<>>
  <2>1. ASSUME NEW mark \in {"tr", "/tr"}
        PROVE  Mark(mark) \in WellFormed /\ f[Mark(mark)] = <<>>
    <3>1. PICK x \in WellFormed : x = Mark(mark)
      BY TabularType DEF Tabular
    <3> QED BY <1>1, <3>1 DEF ElementInk, Mark, Decorated
  <2> QED BY <2>1
<1>8. Row(tag, cells, columns) = Enclosed(x, middle, y)
  BY <1>3, <1>7 DEF Enclosed
<1>9. Along(f, Enclosed(x, middle, y)) = Along(f, middle)
  BY <1>1, <1>5, <1>7, EnclosedInk
<1> QED BY <1>1, <1>6, <1>8, <1>9

\* A sequence that goes on to a longer one.
Continues(s, more, all) == all = s \o more

\* The rows after the separator, one after the other.
LEMMA DataRowsInk ==
  ASSUME NEW tokens \in Seq(Toks), NEW columns \in Nat, NEW b \in Nat, NEW m \in Nat,
         b + m <= Len(tokens),
         \A k \in 1..m : Len(RowCells(tokens[b + k].content)) = columns,
         NEW G \in [0..m -> Seq(Tabular)], G[0] = <<>>,
         \A k \in 1..m : G[k] = G[k - 1] \o Row("td", RowCells(tokens[b + k].content), columns)
  PROVE  Continues(First(TokenInk, tokens, b), Along(ElementInk, G[m]),
                   First(TokenInk, tokens, b + m))
<1>1. PICK f \in [WellFormed -> Seq(Words)], g \in [Toks -> Seq(Words)] :
         f = ElementInk /\ g = TokenInk
  BY InkTypes
<1>2. PICK n \in Nat : n = Len(tokens)
  BY LenProperties
<1>3. PICK start \in Seq(Words) : start = First(g, tokens, b)
  <2>1. CASE b + 1 <= n
    <3>1. First(g, tokens, b) \in Seq(Words)
      BY <1>2, <2>1, FirstMore
    <3> QED BY <3>1
  <2>2. CASE ~(b + 1 <= n)
    <3>1. b = Len(tokens)
      BY <1>2, <2>2
    <3>2. First(g, tokens, b) = Along(g, tokens)
      BY <3>1 DEF First, Along
    <3> QED BY <3>2, AlongType
  <2> QED BY <2>1, <2>2
<1> DEFINE P(k) == k <= m => First(g, tokens, b + k) = start \o Along(f, G[k])
           N == {k \in Nat : P(k)}
<1>4. 0 \in N
  <2>1. Along(f, <<>>) = <<>> /\ b + 0 = b
    BY AlongEmpty
  <2> QED BY <1>3, <2>1, ConcatEmptySeq
<1>5. ASSUME NEW k \in Nat, k \in N PROVE k + 1 \in N
  <2>1. SUFFICES ASSUME k + 1 <= m PROVE First(g, tokens, b + (k + 1)) = start \o Along(f, G[k + 1])
    <3>1. P(k + 1) => k + 1 \in N
      <4> HIDE DEF P
      <4> QED OBVIOUS
    <3> QED BY <3>1
  <2>2. k + 1 \in 1..m /\ (k + 1) - 1 = k /\ k \in 0..m /\ k <= m
    BY <2>1
  <2>3. PICK i \in Nat : /\ i = b + k /\ i + 1 = b + (k + 1)
                       /\ i + 1 <= Len(tokens) /\ i + 1 \in 1..Len(tokens)
    <3>1. b + k \in Nat /\ (b + k) + 1 = b + (k + 1) /\ (b + k) + 1 <= n /\ (b + k) + 1 \in 1..n
      BY <1>2, <2>1
    <3> QED BY <1>2, <3>1
  <2>4. PICK token \in Toks : token = tokens[i + 1]
    BY <2>3, ElementOf
  <2>5. token.content \in Text
    BY DEF Toks, Token
  <2>6. PICK cells \in Seq(Text) :
           cells = RowCells(token.content) /\ Along(TextInk, cells) = Ink(token.content)
    BY <2>5, RowCellsInk
  <2>7. Len(cells) = columns
    BY <2>2, <2>3, <2>4, <2>6
  <2>8. PICK row \in Seq(Tabular) : row = Row("td", cells, columns)
    BY RowType
  <2>9. Along(f, row) = g[token]
    <3>1. Along(ElementInk, row) = Along(TextInk, cells)
      BY <2>7, <2>8, RowInk
    <3> QED BY <1>1, <2>6, <3>1 DEF TokenInk
  <2>10. PICK out \in Seq(Tabular) : out = G[k] /\ G[k + 1] = out \o row
    BY <2>2, <2>3, <2>4, <2>6, <2>8
  <2>11. First(g, tokens, i) = start \o Along(f, out)
    BY <1>5, <2>2, <2>3, <2>10
  <2>12. out \in Seq(WellFormed) /\ row \in Seq(WellFormed)
    BY SeqMonotonic DEF Tabular
  <2>13. BothAlong(f, out, row)
    BY <2>12, BothAre
  <2>14. Along(f, out \o row) = Along(f, out) \o Along(f, row)
    BY <2>13 DEF BothAlong
  <2>15. /\ First(g, tokens, i + 1) = First(g, tokens, i) \o g[tokens[i + 1]]
         /\ First(g, tokens, i) \in Seq(Words)
    <3>1. i + 1 <= Len(tokens)
      BY <2>3
    <3> QED BY ONLY <3>1, g \in [Toks -> Seq(Words)], tokens \in Seq(Toks), i \in Nat, FirstMore
  <2>16. Along(f, out) \in Seq(Words) /\ Along(f, row) \in Seq(Words)
    BY <2>12, AlongType
  <2>17. (start \o Along(f, out)) \o Along(f, row) = start \o (Along(f, out) \o Along(f, row))
    <3>1. InARow(start, Along(f, out), Along(f, row))
      BY <2>16, InARowIs
    <3> QED BY <3>1 DEF InARow
  <2> QED BY <2>3, <2>4, <2>9, <2>10, <2>11, <2>14, <2>15, <2>17
<1> HIDE DEF N
<1>6. m \in N
  BY <1>4, <1>5, Induction
<1> QED BY <1>1, <1>3, <1>6 DEF N, Continues

\* All rows have as many cells.
Rectangular(tokens) ==
  \A i, j \in 1..Len(tokens) :
    IsCandidate(tokens[i]) /\ IsCandidate(tokens[j]) =>
      Len(RowCells(tokens[i].content)) = Len(RowCells(tokens[j].content))

\* A separator has no words.
LEMMA SeparatorInk ==
  ASSUME NEW text \in Text, \A c \in DOMAIN RowCells(text) : IsDivider(Trim(RowCells(text)[c]))
  PROVE  Ink(text) = <<>>
<1>1. PICK cells \in Seq(Text) : cells = RowCells(text) /\ Along(TextInk, cells) = Ink(text)
  BY RowCellsInk
<1>2. PICK g \in [Text -> Seq(Words)] : g = TextInk
  BY TextInkType
<1>3. ASSUME NEW c \in 1..Len(cells) PROVE g[cells[c]] = <<>>
  <2>1. PICK cell \in Text : cell = cells[c]
    BY ElementOf
  <2>2. PICK trimmed \in Text : trimmed = Trim(cell) /\ Ink(trimmed) = Ink(cell)
    BY TrimInk
  <2>3. IsDivider(trimmed)
    <3>1. c \in DOMAIN cells
      BY LenProperties
    <3> QED BY <1>1, <2>1, <2>2, <3>1
  <2>4. \A i \in 1..Len(trimmed) : trimmed[i] \notin Words
    <3>1. DOMAIN trimmed = 1..Len(trimmed)
      BY LenProperties DEF Text
    <3> QED BY <2>3, <3>1, MarksAreNoWords DEF IsDivider
  <2> QED BY <1>2, <2>1, <2>2, <2>4, InkNothing DEF TextInk
<1>4. Along(g, cells) = <<>>
  BY <1>3, AlongNothing
<1> QED BY <1>1, <1>2, <1>4

\* A table shows the words of its rows.
LEMMA TableInk ==
  ASSUME NEW tokens \in Seq(Toks), Rectangular(tokens),
         NEW i \in 1..Len(tokens), IsTable(tokens, i)
  PROVE  First(TokenInk, tokens, i - 1) \o Along(ElementInk, Table(tokens, i)) =
           First(TokenInk, tokens, RunEnd(tokens, i))
<1>1. PICK f \in [WellFormed -> Seq(Words)], g \in [Toks -> Seq(Words)] :
         f = ElementInk /\ g = TokenInk
  BY InkTypes
<1>2. PICK n \in Nat : n = Len(tokens)
  BY LenProperties
<1>3. PICK end \in (i + 1)..n : end = RunEnd(tokens, i)
  <2>1. RunEnd(tokens, i) \in (i - 1)..n
    BY <1>2, RunEndType
  <2>2. RunEnd(tokens, i) > i
    BY DEF IsTable
  <2> QED BY <1>2, <2>1, <2>2
<1> DEFINE header == RowCells(tokens[i].content)
           columns == Len(header)
           m == RunEnd(tokens, i) - i - 1
           ks == [r \in 1..m |-> i + 1 + r]
           rows == FoldLeft(LAMBDA rs, k : rs \o Row("td", RowCells(tokens[k].content), columns),
                            <<>>, ks)
           first == Row("th", header, columns)
<1>4. Table(tokens, i) = <<Mark("table")>> \o first \o rows \o <<Mark("/table")>>
  BY DEF Table
<1>5. PICK token \in Toks : token = tokens[i] /\ token.content \in Text
  <2>1. tokens[i] \in Toks
    BY ElementOf
  <2> QED BY <2>1 DEF Toks, Token
<1>6. header \in Seq(Text) /\ Along(TextInk, header) = g[token]
  BY <1>1, <1>5, RowCellsInk DEF TokenInk
<1>7. \A j \in i..end : IsCandidate(tokens[j])
  BY <1>3, RunEndRows
<1>8. \A j \in i..end : j \in 1..Len(tokens) /\ Len(RowCells(tokens[j].content)) = columns
  <2>1. \A j \in i..end : j \in 1..Len(tokens)
    BY <1>2, <1>3
  <2>2. i \in i..end
    BY <1>2, <1>3
  <2> QED BY <1>7, <2>1, <2>2 DEF Rectangular
<1> HIDE DEF header
<1>9. columns \in Nat
  BY <1>6, LenProperties
<1>10. first \in Seq(Tabular) /\ Along(f, first) = g[token]
  <2>1. first \in Seq(Tabular)
    BY <1>6, <1>9, RowType
  <2>2. Along(ElementInk, first) = Along(TextInk, header)
    BY <1>6, RowInk
  <2> HIDE DEF first
  <2> QED BY <1>1, <1>6, <2>1, <2>2
<1> HIDE DEF columns, first
<1>11. m = end - i - 1 /\ m \in Nat
  <2>1. end - i - 1 \in Nat
    BY <1>2, <1>3
  <2> QED BY <1>3, <2>1
<1> HIDE DEF m
<1>12. /\ ks \in Seq(1..Len(tokens)) /\ Len(ks) = m
       /\ \A k \in 1..m : ks[k] = i + 1 + k
  <2>1. \A r \in 1..m : i + 1 + r \in 1..n
    BY <1>2, <1>3, <1>11
  <2> QED BY <1>2, <1>11, <2>1
<1>13. PICK G \in [0..m -> Seq(Tabular)] :
          /\ G[0] = <<>>
          /\ \A k \in 1..m :
               G[k] = G[k - 1] \o Row("td", RowCells(tokens[i + 1 + k].content), columns)
          /\ rows = G[m]
  <2> HIDE DEF ks
  <2>1. PICK G \in [0..Len(ks) -> Seq(Tabular)] :
            /\ G[0] = <<>>
            /\ \A k \in 1..Len(ks) :
                  G[k] = G[k - 1] \o Row("td", RowCells(tokens[ks[k]].content), columns)
            /\ rows = G[Len(ks)]
    BY <1>9, <1>12, RowsRun
  <2> HIDE DEF rows
  <2> QED BY <1>12, <2>1
<1> HIDE DEF ks, rows
<1>14. PICK b \in Nat : b = i + 1 /\ b + m = end /\ \A k \in 1..m : b + k \in i..end
  <2>1. i + 1 \in Nat /\ (i + 1) + m = end /\ \A k \in 1..m : (i + 1) + k \in i..end
    BY <1>2, <1>3, <1>11
  <2> QED BY <2>1
<1>15. First(g, tokens, end) = First(g, tokens, b) \o Along(f, rows)
  <2>1. b + m <= Len(tokens)
    BY <1>2, <1>3, <1>14
  <2>2. \A k \in 1..m : Len(RowCells(tokens[b + k].content)) = columns
    BY <1>8, <1>14
  <2>3. \A k \in 1..m : G[k] = G[k - 1] \o Row("td", RowCells(tokens[b + k].content), columns)
    BY <1>13, <1>14
  <2>4. Continues(First(TokenInk, tokens, b), Along(ElementInk, G[m]),
                  First(TokenInk, tokens, b + m))
    BY ONLY <1>9, <1>11, <1>13, <2>1, <2>2, <2>3, tokens \in Seq(Toks), b \in Nat, DataRowsInk
  <2> QED BY <1>1, <1>13, <1>14, <2>4 DEF Continues
<1>16. PICK k \in Nat : k = i - 1 /\ k + 1 = i
  <2>1. i - 1 \in Nat /\ (i - 1) + 1 = i
    BY <1>2
  <2> QED BY <2>1
<1>17. /\ First(g, tokens, i) = First(g, tokens, k) \o g[token]
       /\ First(g, tokens, k) \in Seq(Words)
  <2>1. k + 1 <= Len(tokens)
    BY <1>2, <1>16
  <2>2. /\ First(g, tokens, k + 1) = First(g, tokens, k) \o g[tokens[k + 1]]
        /\ First(g, tokens, k) \in Seq(Words)
    BY ONLY <2>1, g \in [Toks -> Seq(Words)], tokens \in Seq(Toks), k \in Nat, FirstMore
  <2> QED BY <1>5, <1>16, <2>2
<1>18. First(g, tokens, b) = First(g, tokens, i)
  <2>1. PICK separator \in Toks : separator = tokens[b] /\ separator.content \in Text
    <3>1. b \in 1..Len(tokens)
      BY <1>2, <1>3, <1>14
    <3>2. tokens[b] \in Toks
      BY <3>1, ElementOf
    <3> QED BY <3>2 DEF Toks, Token
  <2>2. \A c \in DOMAIN RowCells(separator.content) :
           IsDivider(Trim(RowCells(separator.content)[c]))
    BY <1>14, <2>1 DEF IsTable
  <2>3. g[separator] = <<>>
    BY <1>1, <2>1, <2>2, SeparatorInk DEF TokenInk
  <2>4. PICK a \in Nat : a = i /\ a + 1 = b /\ a + 1 <= Len(tokens)
    BY <1>2, <1>3, <1>14
  <2>5. /\ First(g, tokens, a + 1) = First(g, tokens, a) \o g[tokens[a + 1]]
        /\ First(g, tokens, a) \in Seq(Words)
    <3>1. a + 1 <= Len(tokens)
      BY <2>4
    <3> QED BY ONLY <3>1, g \in [Toks -> Seq(Words)], tokens \in Seq(Toks), a \in Nat, FirstMore
  <2> QED BY <2>1, <2>3, <2>4, <2>5, ConcatEmptySeq
<1>19. rows \in Seq(Tabular)
  <2>1. m \in 0..m
    BY <1>11
  <2> QED BY <1>13, <2>1
<1>20. Along(f, Table(tokens, i)) = g[token] \o Along(f, rows)
  <2>1. PICK x \in WellFormed, y \in WellFormed :
           x = Mark("table") /\ y = Mark("/table") /\ f[x] = <<>> /\ f[y] = <<>>
    <3>1. ASSUME NEW mark \in {"table", "/table"}
          PROVE  Mark(mark) \in WellFormed /\ f[Mark(mark)] = <<>>
      <4>1. PICK x \in WellFormed : x = Mark(mark)
        BY TabularType DEF Tabular
      <4> QED BY <1>1, <4>1 DEF ElementInk, Mark, Decorated
    <3> QED BY <3>1
  <2>2. first \in Seq(WellFormed) /\ rows \in Seq(WellFormed)
    BY <1>10, <1>19, SeqMonotonic DEF Tabular
  <2>3. PICK inner \in Seq(WellFormed) : inner = first \o rows
    BY <2>2, ConcatProperties
  <2>4. Table(tokens, i) = Enclosed(x, inner, y)
    <3>1. <<x>> \in Seq(WellFormed)
      BY <2>1, OneNothing
    <3>2. InARow(<<x>>, first, rows)
      BY <2>2, <3>1, InARowIs
    <3> QED BY <1>4, <2>1, <2>3, <3>2 DEF InARow, Enclosed
  <2>5. Along(f, Enclosed(x, inner, y)) = Along(f, inner)
    BY <1>1, <2>1, EnclosedInk
  <2>6. BothAlong(f, first, rows)
    BY <2>2, BothAre
  <2> QED BY <1>10, <2>3, <2>4, <2>5, <2>6 DEF BothAlong
<1>21. (First(g, tokens, k) \o g[token]) \o Along(f, rows)
         = First(g, tokens, k) \o (g[token] \o Along(f, rows))
  <2>1. Along(f, rows) \in Seq(Words)
    <3>1. rows \in Seq(WellFormed)
      BY <1>19, SeqMonotonic DEF Tabular
    <3> QED BY <3>1, AlongType
  <2>2. g[token] \in Seq(Words)
    OBVIOUS
  <2>3. InARow(First(g, tokens, k), g[token], Along(f, rows))
    BY <1>17, <2>1, <2>2, InARowIs
  <2> QED BY <2>3 DEF InARow
<1> QED BY <1>1, <1>3, <1>15, <1>16, <1>17, <1>18, <1>20, <1>21

\* The words shown of the tokens are theirs.
LEMMA InkAgrees ==
  ASSUME NEW tokens \in Seq(Toks), Rectangular(tokens)
  PROVE  Agree(Words, ElementInk, TokenInk, tokens)
<1>1. PICK f \in [WellFormed -> Seq(Words)], g \in [Toks -> Seq(Words)] :
         f = ElementInk /\ g = TokenInk
  BY InkTypes
<1>2. ASSUME NEW tag \in ListMarks PROVE f[Mark(tag)] = <<>>
  <2>1. Mark(tag) \in WellFormed /\ Mark(tag).tag \notin Decorated
    BY MarkTypes DEF ListMarks, Mark, Decorated
  <2> QED BY <1>1, <2>1 DEF ElementInk
<1>3. ASSUME NEW token \in Toks PROVE f[ElementFor(token)] = g[token]
  <2>1. PICK x \in WellFormed : x = ElementFor(token)
    BY ElementForType
  <2>2. token.type \in TokenTypes
    BY DEF Toks, Token, TokenTypes
  <2>3. x.tag \in Decorated /\ x.text = token.content
    <3>1. CASE token.type = "code"
      <4>1. x = [tag |-> "code", text |-> token.content, language |-> token.language]
        BY <2>1, <3>1 DEF ElementFor
      <4> QED BY <4>1 DEF Decorated
    <3>2. CASE token.type # "code"
      BY <2>1, <2>2, <3>2 DEF ElementFor, Element, TokenTypes, Decorated
    <3> QED BY <3>1, <3>2
  <2> QED BY <1>1, <2>1, <2>3 DEF ElementInk, TokenInk
<1>4. \A i \in 1..Len(tokens) :
         IsTable(tokens, i) =>
           First(g, tokens, i - 1) \o Along(f, Table(tokens, i)) =
             First(g, tokens, RunEnd(tokens, i))
  BY <1>1, TableInk
<1>5. Agree(Words, f, g, tokens)
  BY <1>2, <1>3, <1>4 DEF Agree
<1> QED BY <1>1, <1>5

\* Rows of the tokens are lines of the text.
RowsAreLines(lines, tokens) ==
  \A j \in 1..Len(tokens) :
    IsCandidate(tokens[j]) => \E l \in 1..Len(lines) : tokens[j].content = lines[l]

\* Another token.
LEMMA RowsMore ==
  ASSUME NEW lines, NEW tokens \in Seq(Toks), RowsAreLines(lines, tokens), NEW token \in Toks,
         IsCandidate(token) => \E l \in 1..Len(lines) : token.content = lines[l]
  PROVE  RowsAreLines(lines, Append(tokens, token))
<1>1. PICK n \in Nat : n = Len(tokens)
  BY LenProperties
<1>2. PICK more : more = Append(tokens, token)
  OBVIOUS
<1>3. Len(more) = n + 1 /\ (\A i \in 1..n : more[i] = tokens[i]) /\ more[n + 1] = token
  BY <1>1, <1>2, AppendProperties
<1>4. ASSUME NEW j \in 1..n + 1, IsCandidate(more[j])
      PROVE  \E l \in 1..Len(lines) : more[j].content = lines[l]
  <2>1. CASE j \in 1..n
    BY <1>1, <1>3, <1>4, <2>1 DEF RowsAreLines
  <2>2. CASE j = n + 1
    BY <1>3, <1>4, <2>2
  <2> QED BY <1>4, <2>1, <2>2
<1> QED BY <1>2, <1>3, <1>4 DEF RowsAreLines

\* A buffer with the words and the pipes of a shorter one and of a line.
Holds(more, buffer, line) ==
  /\ more \in Text /\ Ink(more) = Ink(buffer) \o Ink(line)
  /\ HasTablePipe(more) => HasTablePipe(buffer) \/ HasTablePipe(line)

\* So is the buffer after the line.
LEMMA BufferInk ==
  ASSUME NEW buffer \in Text, NEW line \in Plain, NEW end \in {Break, Blank}, NEW more,
         more = (buffer \o line) \o <<end>>
  PROVE  Holds(more, buffer, line)
<1>1. line \in Text /\ line \in Seq(Piece) /\ buffer \in Seq(Piece)
  BY SeqMonotonic DEF Plain, Text
<1>2. end \in Piece /\ end \notin Words /\ end # Pipe
  BY MarksAreNoWords DEF Break, Blank, Pipe
<1>3. PICK both \in Text : both = buffer \o line /\ Ink(both) = Ink(buffer) \o Ink(line)
  BY <1>1, InkBoth
<1>4. more = Append(both, end)
  <2>1. Append(both, end) = both \o <<end>>
    BY <1>2, <1>3, AppendIsConcat DEF Text
  <2> QED BY <1>3, <2>1
<1>5. more \in Text /\ Ink(more) = Ink(both)
  BY <1>2, <1>4, InkMore
<1>6. PICK n \in Nat, m \in Nat :
         /\ n = Len(buffer) /\ m = Len(line) /\ DOMAIN buffer = 1..n /\ DOMAIN line = 1..m
  BY <1>1, LenProperties
<1>7. /\ Len(both) = n + m
      /\ \A i \in 1..n + m : both[i] = IF i <= n THEN buffer[i] ELSE line[i - n]
  BY <1>1, <1>3, <1>6, ConcatProperties
<1>8. /\ DOMAIN more = 1..(n + m) + 1 /\ more[(n + m) + 1] = end
      /\ \A i \in 1..n + m : more[i] = both[i]
  <2>1. both \in Seq(Piece)
    BY DEF Text
  <2>2. /\ Append(both, end) \in Seq(Piece) /\ Len(Append(both, end)) = (n + m) + 1
        /\ Append(both, end)[(n + m) + 1] = end
        /\ \A i \in 1..n + m : Append(both, end)[i] = both[i]
    BY <1>2, <1>7, <2>1, AppendProperties
  <2>3. DOMAIN Append(both, end) = 1..Len(Append(both, end))
    BY <2>2, LenProperties
  <2> QED BY <1>4, <2>2, <2>3
<1>9. ASSUME NEW i \in 1..(n + m) + 1, more[i] = Pipe
      PROVE  HasTablePipe(buffer) \/ HasTablePipe(line)
  <2>1. i \in 1..n + m
    BY <1>2, <1>8, <1>9
  <2>2. both[i] = Pipe
    BY <1>8, <1>9, <2>1
  <2>3. CASE i <= n
    <3>1. i \in DOMAIN buffer /\ buffer[i] = Pipe
      BY <1>6, <1>7, <2>1, <2>2, <2>3
    <3> QED BY <3>1 DEF HasTablePipe, Contains
  <2>4. CASE ~(i <= n)
    <3>1. i - n \in DOMAIN line /\ line[i - n] = Pipe
      BY <1>6, <1>7, <2>1, <2>2, <2>4
    <3> QED BY <3>1 DEF HasTablePipe, Contains
  <2> QED BY <2>3, <2>4
<1>10. HasTablePipe(more) => HasTablePipe(buffer) \/ HasTablePipe(line)
  <2>1. HasTablePipe(more) => \E i \in 1..(n + m) + 1 : more[i] = Pipe
    BY <1>8 DEF HasTablePipe, Contains
  <2> QED BY <1>9, <2>1
<1> QED BY <1>3, <1>5, <1>10 DEF Holds

\* Nothing has no pipe.
LEMMA NoPipe == ~HasTablePipe(<<>>)
BY DEF HasTablePipe, Contains

\* What is in the buffer becomes a token of it, which is no row.
LEMMA PushBufferInk ==
  ASSUME NEW lines, NEW s \in Reading, RowsAreLines(lines, s.tokens),
         NEW type \in TokenTypes, type = "code" => s.inside,
         type = "paragraph" => ~HasTablePipe(s.buffer)
  PROVE  LET r == PushBuffer(s, type)
         IN  /\ r \in Reading /\ r.buffer = <<>>
             /\ Along(TokenInk, r.tokens) = Along(TokenInk, s.tokens) \o Ink(s.buffer)
             /\ Along(TokenInk, r.tokens) \in Seq(Words)
             /\ RowsAreLines(lines, r.tokens)
<1>1. PICK g \in [Toks -> Seq(Words)] : g = TokenInk
  BY InkTypes
<1>2. PICK tokens \in Seq(Toks), buffer \in Text : tokens = s.tokens /\ buffer = s.buffer
  BY DEF Reading
<1>3. PICK r \in Reading : r = PushBuffer(s, type) /\ r.buffer = <<>>
  BY PushBufferType DEF TokenTypes
<1>4. PICK out \in Seq(Toks) : out = r.tokens
  BY DEF Reading
<1>5. Along(g, tokens) \in Seq(Words) /\ Along(g, out) \in Seq(Words)
  BY AlongType
<1>6. Along(g, out) = Along(g, tokens) \o Ink(buffer) /\ RowsAreLines(lines, out)
  <2>1. CASE buffer = <<>>
    <3>1. out = tokens
      BY <1>2, <1>3, <1>4, <2>1 DEF PushBuffer
    <3>2. Ink(buffer) = <<>>
      <4>1. \A i \in 1..Len(buffer) : buffer[i] \notin Words
        BY <2>1
      <4> QED BY <4>1, InkNothing
    <3> QED BY <1>2, <1>5, <3>1, <3>2, ConcatEmptySeq
  <2>2. CASE buffer # <<>>
    <3>1. PICK token : token = [type |-> type, content |-> buffer, language |-> s.language]
      OBVIOUS
    <3>2. /\ token \in Toks
          /\ PushBuffer(s, type) = [tokens |-> Append(tokens, token), buffer |-> <<>>,
                                    language |-> <<>>, inside |-> s.inside]
      BY <1>2, <2>2, <3>1, PushBufferTokens
    <3>3. out = Append(tokens, token)
      BY <1>3, <1>4, <3>2
    <3>4. Along(g, Append(tokens, token)) = Along(g, tokens) \o g[token]
      BY <3>2, AlongMore
    <3>5. g[token] = Ink(buffer)
      BY <1>1, <3>1, <3>2 DEF TokenInk
    <3>6. ~IsCandidate(token)
      BY <1>2, <3>1 DEF IsCandidate
    <3>7. RowsAreLines(lines, Append(tokens, token))
      BY <1>2, <3>2, <3>6, RowsMore
    <3> QED BY <3>3, <3>4, <3>5, <3>7
  <2> QED BY <2>1, <2>2
<1> QED BY <1>1, <1>2, <1>3, <1>4, <1>5, <1>6

\* The mark of a line is no word.
LEMMA TailInk ==
  ASSUME NEW line \in Plain, NEW mark \in {Hash, Bullet, Number}, StartsWith(line, mark)
  PROVE  Tail(line) \in Text /\ Ink(Tail(line)) = Ink(line)
<1>1. line \in Text /\ line # <<>> /\ line[1] = mark /\ line \in Seq(Piece)
  BY SeqMonotonic DEF Plain, Text, StartsWith
<1>2. PICK n \in Nat : n = Len(line)
  BY <1>1, LenProperties
<1>3. Tail(line) = SubSeq(line, 2, n)
  BY <1>1, <1>2, TailIsSubSeq
<1>4. \A i \in 1..Len(line) : i < 2 \/ i > n => line[i] \notin Words
  <2>1. \A i \in 1..n : i < 2 \/ i > n => i = 1
    OBVIOUS
  <2>2. mark \notin Words
    BY MarksAreNoWords
  <2> QED BY <1>1, <1>2, <2>1, <2>2
<1>5. PICK two \in Nat \ {0} : two = 2 /\ n <= Len(line)
  BY <1>2
<1>6. SubSeq(line, two, n) \in Text /\ Ink(SubSeq(line, two, n)) = Ink(line)
  <2>1. \A i \in 1..Len(line) : i < two \/ i > n => line[i] \notin Words
    BY <1>4, <1>5
  <2> QED BY ONLY <1>1, <1>5, <2>1, n \in Nat, two \in Nat \ {0}, InkWithin
<1> QED BY <1>3, <1>5, <1>6

\* A line outside of code adds its words to the tokens or to the buffer.
LEMMA ParseInk ==
  ASSUME NEW lines \in Seq(Plain), NEW s \in Reading, ~s.inside, ~HasTablePipe(s.buffer),
         RowsAreLines(lines, s.tokens), NEW l \in 1..Len(lines), NEW line \in Plain,
         line = lines[l], NEW p, p = ParseMarkdownElements(s, line)
  PROVE  /\ Along(TokenInk, p.tokens) \o Ink(p.buffer)
              = (Along(TokenInk, s.tokens) \o Ink(s.buffer)) \o Ink(line)
         /\ RowsAreLines(lines, p.tokens) /\ ~HasTablePipe(p.buffer)
<1>1. PICK g \in [Toks -> Seq(Words)] : g = TokenInk
  BY InkTypes
<1>2. PICK old \in Seq(Toks), buffer \in Text : old = s.tokens /\ buffer = s.buffer
  BY DEF Reading
<1>3. PICK r \in Reading : /\ r = PushBuffer(s, "paragraph")
                           /\ Along(TokenInk, r.tokens) = Along(TokenInk, s.tokens) \o Ink(s.buffer)
                           /\ RowsAreLines(lines, r.tokens)
  BY PushBufferInk DEF TokenTypes
<1>4. PICK tokens \in Seq(Toks) : tokens = r.tokens
  BY DEF Reading
<1>5. PICK sofar \in Seq(Words) : sofar = Along(g, old) \o Ink(buffer) /\ sofar = Along(g, tokens)
  <2>1. Along(g, tokens) \in Seq(Words)
    BY AlongType
  <2> QED BY <1>1, <1>2, <1>3, <1>4, <2>1
<1>6. Ink(<<>>) = <<>> /\ ~HasTablePipe(<<>>)
  <2>1. <<>> \in Text /\ \A i \in 1..Len(<<>>) : <<>>[i] \notin Words
    BY DEF Text
  <2> QED BY <2>1, InkNothing, NoPipe
<1>7. line \in Text
  BY SeqMonotonic DEF Plain, Text
<1>8. Ink(line) \in Seq(Words)
  BY <1>7, InkIs
<1> SUFFICES /\ Along(g, p.tokens) \o Ink(p.buffer) = sofar \o Ink(line)
             /\ RowsAreLines(lines, p.tokens) /\ ~HasTablePipe(p.buffer)
  BY <1>1, <1>2, <1>5
<1>9. ASSUME NEW token \in Toks, p.tokens = Append(tokens, token), p.buffer = <<>>,
             Ink(token.content) = Ink(line),
             IsCandidate(token) => token.content = line
      PROVE  /\ Along(g, p.tokens) \o Ink(p.buffer) = sofar \o Ink(line)
             /\ RowsAreLines(lines, p.tokens)
  <2>1. Along(g, Append(tokens, token)) = Along(g, tokens) \o g[token]
    BY AlongMore
  <2>2. g[token] = Ink(line)
    BY <1>1, <1>9 DEF TokenInk
  <2>3. Along(g, Append(tokens, token)) \in Seq(Words)
    <3>1. Append(tokens, token) \in Seq(Toks)
      BY AppendProperties
    <3> QED BY <3>1, AlongType
  <2>4. RowsAreLines(lines, Append(tokens, token))
    BY <1>3, <1>4, <1>9, RowsMore
  <2>5. Along(g, p.tokens) \o Ink(p.buffer) = Along(g, p.tokens)
    BY <1>6, <1>9, <2>3, ConcatEmptySeq
  <2> QED BY <1>5, <1>9, <2>1, <2>2, <2>4, <2>5
<1>10. ASSUME p.tokens = tokens, p.buffer = <<>>, Ink(line) = <<>>
       PROVE  /\ Along(g, p.tokens) \o Ink(p.buffer) = sofar \o Ink(line)
              /\ RowsAreLines(lines, p.tokens)
  BY <1>3, <1>4, <1>5, <1>6, <1>10
<1>11. \/ LineOfMark(s, line, p) \/ LineOfDashes(s, line, p)
       \/ LineOfRow(s, line, p) \/ LineOfWords(s, line, p)
  BY ParseTokens
<1>12. CASE LineOfMark(s, line, p)
  <2>1. PICK mark \in {Hash, Bullet, Number} : StartsWith(line, mark)
    BY <1>12 DEF LineOfMark
  <2>2. PICK content \in Text : content = Tail(line) /\ Ink(content) = Ink(line)
    BY <2>1, TailInk
  <2>3. PICK type \in {"heading", "bullet", "number"}, language \in Plain :
          LET token == [type |-> type, content |-> Tail(line), language |-> language]
          IN  /\ token \in Toks /\ p.buffer = <<>>
              /\ p.tokens = IF Tail(line) = <<>> THEN PushBuffer(s, "paragraph").tokens
                            ELSE Append(PushBuffer(s, "paragraph").tokens, token)
    BY <1>12 DEF LineOfMark
  <2>4. PICK token : token = [type |-> type, content |-> content, language |-> language]
    OBVIOUS
  <2>5. /\ token \in Toks /\ p.buffer = <<>>
        /\ p.tokens = IF content = <<>> THEN tokens ELSE Append(tokens, token)
    BY <1>3, <1>4, <2>2, <2>3, <2>4
  <2>6. token.content = content /\ ~IsCandidate(token)
    BY <2>4 DEF IsCandidate
  <2>7. CASE content = <<>>
    BY <1>6, <1>10, <2>2, <2>5, <2>7
  <2>8. CASE content # <<>>
    BY <1>6, <1>9, <2>2, <2>5, <2>6, <2>8
  <2> QED BY <2>7, <2>8
<1>13. CASE LineOfDashes(s, line, p)
  <2>1. IsDivider(line) /\ p.buffer = <<>> /\ p.tokens = tokens
    BY <1>3, <1>4, <1>13 DEF LineOfDashes
  <2>2. \A i \in 1..Len(line) : line[i] \notin Words
    <3>1. DOMAIN line = 1..Len(line)
      BY LenProperties DEF Plain
    <3> QED BY <2>1, <3>1, MarksAreNoWords DEF IsDivider
  <2>3. Ink(line) = <<>>
    BY <1>7, <2>2, InkNothing
  <2> QED BY <1>6, <1>10, <2>1, <2>3
<1>14. CASE LineOfRow(s, line, p)
  <2>1. PICK token : token = [type |-> "paragraph", content |-> line, language |-> <<>>]
    OBVIOUS
  <2>2. token \in Toks /\ p.buffer = <<>> /\ p.tokens = Append(tokens, token)
    BY <1>3, <1>4, <1>14, <2>1 DEF LineOfRow
  <2>3. token.content = line
    BY <2>1
  <2> QED BY <1>6, <1>9, <2>2, <2>3
<1>15. CASE LineOfWords(s, line, p)
  <2>1. /\ ~HasTablePipe(line) /\ p.tokens = old
        /\ p.buffer = IF line = <<>> THEN Append(buffer, Break) ELSE buffer \o line \o <<Blank>>
    BY <1>2, <1>15 DEF LineOfWords
  <2>2. PICK end \in {Break, Blank} : p.buffer = (buffer \o line) \o <<end>>
    <3>1. CASE line = <<>>
      <4>1. buffer \in Seq(Piece) /\ Break \in Piece
        BY MarksAreNoWords DEF Text
      <4>2. Append(buffer, Break) = buffer \o <<Break>> /\ buffer \o <<>> = buffer
        BY <4>1, AppendIsConcat, ConcatEmptySeq
      <4> QED BY <2>1, <3>1, <4>2
    <3>2. CASE line # <<>>
      BY <2>1, <3>2
    <3> QED BY <3>1, <3>2
  <2> DEFINE more == p.buffer
  <2>3. more \in Text /\ Ink(more) = Ink(buffer) \o Ink(line) /\ ~HasTablePipe(more)
    <3>1. ~HasTablePipe(buffer)
      BY <1>2
    <3>2. PICK x : x = more /\ x = (buffer \o line) \o <<end>>
      BY <2>2
    <3>3. Holds(x, buffer, line)
      BY <3>2, BufferInk
    <3> QED BY <2>1, <3>1, <3>2, <3>3 DEF Holds
  <2>4. Along(g, old) \in Seq(Words) /\ Ink(buffer) \in Seq(Words)
    BY AlongType, InkIs
  <2>5. (Along(g, old) \o Ink(buffer)) \o Ink(line) = Along(g, old) \o (Ink(buffer) \o Ink(line))
    <3>1. InARow(Along(g, old), Ink(buffer), Ink(line))
      BY <1>8, <2>4, InARowIs
    <3> QED BY <3>1 DEF InARow
  <2> QED BY <1>2, <1>3, <1>5, <2>1, <2>2, <2>3, <2>5
<1> QED BY <1>11, <1>12, <1>13, <1>14, <1>15

\* The words of the first lines are in the tokens and the buffer; a pipe is in the buffer
\* only in a block of code.
InkRead(lines, k, s) ==
  /\ Along(TokenInk, s.tokens) \o Ink(s.buffer) = First(LineInk, lines, k)
  /\ RowsAreLines(lines, s.tokens)
  /\ HasTablePipe(s.buffer) => s.inside /\ \E l \in 1..Len(lines) : HasTablePipe(lines[l])

\* The next line.
LEMMA InkReadNext ==
  ASSUME NEW lines \in Seq(Plain), NEW k \in Nat, k + 1 <= Len(lines),
         NEW s \in Reading, InkRead(lines, k, s)
  PROVE  InkRead(lines, k + 1, EvaluateLine(s, lines[k + 1]))
<1>1. PICK h \in [Plain -> Seq(Words)] : h = LineInk
  BY InkTypes
<1>2. PICK b \in 1..Len(lines) : b = k + 1
  <2>1. Len(lines) \in Nat
    BY LenProperties
  <2>2. k + 1 \in 1..Len(lines)
    BY <2>1
  <2> QED BY <2>2
<1>3. PICK line \in Plain : line = lines[b]
  BY ElementOf
<1>4. PICK e : e = EvaluateLine(s, line)
  OBVIOUS
<1>5. /\ First(h, lines, k + 1) = First(h, lines, k) \o h[lines[k + 1]]
      /\ First(h, lines, k) \in Seq(Words)
  BY ONLY k + 1 <= Len(lines), h \in [Plain -> Seq(Words)], lines \in Seq(Plain), k \in Nat,
          FirstMore
<1>6. PICK sofar \in Seq(Words) :
         /\ sofar = First(h, lines, k) /\ First(h, lines, b) = sofar \o h[line]
         /\ Along(TokenInk, s.tokens) \o Ink(s.buffer) = sofar
  BY <1>1, <1>2, <1>3, <1>5 DEF InkRead
<1>7. /\ RowsAreLines(lines, s.tokens)
      /\ HasTablePipe(s.buffer) => s.inside /\ \E l \in 1..Len(lines) : HasTablePipe(lines[l])
      /\ s.inside \in BOOLEAN
  BY DEF InkRead, Reading
<1>8. Ink(<<>>) = <<>> /\ ~HasTablePipe(<<>>)
  <2>1. <<>> \in Text /\ \A i \in 1..Len(<<>>) : <<>>[i] \notin Words
    BY DEF Text
  <2> QED BY <2>1, InkNothing, NoPipe
<1>9. h[line] = IF StartsWith(line, Fence) THEN <<>> ELSE Ink(line)
  BY <1>1 DEF LineInk
<1> SUFFICES /\ Along(TokenInk, e.tokens) \o Ink(e.buffer) = sofar \o h[line]
             /\ RowsAreLines(lines, e.tokens)
             /\ HasTablePipe(e.buffer) =>
                  e.inside /\ \E l \in 1..Len(lines) : HasTablePipe(lines[l])
  BY <1>1, <1>2, <1>3, <1>4, <1>6 DEF InkRead
<1>10. CASE StartsWith(line, Fence)
  <2>1. PICK type \in {"code", "paragraph"} : /\ type = IF s.inside THEN "code" ELSE "paragraph"
                                              /\ type = "code" => s.inside
                                              /\ type = "paragraph" => ~s.inside
    BY <1>7
  <2>2. PICK r \in Reading : /\ r = PushBuffer(s, type) /\ r.buffer = <<>>
                             /\ Along(TokenInk, r.tokens) = sofar /\ RowsAreLines(lines, r.tokens)
    <3>1. type \in TokenTypes /\ (type = "paragraph" => ~HasTablePipe(s.buffer))
      BY <1>7, <2>1 DEF TokenTypes
    <3> QED BY <1>6, <1>7, <2>1, <3>1, PushBufferInk
  <2>3. e.tokens = r.tokens /\ e.buffer = <<>>
    <3>1. CASE s.inside
      <4>1. e = [r EXCEPT !.inside = FALSE]
        BY <1>4, <1>10, <2>1, <2>2, <3>1 DEF EvaluateLine
      <4> QED BY <2>2, <4>1 DEF Reading
    <3>2. CASE ~s.inside
      <4>1. e = [r EXCEPT !.inside = TRUE, !.language = Trim(Tail(line))]
        BY <1>4, <1>10, <2>1, <2>2, <3>2 DEF EvaluateLine
      <4> QED BY <2>2, <4>1 DEF Reading
    <3> QED BY <3>1, <3>2
  <2> QED BY <1>8, <1>9, <1>10, <2>2, <2>3
<1>11. CASE ~StartsWith(line, Fence) /\ s.inside
  <2>1. PICK tokens \in Seq(Toks), buffer \in Text : tokens = s.tokens /\ buffer = s.buffer
    BY DEF Reading
  <2>2. PICK more : more = buffer \o line \o <<Break>>
    OBVIOUS
  <2>3. /\ more \in Text /\ Ink(more) = Ink(buffer) \o Ink(line)
        /\ HasTablePipe(more) => HasTablePipe(buffer) \/ HasTablePipe(line)
    <3>1. Holds(more, buffer, line)
      BY <2>2, BufferInk
    <3> QED BY <3>1 DEF Holds
  <2>4. e = [s EXCEPT !.buffer = more]
    BY <1>4, <1>11, <2>1, <2>2 DEF EvaluateLine, CodeLine
  <2>5. e.tokens = tokens /\ e.buffer = more /\ e.inside = s.inside
    BY <2>1, <2>4 DEF Reading
  <2>6. PICK before \in Seq(Words) : before = Along(TokenInk, tokens)
    <3>1. PICK g \in [Toks -> Seq(Words)] : g = TokenInk
      BY InkTypes
    <3>2. Along(g, tokens) \in Seq(Words)
      BY AlongType
    <3> QED BY <3>1, <3>2
  <2>7. line \in Text
    BY SeqMonotonic DEF Plain, Text
  <2>8. Ink(buffer) \in Seq(Words) /\ Ink(line) \in Seq(Words)
    BY <2>7, InkIs
  <2>9. (before \o Ink(buffer)) \o Ink(line) = before \o (Ink(buffer) \o Ink(line))
    <3>1. InARow(before, Ink(buffer), Ink(line))
      BY <2>8, InARowIs
    <3> QED BY <3>1 DEF InARow
  <2> QED BY <1>3, <1>6, <1>7, <1>9, <1>11, <2>1, <2>3, <2>5, <2>6, <2>9
<1>12. CASE ~StartsWith(line, Fence) /\ ~s.inside
  <2>1. e = ParseMarkdownElements(s, line)
    BY <1>4, <1>12 DEF EvaluateLine
  <2>2. /\ Along(TokenInk, e.tokens) \o Ink(e.buffer)
             = (Along(TokenInk, s.tokens) \o Ink(s.buffer)) \o Ink(line)
        /\ RowsAreLines(lines, e.tokens) /\ ~HasTablePipe(e.buffer)
    BY <1>3, <1>7, <1>12, <2>1, ParseInk
  <2> QED BY <1>6, <1>9, <1>12, <2>2
<1> QED BY <1>7, <1>10, <1>11, <1>12

\* All lines: unless a row stands in a block that is left open, the words of the tokens are
\* those of the lines.
LEMMA TokenizeInk ==
  ASSUME NEW text \in Text, NEW lines \in Seq(Plain), lines = Lines(text),
         ~CodeOpen(lines, Len(lines) + 1) \/ \A l \in 1..Len(lines) : ~HasTablePipe(lines[l])
  PROVE  /\ Along(TokenInk, Tokenize(text)) = First(LineInk, lines, Len(lines))
         /\ RowsAreLines(lines, Tokenize(text))
<1>1. PICK n \in Nat : n = Len(lines) /\ n \in 0..n /\ 0 \in 0..n
  BY LenProperties
<1>2. PICK G \in [0..n -> Reading] :
         /\ G[0].tokens = <<>> /\ G[0].buffer = <<>>
         /\ \A k \in 1..n : G[k] = EvaluateLine(G[k - 1], lines[k])
         /\ \A k \in 0..n : CodeRead(lines, k, G[k])
         /\ Tokenize(text) = PushBuffer(G[n], "paragraph").tokens
  BY <1>1, TokenizeReads
<1> DEFINE N == {k \in Nat : k <= n => InkRead(lines, k, G[k])}
<1>3. 0 \in N
  <2>1. Ink(<<>>) = <<>> /\ ~HasTablePipe(<<>>)
    <3>1. <<>> \in Text /\ \A i \in 1..Len(<<>>) : <<>>[i] \notin Words
      BY DEF Text
    <3> QED BY <3>1, InkNothing, NoPipe
  <2>2. Along(TokenInk, <<>>) = <<>>
    BY AlongEmpty
  <2>3. First(LineInk, lines, 0) = <<>>
    <3>1. [i \in 1..0 |-> LineInk[lines[i]]] = <<>>
      OBVIOUS
    <3> QED BY <3>1, FlattenNone DEF First
  <2>4. RowsAreLines(lines, <<>>)
    <3>1. Len(<<>>) = 0 /\ 1..0 = {}
      OBVIOUS
    <3> QED BY <3>1 DEF RowsAreLines
  <2>5. <<>> \o <<>> = <<>>
    OBVIOUS
  <2>6. InkRead(lines, 0, G[0])
    BY <1>2, <2>1, <2>2, <2>3, <2>4, <2>5 DEF InkRead
  <2> QED BY <2>6
<1>4. ASSUME NEW k \in Nat, k \in N PROVE k + 1 \in N
  <2>1. SUFFICES ASSUME k + 1 <= n PROVE InkRead(lines, k + 1, G[k + 1])
    OBVIOUS
  <2>2. InkRead(lines, k, G[k]) /\ k + 1 \in 1..n /\ (k + 1) - 1 = k /\ k \in 0..n
    BY <1>4, <2>1
  <2>3. PICK s \in Reading : s = G[k] /\ G[k + 1] = EvaluateLine(s, lines[k + 1])
    BY <1>2, <2>2
  <2> QED BY <1>1, <2>1, <2>2, <2>3, InkReadNext
<1> HIDE DEF N
<1>5. n \in N
  BY <1>3, <1>4, Induction
<1>6. PICK r \in Reading : r = G[n] /\ InkRead(lines, n, r) /\ CodeRead(lines, n, r)
  BY <1>1, <1>2, <1>5 DEF N
<1>7. ~HasTablePipe(r.buffer)
  <2>1. r.inside <=> CodeOpen(lines, n + 1)
    BY <1>6 DEF CodeRead
  <2> QED BY <1>1, <1>6, <2>1 DEF InkRead
<1>8. /\ Along(TokenInk, r.tokens) \o Ink(r.buffer) = First(LineInk, lines, n)
      /\ RowsAreLines(lines, r.tokens)
  BY <1>6 DEF InkRead
<1>9. PICK q : /\ q = PushBuffer(r, "paragraph")
               /\ Along(TokenInk, q.tokens) = Along(TokenInk, r.tokens) \o Ink(r.buffer)
               /\ RowsAreLines(lines, q.tokens)
  BY <1>7, <1>8, PushBufferInk DEF TokenTypes
<1> QED BY <1>1, <1>2, <1>6, <1>8, <1>9

\* The words of the elements are those of the lines, where rows are of one length and none
\* is in a block of code that is left open.
LEMMA ElementsInk ==
  ASSUME NEW text \in Text, NEW lines \in Seq(Plain), lines = Lines(text),
         ~CodeOpen(lines, Len(lines) + 1) \/ \A l \in 1..Len(lines) : ~HasTablePipe(lines[l]),
         \A l, m \in 1..Len(lines) :
           HasTablePipe(lines[l]) /\ HasTablePipe(lines[m]) =>
             Len(RowCells(lines[l])) = Len(RowCells(lines[m]))
  PROVE  Along(ElementInk, Elements(text)) = First(LineInk, lines, Len(lines))
<1>1. PICK tokens \in Seq(Toks) : tokens = Tokenize(text)
  BY TokenizeType
<1>2. /\ Along(TokenInk, tokens) = First(LineInk, lines, Len(lines))
      /\ RowsAreLines(lines, tokens)
  BY <1>1, TokenizeInk
<1>3. Rectangular(tokens)
  <2>1. ASSUME NEW i \in 1..Len(tokens), NEW j \in 1..Len(tokens),
               IsCandidate(tokens[i]), IsCandidate(tokens[j])
        PROVE  Len(RowCells(tokens[i].content)) = Len(RowCells(tokens[j].content))
    <3>1. PICK l \in 1..Len(lines) : tokens[i].content = lines[l]
      BY <1>2, <2>1 DEF RowsAreLines
    <3>2. PICK m \in 1..Len(lines) : tokens[j].content = lines[m]
      BY <1>2, <2>1 DEF RowsAreLines
    <3>3. HasTablePipe(lines[l]) /\ HasTablePipe(lines[m])
      BY <2>1, <3>1, <3>2 DEF IsCandidate
    <3> QED BY <3>1, <3>2, <3>3
  <2> QED BY <2>1 DEF Rectangular
<1>4. Along(ElementInk, Emit(tokens)) = Along(TokenInk, tokens)
  BY <1>3, InkAgrees, EmitShows
<1> QED BY <1>1, <1>2, <1>4 DEF Elements

\* The words of a page are those of the elements it is drawn from.
LEMMA PageInkIs ==
  ASSUME NEW page, NEW i, NEW b, Showing(page, i, b)
  PROVE  PageInk(page.page) = Along(ElementInk, Elements(page.text))
<1>1. PICK text \in Text : text = page.text
  BY DEF Showing
<1>2. PICK es \in Seq(WellFormed) : es = Elements(text)
  BY ElementsType DEF Well
<1>3. PICK n \in Nat : n = Len(es)
  BY LenProperties
<1>4. PICK p : /\ p = page.page
               /\ p = [k \in 1..n |-> Drawn(es[k], page.theme)]
  BY <1>1, <1>2, <1>3 DEF Showing, PageOf
<1>5. ASSUME NEW k \in 1..n
      PROVE  (IF p[k].tag \in Decorated THEN Ink(p[k].html.text) ELSE <<>>) = ElementInk[es[k]]
  <2>1. PICK e \in WellFormed : e = es[k]
    BY <1>3, ElementOf
  <2>2. PICK d : d = Drawn(e, page.theme)
    OBVIOUS
  <2>3. d.tag = e.tag
    BY <2>2 DEF Drawn
  <2>4. d.tag \in Decorated => d.html.text = e.text
    <3>1. SUFFICES ASSUME d.tag \in Decorated PROVE d.html.text = e.text
      OBVIOUS
    <3>2. d = [tag |-> e.tag, html |-> Fragment(e, page.theme)]
      BY <2>2, <2>3, <3>1 DEF Drawn
    <3>3. d.html = Fragment(e, page.theme)
      BY <3>2
    <3>4. Fragment(e, page.theme).text = e.text
      BY DEF Fragment
    <3> QED BY <3>3, <3>4
  <2>5. p[k] = d
    BY <1>4, <2>1, <2>2
  <2> QED BY <2>1, <2>3, <2>4, <2>5 DEF ElementInk
<1>6. [k \in DOMAIN p |-> IF p[k].tag \in Decorated THEN Ink(p[k].html.text) ELSE <<>>]
        = [k \in 1..Len(es) |-> ElementInk[es[k]]]
  <2>1. DOMAIN p = 1..n
    BY <1>4
  <2> QED BY <1>3, <1>5, <2>1
<1>7. PageInk(p) = Along(ElementInk, es)
  BY <1>6 DEF PageInk, Along
<1> QED BY <1>1, <1>2, <1>4, <1>7

\* No word is lost, repeated or moved.
LEMMA PageWords ==
  ASSUME NEW page, NEW i, NEW b, Showing(page, i, b), NEW lines, lines = Lines(page.text)
  PROVE  LET rows == {l \in ToSet(lines) : HasTablePipe(l)}
         IN  \/ \E l, m \in rows : Len(RowCells(l)) # Len(RowCells(m))
             \/ rows # {} /\ CodeOpen(lines, Len(lines) + 1)
             \/ PageInk(page.page) =
                  FlattenSeq([k \in DOMAIN lines |->
                                IF StartsWith(lines[k], Fence) THEN <<>> ELSE Ink(lines[k])])
<1> DEFINE rows == {l \in ToSet(lines) : HasTablePipe(l)}
<1> SUFFICES ASSUME ~(\E l, m \in rows : Len(RowCells(l)) # Len(RowCells(m))),
                    ~(rows # {} /\ CodeOpen(lines, Len(lines) + 1))
             PROVE  PageInk(page.page) =
                      FlattenSeq([k \in DOMAIN lines |->
                                    IF StartsWith(lines[k], Fence) THEN <<>> ELSE Ink(lines[k])])
  OBVIOUS
<1>1. PICK text \in Text : text = page.text
  BY DEF Showing
<1>2. lines \in Seq(Plain)
  BY <1>1, LinesType
<1>3. DOMAIN lines = 1..Len(lines) /\ \A k \in 1..Len(lines) : lines[k] \in Plain
  BY <1>2, LenProperties, ElementOf
<1>4. \A l \in 1..Len(lines) : HasTablePipe(lines[l]) => lines[l] \in rows
  BY <1>3 DEF ToSet
<1> HIDE DEF rows
<1>5. ~CodeOpen(lines, Len(lines) + 1) \/ \A l \in 1..Len(lines) : ~HasTablePipe(lines[l])
  BY <1>4
<1>6. \A l, m \in 1..Len(lines) :
         HasTablePipe(lines[l]) /\ HasTablePipe(lines[m]) =>
           Len(RowCells(lines[l])) = Len(RowCells(lines[m]))
  BY <1>4
<1>7. Along(ElementInk, Elements(text)) = First(LineInk, lines, Len(lines))
  BY <1>1, <1>2, <1>5, <1>6, ElementsInk
<1>8. [k \in DOMAIN lines |-> IF StartsWith(lines[k], Fence) THEN <<>> ELSE Ink(lines[k])]
        = [k \in 1..Len(lines) |-> LineInk[lines[k]]]
  BY <1>3 DEF LineInk
<1> QED BY <1>1, <1>7, <1>8, PageInkIs DEF First

\* No word of the transcript is lost, repeated or moved on the way to the page, whatever it
\* holds and wherever a token cuts it, where rows have the same length and, if there are
\* any, every fence is closed.
THEOREM TextStaysKept == Spec => []TextKept
<1>1. ShowingInvariant => TextKept
  BY PageWords DEF ShowingInvariant, TextKept
<1> QED BY <1>1, InvariantHolds, PTL
=============================================================================
