--------------------------- MODULE StreamWorkerProofs ---------------------------
(***************************************************************************)
(* Proofs about StreamWorker, in two parts.                                *)
(*                                                                         *)
(* The first is about Client alone, the contract of Generation: it holds   *)
(* whoever implements it, and DesktopProofs takes it from here.  The       *)
(* second is about the filter: that the callbacks tell of every answer     *)
(* what ShownAsSet says, by induction over the tokens and over the events  *)
(* of one step.                                                            *)
(***************************************************************************)
EXTENDS StreamWorker, FiniteSetTheorems, SequenceTheorems, TLAPS

\* Task t has posted its final event in s; no task posts after its final event.
Ended(s, t) == \E i \in 1..Len(s) : s[i].task = t /\ s[i].final
Closed(s) ==
  \A i, j \in 1..Len(s) : i < j /\ s[i].task = s[j].task => ~s[i].final

Inductive ==
  /\ phase \in [Task -> Client!Phases]
  /\ prompt \in [Task -> Prompt \cup {NoPrompt}]
  /\ said \in [Task -> Seq(Word)]
  /\ posted \in Seq(Client!Events)
  /\ remembered \subseteq [key : {CacheKey[p] : p \in Prompt}, text : Seq(Word)]
  /\ \A t \in Task : phase[t] # "idle" => prompt[t] \in Prompt
  /\ Client!OneStream
  /\ Closed(posted)
  /\ \A t \in Task : Ended(posted, t) <=> phase[t] = "settled"

-----------------------------------------------------------------------------
\* The events a task can post are events.
LEMMA EventTypes ==
  ASSUME NEW t \in Task
  PROVE  /\ Client!Final(t) \in Client!Events /\ Client!Final(t).task = t /\ Client!Final(t).final
         /\ \A text \in Client!Text : /\ Client!Token(t, text) \in Client!Events
                               /\ Client!Token(t, text).task = t /\ ~Client!Token(t, text).final
         /\ <<>> \in Client!Text /\ <<Notice>> \in Client!Text
         /\ \A s \in Seq(Word) : s \in Client!Text
BY DEF Client!Final, Client!Token, Client!Events, Client!Text

\* One more event of a task that has not ended.
LEMMA PostOne ==
  ASSUME NEW s \in Seq(Client!Events), Closed(s), NEW e \in Client!Events, ~Ended(s, e.task)
  PROVE  /\ Append(s, e) \in Seq(Client!Events)
         /\ Closed(Append(s, e))
         /\ \A u : Ended(Append(s, e), u) <=> Ended(s, u) \/ (u = e.task /\ e.final)
<1> DEFINE a == Append(s, e)
<1>1. /\ a \in Seq(Client!Events) /\ Len(s) \in Nat /\ Len(a) = Len(s) + 1
      /\ \A i \in 1..Len(s) : a[i] = s[i]
      /\ a[Len(s) + 1] = e
  BY AppendProperties, LenProperties
<1> HIDE DEF a
<1>2. \A i \in 1..Len(a) : i \in 1..Len(s) \/ i = Len(s) + 1
  BY <1>1
<1>3. \A i \in 1..Len(s) : i \in 1..Len(a)
  BY <1>1
<1>4. Closed(a)
  <2> SUFFICES ASSUME NEW i \in 1..Len(a), NEW j \in 1..Len(a), i < j, a[i].task = a[j].task
               PROVE  ~a[i].final
    BY DEF Closed
  <2>1. i \in 1..Len(s) /\ a[i] = s[i]
    BY <1>1, <1>2
  <2>2. CASE j \in 1..Len(s)
    BY <1>1, <2>1, <2>2 DEF Closed
  <2>3. CASE j = Len(s) + 1
    BY <1>1, <2>1, <2>3 DEF Ended
  <2> QED BY <1>2, <2>2, <2>3
<1>5. ASSUME NEW u
      PROVE  Ended(a, u) <=> Ended(s, u) \/ (u = e.task /\ e.final)
  <2>1. Ended(s, u) => Ended(a, u)
    BY <1>1, <1>3 DEF Ended
  <2>2. u = e.task /\ e.final => Ended(a, u)
    <3>1. Len(s) + 1 \in 1..Len(a)
      BY <1>1
    <3> QED BY <1>1, <3>1 DEF Ended
  <2>3. Ended(a, u) => Ended(s, u) \/ (u = e.task /\ e.final)
    BY <1>1, <1>2 DEF Ended
  <2> QED BY <2>1, <2>2, <2>3
<1> QED BY <1>1, <1>4, <1>5 DEF a

\* Some event that is not final, then the final one.
LEMMA PostTwo ==
  ASSUME NEW s \in Seq(Client!Events), Closed(s), NEW t \in Task, ~Ended(s, t),
         NEW text \in Client!Text
  PROVE  LET a == Append(Append(s, Client!Token(t, text)), Client!Final(t)) IN
         /\ a \in Seq(Client!Events) /\ Closed(a)
         /\ \A u : Ended(a, u) <=> Ended(s, u) \/ u = t
<1> DEFINE m == Append(s, Client!Token(t, text))
<1>1. /\ m \in Seq(Client!Events) /\ Closed(m) /\ \A u : Ended(m, u) <=> Ended(s, u)
  BY EventTypes, PostOne
<1> HIDE DEF m
<1>2. /\ Append(m, Client!Final(t)) \in Seq(Client!Events) /\ Closed(Append(m, Client!Final(t)))
      /\ \A u : Ended(Append(m, Client!Final(t)), u) <=> Ended(m, u) \/ u = t
  BY <1>1, EventTypes, PostOne
<1> QED BY <1>1, <1>2 DEF m

-----------------------------------------------------------------------------
(* The queue only grows, and final events say nothing. *)

Silent(s) == \A i \in 1..Len(s) : s[i].final => s[i].text = <<>>

\* new is old with more events after it.
Grown(old, new) ==
  /\ new \in Seq(Client!Events) /\ Silent(new)
  /\ Len(old) \in Nat /\ Len(new) \in Nat /\ Len(old) <= Len(new)
  /\ \A i \in 1..Len(old) : new[i] = old[i]

\* All that is new was posted by task t.
AddedBy(t, old, new) == \A i \in 1..Len(new) : i > Len(old) => new[i].task = t

\* One more event, which says nothing if it is final.
LEMMA GrownByOne ==
  ASSUME NEW s \in Seq(Client!Events), Silent(s), NEW e \in Client!Events, e.final => e.text = <<>>
  PROVE  Grown(s, Append(s, e)) /\ AddedBy(e.task, s, Append(s, e))
<1> DEFINE a == Append(s, e)
<1>1. /\ a \in Seq(Client!Events) /\ Len(s) \in Nat /\ Len(a) = Len(s) + 1
      /\ \A i \in 1..Len(s) : a[i] = s[i]
      /\ a[Len(s) + 1] = e
  BY AppendProperties, LenProperties
<1> HIDE DEF a
<1>2. \A i \in 1..Len(a) : i \in 1..Len(s) \/ i = Len(s) + 1
  BY <1>1
<1>3. Silent(a)
  BY <1>1, <1>2 DEF Silent
<1>4. Len(a) \in Nat /\ Len(s) <= Len(a)
  BY <1>1
<1>5. AddedBy(e.task, s, a)
  BY <1>1, <1>2 DEF AddedBy
<1> QED BY <1>1, <1>3, <1>4, <1>5 DEF Grown, a

\* More events of the same task after them.
LEMMA GrownAgain ==
  ASSUME NEW s, NEW a, NEW b, Grown(s, a), Grown(a, b),
         NEW t, AddedBy(t, s, a), AddedBy(t, a, b)
  PROVE  Grown(s, b) /\ AddedBy(t, s, b)
BY DEF Grown, AddedBy

\* A step of the worker thread posts events of its task only, after all of the others.
LEMMA WorkGrows ==
  ASSUME Inductive, Silent(posted), NEW t \in Task, Client!Work(t)
  PROVE  Grown(posted, posted') /\ AddedBy(t, posted, posted')
<1> DEFINE Goal == Grown(posted, posted') /\ AddedBy(t, posted, posted')
<1> SUFFICES Goal
  OBVIOUS
<1>1. /\ posted \in Seq(Client!Events)
      /\ remembered \subseteq [key : {CacheKey[p] : p \in Prompt}, text : Seq(Word)]
  BY DEF Inductive
<1>2. Client!Final(t) \in Client!Events /\ Client!Final(t).text = <<>> /\ Client!Final(t).task = t
  BY EventTypes DEF Client!Final
<1>3. \A text \in Client!Text :
        /\ Client!Token(t, text) \in Client!Events
        /\ ~Client!Token(t, text).final /\ Client!Token(t, text).task = t
  BY EventTypes
<1>4. ASSUME NEW text \in Client!Text,
             posted' = Append(Append(posted, Client!Token(t, text)), Client!Final(t))
      PROVE  Goal
  <2> DEFINE m == Append(posted, Client!Token(t, text))
  <2>1. Grown(posted, m) /\ AddedBy(t, posted, m)
    BY <1>1, <1>3, GrownByOne
  <2> HIDE DEF m
  <2>2. m \in Seq(Client!Events) /\ Silent(m)
    BY <2>1 DEF Grown
  <2>3. Grown(m, Append(m, Client!Final(t))) /\ AddedBy(t, m, Append(m, Client!Final(t)))
    BY <1>2, <2>2, GrownByOne
  <2> QED BY <1>4, <2>1, <2>3, GrownAgain DEF m
<1>5. CASE Client!Refuse(t)
  BY <1>1, <1>2, <1>5, GrownByOne DEF Client!Refuse
<1>6. CASE Client!Replay(t)
  <2>1. PICK r \in remembered :
          posted' = Append(Append(posted, Client!Token(t, r.text)), Client!Final(t))
    BY <1>6 DEF Client!Replay
  <2>2. r.text \in Client!Text
    BY <1>1, EventTypes
  <2> QED BY <1>4, <2>1, <2>2
<1>7. CASE Client!Begin(t)
  BY <1>1, <1>7, LenProperties DEF Client!Begin, Grown, AddedBy
<1>8. CASE Client!Settle(t)
  <2>1. PICK closing \in {<<>>, <<Client!Token(t, <<Notice>>)>>} :
          posted' = (posted \o closing) \o <<Client!Final(t)>>
    BY <1>8 DEF Client!Settle
  <2>2. CASE closing = <<>>
    <3>1. posted' = Append(posted, Client!Final(t))
      BY <1>1, <1>2, <2>1, <2>2, AppendIsConcat, ConcatEmptySeq
    <3> QED BY <1>1, <1>2, <3>1, GrownByOne
  <2>3. CASE closing = <<Client!Token(t, <<Notice>>)>>
    <3>1. Client!Token(t, <<Notice>>) \in Client!Events /\ <<Notice>> \in Client!Text
      BY EventTypes
    <3>2. posted \o closing = Append(posted, Client!Token(t, <<Notice>>))
      BY <1>1, <2>3, <3>1, AppendIsConcat
    <3>3. Append(posted, Client!Token(t, <<Notice>>)) \in Seq(Client!Events)
      BY <1>1, <3>1, AppendProperties
    <3>4. posted' = Append(Append(posted, Client!Token(t, <<Notice>>)), Client!Final(t))
      BY <1>2, <2>1, <3>2, <3>3, AppendIsConcat
    <3> QED BY <1>4, <3>1, <3>4
  <2> QED BY <2>1, <2>2, <2>3
<1>9. ASSUME NEW text \in {<<>>} \cup {<<w>> : w \in Word}, Client!Emit(t, text)
      PROVE  Goal
  <2>1. text \in Seq(Word)
    <3>1. <<>> \in Seq(Word) /\ \A w \in Word : <<w>> \in Seq(Word)
      OBVIOUS
    <3> QED BY <3>1
  <2>2. text \in Client!Text
    BY <2>1, EventTypes
  <2>3. /\ Client!Token(t, text) \in Client!Events
        /\ ~Client!Token(t, text).final /\ Client!Token(t, text).task = t
    BY <1>3, <2>2
  <2>4. posted' = Append(posted, Client!Token(t, text))
    BY <1>9 DEF Client!Emit
  <2> QED BY <1>1, <2>3, <2>4, GrownByOne
<1> QED BY <1>5, <1>6, <1>7, <1>8, <1>9 DEF Client!Work

-----------------------------------------------------------------------------
\* No task is there at the start.
LEMMA InductiveInit == Client!Init => Inductive
BY DEF Client!Init, Inductive, Client!Phases, Client!OneStream, Closed, Ended

\* The worker opens one stream at a time and posts the final event when a task settles.
LEMMA InductiveStep ==
  ASSUME Inductive, [Client!Next]_(Client!vars)
  PROVE  Inductive'
<1> USE DEF Inductive
<1>1. ASSUME NEW t \in Task, NEW p \in Prompt, Client!Submit(t, p)
      PROVE  Inductive'
  BY <1>1 DEF Client!Submit, Client!Phases, Client!OneStream
<1>2. ASSUME NEW t \in Task, Client!Refuse(t)
      PROVE  Inductive'
  <2>1. /\ posted' \in Seq(Client!Events) /\ Closed(posted')
        /\ \A u : Ended(posted', u) <=> Ended(posted, u) \/ u = t
    BY <1>2, EventTypes, PostOne DEF Client!Refuse
  <2> QED BY <1>2, <2>1 DEF Client!Refuse, Client!Phases, Client!OneStream
<1>3. ASSUME NEW t \in Task, Client!Replay(t)
      PROVE  Inductive'
  <2>1. PICK r \in remembered :
          posted' = Append(Append(posted, Client!Token(t, r.text)), Client!Final(t))
    BY <1>3 DEF Client!Replay
  <2>2. r.text \in Client!Text
    BY EventTypes
  <2>3. ~Ended(posted, t)
    BY <1>3 DEF Client!Replay
  <2>4. /\ posted' \in Seq(Client!Events) /\ Closed(posted')
        /\ \A u : Ended(posted', u) <=> Ended(posted, u) \/ u = t
    BY <2>1, <2>2, <2>3, PostTwo
  <2> QED BY <1>3, <2>4 DEF Client!Replay, Client!Phases, Client!OneStream
<1>4. ASSUME NEW t \in Task, Client!Begin(t)
      PROVE  Inductive'
  <2>1. Client!OneStream'
    BY <1>4 DEF Client!Begin, Client!OneStream, Client!StreamOpen
  <2> QED BY <1>4, <2>1 DEF Client!Begin, Client!Phases
<1>5. ASSUME NEW t \in Task, NEW text \in {<<>>} \cup {<<w>> : w \in Word}, Client!Emit(t, text)
      PROVE  Inductive'
  <2>1. text \in Seq(Word)
    <3>1. <<>> \in Seq(Word)
      OBVIOUS
    <3>2. \A w \in Word : <<w>> \in Seq(Word)
      OBVIOUS
    <3> QED BY <3>1, <3>2
  <2> DEFINE e == Client!Token(t, text)
  <2>5. e \in Client!Events /\ e.task = t /\ ~e.final
    BY <2>1, EventTypes
  <2>6. ~Ended(posted, t) /\ posted' = Append(posted, e)
    BY <1>5 DEF Client!Emit
  <2> HIDE DEF e
  <2>2. /\ posted' \in Seq(Client!Events) /\ Closed(posted')
        /\ \A u : Ended(posted', u) <=> Ended(posted, u)
    BY <2>5, <2>6, PostOne
  <2>3. said' \in [Task -> Seq(Word)]
    <3>1. said[t] \o text \in Seq(Word)
      BY <2>1, ConcatProperties
    <3> QED BY <1>5, <3>1 DEF Client!Emit
  <2> QED BY <1>5, <2>2, <2>3 DEF Client!Emit, Client!OneStream
<1>6. ASSUME NEW t \in Task, Client!Settle(t)
      PROVE  Inductive'
  <2>1. PICK closing \in {<<>>, <<Client!Token(t, <<Notice>>)>>} :
          posted' = (posted \o closing) \o <<Client!Final(t)>>
    BY <1>6 DEF Client!Settle
  <2>2. ~Ended(posted, t)
    BY <1>6 DEF Client!Settle
  <2>3. /\ posted' \in Seq(Client!Events) /\ Closed(posted')
        /\ \A u : Ended(posted', u) <=> Ended(posted, u) \/ u = t
    <3>1. CASE closing = <<>>
      <4>1. posted' = Append(posted, Client!Final(t))
        BY <2>1, <3>1, EventTypes, AppendIsConcat, ConcatEmptySeq
      <4> QED BY <2>2, <4>1, EventTypes, PostOne
    <3>2. CASE closing = <<Client!Token(t, <<Notice>>)>>
      <4>1. /\ Client!Token(t, <<Notice>>) \in Client!Events /\ Client!Final(t) \in Client!Events
            /\ <<Notice>> \in Client!Text
        BY EventTypes
      <4>2. posted \o closing = Append(posted, Client!Token(t, <<Notice>>))
        BY <3>2, <4>1, AppendIsConcat
      <4>3. Append(posted, Client!Token(t, <<Notice>>)) \in Seq(Client!Events)
        BY <4>1, AppendProperties
      <4>4. posted' = Append(Append(posted, Client!Token(t, <<Notice>>)), Client!Final(t))
        BY <2>1, <4>1, <4>2, <4>3, AppendIsConcat
      <4> QED BY <2>2, <4>1, <4>4, PostTwo
    <3> QED BY <3>1, <3>2
  <2>4. remembered' \subseteq [key : {CacheKey[p] : p \in Prompt}, text : Seq(Word)]
    <3>1. prompt[t] \in Prompt
      BY <1>6 DEF Client!Settle
    <3>2. [key |-> CacheKey[prompt[t]], text |-> said[t]]
            \in [key : {CacheKey[p] : p \in Prompt}, text : Seq(Word)]
      BY <3>1
    <3> QED BY <1>6, <3>2 DEF Client!Settle
  <2> QED BY <1>6, <2>3, <2>4 DEF Client!Settle, Client!Phases, Client!OneStream
<1>7. CASE UNCHANGED Client!vars
  BY <1>7 DEF Client!vars, Client!OneStream, Closed, Ended
<1> QED BY <1>1, <1>2, <1>3, <1>4, <1>5, <1>6, <1>7 DEF Client!Next, Client!Work

\* What the contract promises, with what it needs to be inductive.
THEOREM InductiveInvariant == Client!Spec => []Inductive
BY InductiveInit, InductiveStep, PTL DEF Client!Spec

\* Any implementation of the contract streams one answer at a time.
THEOREM ContractOneStream == Client!Spec => []Client!OneStream
<1>1. Inductive => Client!OneStream
  BY DEF Inductive
<1> QED BY <1>1, InductiveInvariant, PTL

\* Any implementation of the contract posts nothing for a task after the final
\* event at which the desktop saves its answer.
THEOREM ContractFinalIsLast == Client!Spec => [](Client!FinalIsLast /\ Client!FinalIffSettled)
<1>1. Inductive => Client!FinalIsLast /\ Client!FinalIffSettled
  <2> SUFFICES ASSUME Inductive PROVE Client!FinalIsLast /\ Client!FinalIffSettled
    OBVIOUS
  <2>1. DOMAIN posted = 1..Len(posted)
    BY LenProperties DEF Inductive
  <2> QED BY <2>1 DEF Inductive, Client!FinalIsLast, Client!FinalIffSettled, Closed, Ended
<1> QED BY <1>1, InductiveInvariant, PTL

-----------------------------------------------------------------------------
(* Induction, sequences of sequences and parts of sequences. *)

\* A set of numbers that has zero, and with a number the next one, has them all: induction
\* without an operator as a parameter.
LEMMA Induction ==
  ASSUME NEW S, 0 \in S, \A n \in Nat : n \in S => n + 1 \in S
  PROVE  Nat \subseteq S
<1>1. SUFFICES ASSUME Nat \ S # {} PROVE FALSE
  OBVIOUS
<1> DEFINE R == {pair \in Nat \X Nat : pair[1] < pair[2]}
<1>2. IsWellFoundedOn(R, Nat)
  BY NatLessThanWellFounded DEF OpToRel
<1> HIDE DEF R
<1>3. PICK x \in Nat \ S : \A y \in Nat \ S : ~(<<y, x>> \in R)
  BY <1>1, <1>2, WFMin
<1>4. x - 1 \in Nat /\ (x - 1) + 1 = x
  <2>1. x # 0
    OBVIOUS
  <2> QED BY <2>1
<1>5. x - 1 \notin S
  BY <1>4
<1>6. <<x - 1, x>> \in R
  BY <1>4 DEF R
<1> QED BY <1>3, <1>4, <1>5, <1>6

\* F[k] is what the first k sequences of ss are together.
Joins(F, ss, n, S) ==
  /\ F \in [0..n -> Seq(S)]
  /\ F[0] = <<>>
  /\ \A k \in 1..n : F[k] = F[k - 1] \o ss[k]

\* There is a running concatenation of any sequence of sequences.
LEMMA JoinsExist ==
  ASSUME NEW S, NEW ss \in Seq(Seq(S))
  PROVE  \E F : Joins(F, ss, Len(ss), S)
<1> DEFINE N == {n \in Nat : n <= Len(ss) => \E F : Joins(F, ss, n, S)}
<1>1. Len(ss) \in Nat /\ \A i \in 1..Len(ss) : ss[i] \in Seq(S)
  BY LenProperties, ElementOfSeq
<1>2. 0 \in N
  <2> DEFINE F == [k \in 0..0 |-> <<>>]
  <2>1. <<>> \in Seq(S)
    OBVIOUS
  <2>2. Joins(F, ss, 0, S)
    BY <2>1 DEF Joins
  <2> QED BY <2>2
<1>3. ASSUME NEW n \in Nat, n \in N PROVE n + 1 \in N
  <2>1. SUFFICES ASSUME n + 1 <= Len(ss) PROVE \E F : Joins(F, ss, n + 1, S)
    OBVIOUS
  <2>2. PICK F : Joins(F, ss, n, S)
    BY <1>1, <1>3, <2>1
  <2> DEFINE G == [k \in 0..(n + 1) |-> IF k = n + 1 THEN F[n] \o ss[n + 1] ELSE F[k]]
  <2>3. F[n] \in Seq(S) /\ ss[n + 1] \in Seq(S)
    BY <1>1, <2>1, <2>2 DEF Joins
  <2>4. F[n] \o ss[n + 1] \in Seq(S)
    BY <2>3, ConcatProperties
  <2>5. G \in [0..(n + 1) -> Seq(S)]
    BY <2>2, <2>4 DEF Joins
  <2>6. G[0] = <<>>
    BY <2>2 DEF Joins
  <2>7. ASSUME NEW k \in 1..(n + 1) PROVE G[k] = G[k - 1] \o ss[k]
    <3>1. CASE k = n + 1
      <4>1. k \in 0..(n + 1) /\ k - 1 \in 0..(n + 1) /\ k - 1 = n /\ n # n + 1
        BY <3>1
      <4> QED BY <3>1, <4>1
    <3>2. CASE k # n + 1
      <4>1. k \in 1..n /\ k - 1 \in 0..(n + 1) /\ k \in 0..(n + 1) /\ k - 1 # n + 1
        BY <3>2
      <4> QED BY <2>2, <3>2, <4>1 DEF Joins
    <3> QED BY <3>1, <3>2
  <2> HIDE DEF G
  <2> QED BY <2>5, <2>6, <2>7 DEF Joins
<1> HIDE DEF N
<1>4. Len(ss) \in N
  BY <1>1, <1>2, <1>3, Induction
<1> QED BY <1>1, <1>4 DEF N

\* What the community modules flatten a sequence of sequences to is the last of these.
LEMMA FlattenByJoins ==
  ASSUME NEW S, NEW ss \in Seq(Seq(S)), NEW F, Joins(F, ss, Len(ss), S)
  PROVE  FlattenSeq(ss) = F[Len(ss)] /\ FlattenSeq(ss) \in Seq(S)
<1> DEFINE n == Len(ss)
           Rec(g) == g = [i \in 1..n |-> IF i = 1 THEN ss[i] ELSE g[i - 1] \o ss[i]]
           it == CHOOSE g : Rec(g)
<1>1. n \in Nat /\ \A i \in 1..n : ss[i] \in Seq(S)
  BY LenProperties, ElementOfSeq
<1>2. FlattenSeq(ss) = IF n = 0 THEN ss ELSE it[n]
  BY DEF FlattenSeq
<1> HIDE DEF n
<1>3. Rec([i \in 1..n |-> F[i]])
  <2> DEFINE f == [i \in 1..n |-> F[i]]
  <2>1. ASSUME NEW i \in 1..n, i = 1 PROVE F[i] = ss[i]
    <3>1. F[i] = F[i - 1] \o ss[i] /\ F[0] = <<>>
      BY DEF Joins, n
    <3>2. i - 1 = 0
      BY <2>1
    <3>3. F[i] = <<>> \o ss[i]
      BY <3>1, <3>2
    <3>4. ss[i] \in Seq(S)
      BY <1>1
    <3> HIDE DEF f
    <3>5. <<>> \o ss[i] = ss[i]
      BY <3>4, ConcatEmptySeq
    <3> QED BY <3>3, <3>5
  <2>2. ASSUME NEW i \in 1..n, i # 1 PROVE F[i] = f[i - 1] \o ss[i]
    <3>1. i - 1 \in 1..n
      BY <1>1, <2>2
    <3> QED BY <3>1 DEF Joins, n
  <2>3. f = [i \in 1..n |-> IF i = 1 THEN ss[i] ELSE f[i - 1] \o ss[i]]
    BY <2>1, <2>2
  <2> QED BY <2>3
<1> HIDE DEF Rec
<1>4. Rec(it)
  BY <1>3, Zenon
<1>5. \A i \in 1..n : it[i] = IF i = 1 THEN ss[i] ELSE it[i - 1] \o ss[i]
  BY <1>4 DEF Rec
<1> HIDE DEF it
<1> DEFINE N == {k \in Nat : k \in 1..n => it[k] = F[k]}
<1>6. 0 \in N
  OBVIOUS
<1>7. ASSUME NEW k \in Nat, k \in N PROVE k + 1 \in N
  <2>1. SUFFICES ASSUME k + 1 \in 1..n PROVE it[k + 1] = F[k + 1]
    OBVIOUS
  <2>2. F[k + 1] = F[k] \o ss[k + 1]
    <3>1. (k + 1) - 1 = k
      BY <1>7
    <3> QED BY <2>1, <3>1 DEF Joins, n
  <2>3. CASE k = 0
    <3>1. F[0] = <<>>
      BY DEF Joins
    <3>2. F[1] = ss[1]
      BY <1>1, <2>1, <2>2, <2>3, <3>1, ConcatEmptySeq
    <3> QED BY <1>5, <2>1, <2>3, <3>2
  <2>4. CASE k # 0
    <3>1. k \in 1..n /\ k + 1 # 1 /\ (k + 1) - 1 = k
      BY <1>1, <2>1, <2>4
    <3>2. it[k] = F[k]
      BY <1>7, <3>1
    <3>3. it[k + 1] = it[k] \o ss[k + 1]
      BY <1>5, <2>1, <3>1
    <3> QED BY <2>2, <3>2, <3>3
  <2> QED BY <2>3, <2>4
<1> HIDE DEF N
<1>8. n \in N
  BY <1>1, <1>6, <1>7, Induction
<1>9. FlattenSeq(ss) = F[n]
  <2>1. CASE n = 0
    <3>1. ss = <<>>
      BY <2>1, EmptySeq DEF n
    <3> QED BY <1>2, <2>1, <3>1 DEF Joins
  <2>2. CASE n # 0
    <3>1. n \in 1..n
      BY <1>1, <2>2
    <3> QED BY <1>2, <1>8, <2>2, <3>1 DEF N
  <2> QED BY <2>1, <2>2
<1> QED BY <1>1, <1>9 DEF Joins, n

\* One more sequence comes last.
LEMMA FlattenOfMore ==
  ASSUME NEW S, NEW n \in Nat, NEW ss \in [1..n -> Seq(S)], NEW tt \in [1..(n + 1) -> Seq(S)],
         \A i \in 1..n : tt[i] = ss[i]
  PROVE  FlattenSeq(tt) = FlattenSeq(ss) \o tt[n + 1] /\ FlattenSeq(ss) \in Seq(S)
<1>1. ss \in Seq(Seq(S)) /\ Len(ss) = n /\ tt \in Seq(Seq(S)) /\ Len(tt) = n + 1
  <2> DEFINE T == Seq(S)
  <2> HIDE DEF T
  <2>1. \A m \in Nat : \A f \in [1..m -> T] : f \in Seq(T) /\ DOMAIN f = 1..m
    OBVIOUS
  <2>2. ss \in Seq(T) /\ DOMAIN ss = 1..n /\ tt \in Seq(T) /\ DOMAIN tt = 1..(n + 1)
    BY <2>1 DEF T
  <2>3. Len(ss) = n /\ Len(tt) = n + 1
    BY <2>2, LenProperties
  <2> QED BY <2>2, <2>3 DEF T
<1>2. PICK G : Joins(G, tt, n + 1, S)
  BY <1>1, JoinsExist
<1> DEFINE F == [k \in 0..n |-> G[k]]
<1>3. Joins(F, ss, n, S)
  <2>1. F \in [0..n -> Seq(S)] /\ F[0] = <<>>
    BY <1>1, <1>2 DEF Joins
  <2>2. ASSUME NEW k \in 1..n PROVE F[k] = F[k - 1] \o ss[k]
    <3>1. k \in 1..(n + 1) /\ k \in 0..n /\ k - 1 \in 0..n
      BY <1>1
    <3> QED BY <1>1, <1>2, <3>1 DEF Joins
  <2> HIDE DEF F
  <2> QED BY <2>1, <2>2 DEF Joins
<1>4. FlattenSeq(tt) = G[n + 1] /\ FlattenSeq(ss) = F[n] /\ FlattenSeq(ss) \in Seq(S)
  BY <1>1, <1>2, <1>3, FlattenByJoins
<1>5. G[n + 1] = F[n] \o tt[n + 1]
  <2>1. n + 1 \in 1..(n + 1) /\ (n + 1) - 1 = n /\ n \in 0..n
    BY <1>1
  <2> QED BY <1>1, <1>2, <2>1 DEF Joins
<1> QED BY <1>4, <1>5

\* Of no sequences nothing is left.
LEMMA FlattenNone == FlattenSeq(<<>>) = <<>>
<1>1. Len(<<>>) = 0
  OBVIOUS
<1> QED BY <1>1 DEF FlattenSeq

\* What follows the first k of the first n elements.
LEMMA PartElements ==
  ASSUME NEW S, NEW s \in Seq(S), NEW n \in Nat, n <= Len(s), NEW k \in Nat, k <= n
  PROVE  /\ SubSeq(s, k + 1, n) \in Seq(S)
         /\ Len(SubSeq(s, k + 1, n)) = n - k
         /\ \A i \in 1..(n - k) : SubSeq(s, k + 1, n)[i] = s[k + i]
<1> DEFINE part == SubSeq(s, k + 1, n)
<1>1. Len(s) \in Nat
  BY LenProperties
<1>2. \A i \in (k + 1)..n : s[i] \in S
  BY <1>1, ElementOfSeq
<1>3. k + 1 \in Int /\ n \in Int
  OBVIOUS
<1>4. /\ part \in Seq(S) /\ Len(part) = IF k + 1 <= n THEN n - (k + 1) + 1 ELSE 0
      /\ \A i \in 1..(n - (k + 1) + 1) : part[i] = s[k + 1 + i - 1]
  <2> HIDE <1>1
  <2> QED BY <1>2, <1>3, SubSeqProperties
<1>5. n - (k + 1) + 1 = n - k /\ \A i \in 1..(n - k) : k + 1 + i - 1 = k + i
  OBVIOUS
<1> HIDE DEF part
<1>6. Len(part) = n - k
  BY <1>4
<1>7. \A i \in 1..(n - k) : part[i] = s[k + i]
  BY <1>4, <1>5
<1> QED BY <1>4, <1>6, <1>7 DEF part

\* Of one element more, the part is one element longer.
LEMMA PartOfNext ==
  ASSUME NEW S, NEW s \in Seq(S), NEW n \in Nat, n < Len(s), NEW k \in Nat, k <= n
  PROVE  SubSeq(s, k + 1, n + 1) = Append(SubSeq(s, k + 1, n), s[n + 1])
<1>1. Len(s) \in Nat
  BY LenProperties
<1>2. k + 1 \in 1..Len(s) /\ n + 1 \in (k + 1)..Len(s) /\ n + 1 \in 1..Len(s) /\ n + 1 - 1 = n
  BY <1>1
<1>3. SubSeq(s, k + 1, n + 1) = SubSeq(s, k + 1, n) \o <<s[n + 1]>>
  <2>1. PICK j \in (k + 1)..Len(s) : j = n + 1
    BY <1>2
  <2>2. SubSeq(s, k + 1, j) = SubSeq(s, k + 1, j - 1) \o <<s[j]>>
    BY <1>2, SubSeqRecursiveSecond
  <2> QED BY <1>2, <2>1, <2>2
<1>4. s[n + 1] \in S
  BY <1>2, ElementOfSeq
<1>5. SubSeq(s, k + 1, n) \in Seq(S)
  BY <1>1, PartElements
<1> QED BY <1>3, <1>4, <1>5, AppendIsConcat

\* A part that ends before two sequences differ.
LEMMA SamePart ==
  ASSUME NEW S, NEW s \in Seq(S), NEW t \in Seq(S), NEW k \in Nat, NEW n \in Nat,
         k <= n, n <= Len(s), n <= Len(t), \A i \in 1..n : s[i] = t[i]
  PROVE  SubSeq(s, k + 1, n) = SubSeq(t, k + 1, n)
<1> DEFINE u == SubSeq(s, k + 1, n)
           v == SubSeq(t, k + 1, n)
<1>1. u \in Seq(S) /\ Len(u) = n - k /\ \A i \in 1..(n - k) : u[i] = s[k + i]
  BY PartElements
<1>2. v \in Seq(S) /\ Len(v) = n - k /\ \A i \in 1..(n - k) : v[i] = t[k + i]
  BY PartElements
<1> HIDE DEF u, v
<1>3. ASSUME NEW i \in 1..Len(u) PROVE u[i] = v[i]
  <2>1. i \in 1..(n - k) /\ k + i \in 1..n
    BY <1>1
  <2> QED BY <1>1, <1>2, <2>1
<1>4. u = v
  BY <1>1, <1>2, <1>3, SeqEqual
<1> QED BY <1>4 DEF u, v

\* z is x with y after it.
Joined(S, n, m, x, y, z) ==
  /\ n \in Nat /\ m \in Nat
  /\ x \in [1..n -> Seq(S)] /\ y \in [1..m -> Seq(S)] /\ z \in [1..(n + m) -> Seq(S)]
  /\ \A i \in 1..n : z[i] = x[i]
  /\ \A j \in 1..m : z[n + j] = y[j]

\* Two sequences of sequences, one after the other.
LEMMA FlattenBoth ==
  ASSUME NEW S, NEW n, NEW m, NEW x, NEW y, NEW z, Joined(S, n, m, x, y, z)
  PROVE  FlattenSeq(z) = FlattenSeq(x) \o FlattenSeq(y)
<1> SUFFICES ASSUME n \in Nat, m \in Nat,
                    x \in [1..n -> Seq(S)], y \in [1..m -> Seq(S)], z \in [1..(n + m) -> Seq(S)],
                    \A i \in 1..n : z[i] = x[i], \A j \in 1..m : z[n + j] = y[j]
             PROVE  FlattenSeq(z) = FlattenSeq(x) \o FlattenSeq(y)
  BY DEF Joined
<1> DEFINE Y(k) == [j \in 1..k |-> y[j]]
           Z(k) == [i \in 1..(n + k) |-> z[i]]
           Both(k) == /\ FlattenSeq(Z(k)) = FlattenSeq(x) \o FlattenSeq(Y(k))
                      /\ FlattenSeq(x) \in Seq(S) /\ FlattenSeq(Y(k)) \in Seq(S)
           N == {k \in Nat : k <= m => Both(k)}
<1>1. ASSUME NEW k \in Nat, k <= m
      PROVE  Y(k) \in [1..k -> Seq(S)] /\ Z(k) \in [1..(n + k) -> Seq(S)]
  <2>1. \A j \in 1..k : j \in 1..m
    BY <1>1
  <2>2. \A i \in 1..(n + k) : i \in 1..(n + m)
    BY <1>1
  <2> QED BY <2>1, <2>2
<1>2. 0 \in N
  <2>1. Z(0) = x
    <3>1. n + 0 = n
      OBVIOUS
    <3>2. x = [i \in 1..n |-> x[i]]
      OBVIOUS
    <3>3. [i \in 1..n |-> z[i]] = [i \in 1..n |-> x[i]]
      OBVIOUS
    <3> QED BY <3>1, <3>2, <3>3
  <2>2. Y(0) = <<>>
    BY 1..0 = {}
  <2>3. FlattenSeq(x) \in Seq(S)
    <3>1. x \in Seq(Seq(S)) /\ Len(x) = n
      <4> DEFINE T == Seq(S)
      <4> HIDE DEF T
      <4>1. \A f \in [1..n -> T] : f \in Seq(T) /\ DOMAIN f = 1..n
        OBVIOUS
      <4>2. x \in Seq(T) /\ DOMAIN x = 1..n
        BY <4>1 DEF T
      <4> QED BY <4>2, LenProperties DEF T
    <3>2. PICK F : Joins(F, x, Len(x), S)
      BY <3>1, JoinsExist
    <3> QED BY <3>1, <3>2, FlattenByJoins
  <2> HIDE DEF Y, Z
  <2>4. FlattenSeq(Z(0)) = FlattenSeq(x) /\ FlattenSeq(Y(0)) = <<>> /\ <<>> \in Seq(S)
    BY <2>1, <2>2, FlattenNone
  <2>5. FlattenSeq(x) \o <<>> = FlattenSeq(x)
    BY <2>3, ConcatEmptySeq
  <2>6. Both(0)
    BY <2>3, <2>4, <2>5
  <2> HIDE DEF Both
  <2> QED BY <2>6
<1>3. ASSUME NEW k \in Nat, k \in N PROVE k + 1 \in N
  <2> HIDE DEF Both
  <2>1. SUFFICES ASSUME k + 1 <= m PROVE Both(k + 1)
    OBVIOUS
  <2>2. Both(k)
    <3>1. k <= m
      BY <2>1
    <3> QED BY <1>3, <3>1
  <2> USE DEF Both
  <2>3. /\ Y(k) \in [1..k -> Seq(S)] /\ Z(k) \in [1..(n + k) -> Seq(S)]
        /\ Y(k + 1) \in [1..(k + 1) -> Seq(S)] /\ Z(k + 1) \in [1..((n + k) + 1) -> Seq(S)]
    <3>1. k <= m /\ k + 1 \in Nat /\ n + (k + 1) = (n + k) + 1
      BY <2>1
    <3> QED BY <1>1, <2>1, <3>1
  <2>4. /\ \A j \in 1..k : Y(k + 1)[j] = Y(k)[j]
        /\ \A i \in 1..(n + k) : Z(k + 1)[i] = Z(k)[i]
        /\ Y(k + 1)[k + 1] = y[k + 1] /\ Z(k + 1)[(n + k) + 1] = y[k + 1]
    <3>1. \A j \in 1..k : j \in 1..(k + 1)
      OBVIOUS
    <3>2. \A i \in 1..(n + k) : i \in 1..(n + (k + 1))
      OBVIOUS
    <3>3. /\ k + 1 \in 1..(k + 1) /\ (n + k) + 1 \in 1..(n + (k + 1)) /\ (n + k) + 1 = n + (k + 1)
          /\ k + 1 \in 1..m
      BY <2>1
    <3> QED BY <3>1, <3>2, <3>3
  <2>5. y[k + 1] \in Seq(S)
    BY <2>1
  <2> DEFINE w == y[k + 1]
             A == Y(k)
             B == Z(k)
             C == Y(k + 1)
             D == Z(k + 1)
  <2>6. FlattenSeq(C) = FlattenSeq(A) \o C[k + 1] /\ FlattenSeq(A) \in Seq(S)
    <3> HIDE DEF Y, Z
    <3> QED BY <2>3, <2>4, FlattenOfMore
  <2>7. FlattenSeq(D) = FlattenSeq(B) \o D[(n + k) + 1]
    <3>1. PICK l \in Nat : l = n + k
      OBVIOUS
    <3> HIDE DEF Y, Z
    <3>2. /\ B \in [1..l -> Seq(S)] /\ D \in [1..(l + 1) -> Seq(S)]
          /\ \A i \in 1..l : D[i] = B[i]
      BY <2>3, <2>4, <3>1
    <3> HIDE DEF B, D
    <3>3. FlattenSeq(D) = FlattenSeq(B) \o D[l + 1]
      BY <3>2, FlattenOfMore
    <3> QED BY <3>1, <3>3
  <2>8. C[k + 1] = w /\ D[(n + k) + 1] = w /\ w \in Seq(S)
    BY <2>4, <2>5
  <2>9. FlattenSeq(B) = FlattenSeq(x) \o FlattenSeq(A) /\ FlattenSeq(x) \in Seq(S)
    BY <2>2
  <2> HIDE DEF w, A, B, C, D, Y, Z
  <2>10. /\ FlattenSeq(D) = FlattenSeq(x) \o FlattenSeq(C)
         /\ FlattenSeq(x) \in Seq(S) /\ FlattenSeq(C) \in Seq(S)
    <3> DEFINE a == FlattenSeq(A)
               b == FlattenSeq(x)
    <3>1. a \in Seq(S) /\ b \in Seq(S) /\ FlattenSeq(D) = (b \o a) \o w /\ FlattenSeq(C) = a \o w
      BY <2>6, <2>7, <2>8, <2>9
    <3> HIDE DEF a, b
    <3>2. w \in Seq(S)
      BY <2>8
    <3>3. a \o w \in Seq(S)
      BY <3>1, <3>2, ConcatProperties
    <3>4. (b \o a) \o w = b \o (a \o w)
      BY <3>1, <3>2, ConcatAssociative
    <3> QED BY <3>1, <3>3, <3>4 DEF b
  <2> QED BY <2>10 DEF C, D
<1> HIDE DEF N, Both
<1>4. m \in N
  BY <1>2, <1>3, Induction
<1>5. Both(m)
  BY <1>4 DEF N
<1> USE DEF Both
<1>6. Y(m) = y /\ Z(m) = z
  OBVIOUS
<1> HIDE DEF Y, Z
<1> QED BY <1>5, <1>6

\* Concatenation is associative, and the end of a concatenation is that of its last part.
LEMMA Regroup ==
  ASSUME NEW S, NEW x \in Seq(S), NEW y \in Seq(S), NEW z \in Seq(S)
  PROVE  (x \o y) \o z = x \o (y \o z)
BY ConcatAssociative

\* s without its places after a, up to b.
CutOut(s, a, b) == SubSeq(s, 1, a) \o SubSeq(s, b + 1, Len(s))

\* f is s, element by element, with the places after a, up to b, taken out of it.
Taken(S, s, n, a, b, f) ==
  /\ s \in Seq(S) /\ n \in Nat /\ n = Len(s) /\ a \in Nat /\ b \in Nat /\ a <= b /\ b <= n
  /\ f \in [1..n -> Seq(S)]
  /\ \A i \in 1..n : f[i] = IF a < i /\ i <= b THEN <<>> ELSE <<s[i]>>

\* What is left of it.
LEMMA FlattenCut ==
  ASSUME NEW S, NEW s, NEW n \in Nat, NEW a \in Nat, NEW b \in Nat, NEW f,
         Taken(S, s, n, a, b, f)
  PROVE  FlattenSeq(f) = CutOut(s, a, b)
<1> SUFFICES ASSUME s \in Seq(S), n = Len(s), a <= b, b <= n,
                    f \in [1..n -> Seq(S)],
                    \A i \in 1..n : f[i] = IF a < i /\ i <= b THEN <<>> ELSE <<s[i]>>
             PROVE  FlattenSeq(f) = SubSeq(s, 1, a) \o SubSeq(s, b + 1, n)
  BY DEF Taken, CutOut
<1> DEFINE F(k) == [i \in 1..k |-> f[i]]
           low(k) == IF k <= a THEN k ELSE a
           P(k) == SubSeq(s, 0 + 1, low(k))
           Q(k) == SubSeq(s, b + 1, k)
           Cut(k) == FlattenSeq(F(k)) = P(k) \o Q(k)
           N == {k \in Nat : k <= n => Cut(k)}
<1>1. ASSUME NEW k \in Nat, k <= n
      PROVE  /\ P(k) \in Seq(S) /\ Q(k) \in Seq(S)
             /\ k <= b => Q(k) = <<>>
  <2>1. low(k) \in Nat /\ low(k) <= n
    BY <1>1
  <2> HIDE DEF low
  <2>2. P(k) \in Seq(S)
    BY <2>1, PartElements
  <2>3. k <= b => Q(k) = <<>>
    BY <1>1, SubSeqEmpty
  <2>4. k > b => Q(k) \in Seq(S)
    BY <1>1, PartElements
  <2>5. <<>> \in Seq(S)
    OBVIOUS
  <2> QED BY <2>2, <2>3, <2>4, <2>5
<1>2. 0 \in N
  <2>1. F(0) = <<>>
    BY 1..0 = {}
  <2>2. P(0) = <<>>
    BY SubSeqEmpty
  <2>3. Q(0) = <<>>
    BY <1>1
  <2> HIDE DEF F, P, Q
  <2>4. <<>> \o <<>> = <<>>
    OBVIOUS
  <2>5. Cut(0)
    BY <2>1, <2>2, <2>3, <2>4, FlattenNone
  <2> HIDE DEF Cut
  <2> QED BY <2>5
<1>3. ASSUME NEW k \in Nat, k \in N PROVE k + 1 \in N
  <2> HIDE DEF Cut
  <2>1. SUFFICES ASSUME k + 1 <= n PROVE Cut(k + 1)
    OBVIOUS
  <2>2. Cut(k) /\ k <= n /\ k < n /\ k + 1 \in Nat /\ k + 1 \in 1..n
    <3>1. k <= n
      BY <2>1
    <3> QED BY <1>3, <2>1, <3>1
  <2>3. F(k) \in [1..k -> Seq(S)] /\ F(k + 1) \in [1..(k + 1) -> Seq(S)]
    <3>1. \A i \in 1..(k + 1) : i \in 1..n
      BY <2>1
    <3>2. \A i \in 1..k : i \in 1..n
      BY <2>1
    <3> QED BY <3>1, <3>2
  <2>4. (\A i \in 1..k : F(k + 1)[i] = F(k)[i]) /\ F(k + 1)[k + 1] = f[k + 1]
    <3>1. \A i \in 1..k : i \in 1..(k + 1)
      OBVIOUS
    <3>2. k + 1 \in 1..(k + 1)
      OBVIOUS
    <3> QED BY <3>1, <3>2
  <2> DEFINE old == FlattenSeq(F(k))
             new == FlattenSeq(F(k + 1))
             e == s[k + 1]
  <2>5. new = old \o f[k + 1]
    <3> HIDE DEF F
    <3>1. FlattenSeq(F(k + 1)) = FlattenSeq(F(k)) \o F(k + 1)[k + 1]
      BY <2>3, <2>4, FlattenOfMore
    <3> QED BY <2>4, <3>1
  <2>6. /\ P(k) \in Seq(S) /\ Q(k) \in Seq(S) /\ P(k + 1) \in Seq(S) /\ Q(k + 1) \in Seq(S)
        /\ k <= b => Q(k) = <<>>
        /\ k + 1 <= b => Q(k + 1) = <<>>
    <3> HIDE DEF P, Q
    <3> QED BY <1>1, <2>1, <2>2
  <2>7. e \in S
    BY <2>2, ElementOfSeq
  <2>8. old = P(k) \o Q(k)
    BY <2>2 DEF Cut
  <2>9. f[k + 1] = IF a < k + 1 /\ k + 1 <= b THEN <<>> ELSE <<e>>
    BY <2>2
  <2> HIDE DEF old, new, e, F, Q
  <2>10. CASE k < a
    <3>1. P(k + 1) = Append(P(k), e)
      <4>1. low(k) = k /\ low(k + 1) = k + 1
        BY <2>10
      <4>2. SubSeq(s, 0 + 1, k + 1) = Append(SubSeq(s, 0 + 1, k), s[k + 1])
        BY <2>2, PartOfNext
      <4> HIDE DEF low
      <4> QED BY <4>1, <4>2 DEF e
    <3>2. Q(k) = <<>> /\ Q(k + 1) = <<>> /\ f[k + 1] = <<e>>
      BY <2>6, <2>9, <2>10
    <3> HIDE DEF P
    <3>3. Append(P(k), e) = P(k) \o <<e>>
      BY <2>6, <2>7, AppendIsConcat
    <3>4. P(k) \o <<>> = P(k) /\ P(k + 1) \o <<>> = P(k + 1)
      BY <2>6, ConcatEmptySeq
    <3>5. new = P(k + 1) \o Q(k + 1)
      BY <2>5, <2>8, <3>1, <3>2, <3>3, <3>4
    <3> QED BY <3>5 DEF Cut, new
  <2>11. CASE a <= k /\ k < b
    <3>1. P(k + 1) = P(k)
      <4>1. low(k) = a /\ low(k + 1) = a
        BY <2>11
      <4> HIDE DEF low
      <4> QED BY <4>1
    <3>2. Q(k) = <<>> /\ Q(k + 1) = <<>> /\ f[k + 1] = <<>>
      BY <2>6, <2>9, <2>11
    <3> HIDE DEF P
    <3>3. P(k) \o <<>> = P(k)
      BY <2>6, ConcatEmptySeq
    <3>4. new = P(k + 1) \o Q(k + 1)
      BY <2>5, <2>8, <3>1, <3>2, <3>3
    <3> QED BY <3>4 DEF Cut, new
  <2>12. CASE b <= k
    <3>1. P(k + 1) = P(k)
      <4>1. low(k) = a /\ low(k + 1) = a
        BY <2>12
      <4> HIDE DEF low
      <4> QED BY <4>1
    <3>2. Q(k + 1) = Append(Q(k), e) /\ f[k + 1] = <<e>>
      <4>1. SubSeq(s, b + 1, k + 1) = Append(SubSeq(s, b + 1, k), s[k + 1])
        BY <2>2, <2>12, PartOfNext
      <4> QED BY <2>9, <2>12, <4>1 DEF e, Q
    <3> HIDE DEF P
    <3>3. Append(Q(k), e) = Q(k) \o <<e>> /\ <<e>> \in Seq(S)
      BY <2>6, <2>7, AppendIsConcat
    <3>4. (P(k) \o Q(k)) \o <<e>> = P(k) \o (Q(k) \o <<e>>)
      <4>1. PICK x \in Seq(S) : x = P(k)
        BY <2>6
      <4>2. PICK y \in Seq(S) : y = Q(k)
        BY <2>6
      <4>3. PICK z \in Seq(S) : z = <<e>>
        BY <3>3
      <4>4. (x \o y) \o z = x \o (y \o z)
        BY ONLY Regroup, x \in Seq(S), y \in Seq(S), z \in Seq(S)
      <4> QED BY <4>1, <4>2, <4>3, <4>4
    <3>5. new = P(k + 1) \o Q(k + 1)
      BY <2>5, <2>8, <3>1, <3>2, <3>3, <3>4
    <3> QED BY <3>5 DEF Cut, new
  <2> QED BY <2>10, <2>11, <2>12
<1> HIDE DEF N, Cut
<1>4. n \in N
  BY <1>2, <1>3, Induction
<1>5. Cut(n)
  BY <1>4 DEF N
<1>6. F(n) = f
  OBVIOUS
<1>7. P(n) = SubSeq(s, 1, a)
  <2>1. low(n) = a /\ 0 + 1 = 1
    OBVIOUS
  <2> HIDE DEF low
  <2> QED BY <2>1
<1> HIDE DEF F, P
<1> QED BY <1>5, <1>6, <1>7 DEF Cut


-----------------------------------------------------------------------------
(* Tags, and what is visible of a text that gets longer. *)

\* What the assumptions say of the tags.
LEMMA TagTypes ==
  /\ OpenTag \in Seq(Atom) /\ CloseTag \in Seq(Atom)
  /\ Len(OpenTag) = 2 /\ Len(CloseTag) = 2 /\ OpenTag[2] # CloseTag[1]
<1>1. Range(OpenTag) \subseteq Atom /\ Range(CloseTag) \subseteq Atom
  <2> DEFINE W == UNION {Range(Spelling[w]) : w \in Word \cup {Notice}}
  <2>1. Atom = W \cup Range(OpenTag) \cup Range(CloseTag)
    BY DEF Atom
  <2> HIDE DEF W
  <2> QED BY <2>1
<1> QED BY <1>1, TagAssumption, SeqMonotonic

\* A tag stands where its first atom is followed by its second.
LEMMA PlacesAre ==
  ASSUME NEW text \in Seq(Atom), NEW tag \in Seq(Atom), Len(tag) = 2
  PROVE  /\ Places(tag, text) \subseteq 1..Len(text)
         /\ \A i \in Nat : i \in Places(tag, text) <=>
                             /\ 1 <= i /\ i + 1 <= Len(text)
                             /\ text[i] = tag[1] /\ text[i + 1] = tag[2]
<1>1. Len(text) \in Nat
  BY LenProperties
<1>2. ASSUME NEW i \in Nat, 1 <= i, i + 1 <= Len(text)
      PROVE  SubSeq(text, i, i + 1) = tag <=> text[i] = tag[1] /\ text[i + 1] = tag[2]
  <2> DEFINE u == SubSeq(text, i, i + 1)
  <2>1. /\ u \in Seq(Atom) /\ Len(u) = 2 /\ u[1] = text[i] /\ u[2] = text[i + 1]
    <3>1. \A j \in i..(i + 1) : text[j] \in Atom
      BY <1>1, <1>2, ElementOfSeq
    <3>2. i \in Int /\ i + 1 \in Int
      OBVIOUS
    <3>3. /\ u \in Seq(Atom) /\ Len(u) = IF i <= i + 1 THEN i + 1 - i + 1 ELSE 0
          /\ \A j \in 1..(i + 1 - i + 1) : u[j] = text[i + j - 1]
      <4> HIDE <1>1, <1>2
      <4> QED BY <3>1, <3>2, SubSeqProperties
    <3> HIDE DEF u
    <3>4. Len(u) = 2
      BY <3>3
    <3>5. u[1] = text[i + 1 - 1] /\ u[2] = text[i + 2 - 1]
      BY <3>3
    <3>6. i + 1 - 1 = i /\ i + 2 - 1 = i + 1
      OBVIOUS
    <3> QED BY <3>3, <3>4, <3>5, <3>6
  <2> HIDE DEF u
  <2>2. u[1] = tag[1] /\ u[2] = tag[2] => u = tag
    <3> SUFFICES ASSUME u[1] = tag[1], u[2] = tag[2] PROVE u = tag
      OBVIOUS
    <3>1. \A j \in 1..Len(u) : u[j] = tag[j]
      <4>1. \A j \in 1..Len(u) : j = 1 \/ j = 2
        BY <2>1
      <4> QED BY <4>1
    <3> QED BY <2>1, <3>1, SeqEqual
  <2> QED BY <2>1, <2>2 DEF u
<1>3. \A i \in Nat : i \in 1..(Len(text) - 1) <=> 1 <= i /\ i + 1 <= Len(text)
  BY <1>1
<1>4. Places(tag, text) \subseteq 1..(Len(text) - 1)
  BY DEF Places
<1>5. 1..(Len(text) - 1) \subseteq 1..Len(text)
  BY <1>1
<1>6. ASSUME NEW i \in Nat
      PROVE  i \in Places(tag, text) <=> /\ 1 <= i /\ i + 1 <= Len(text)
                                         /\ text[i] = tag[1] /\ text[i + 1] = tag[2]
  BY <1>2, <1>3, <1>6 DEF Places
<1> QED BY <1>4, <1>5, <1>6

\* The first place of a tag that is there.
LEMMA FirstPlace ==
  ASSUME NEW text \in Seq(Atom), NEW tag \in Seq(Atom), Len(tag) = 2, Found(tag, text)
  PROVE  /\ First(tag, text) \in Places(tag, text)
         /\ \A j \in Places(tag, text) : First(tag, text) <= j
<1> DEFINE places == Places(tag, text)
           N == {n \in Nat : \A i \in 0..n : i \notin places}
<1>1. places \subseteq Nat /\ places # {} /\ 0 \notin places
  <2>1. places \subseteq 1..Len(text) /\ Len(text) \in Nat
    BY PlacesAre, LenProperties
  <2> HIDE DEF places
  <2>2. places # {}
    BY DEF Found, places
  <2> QED BY <2>1, <2>2
<1>2. \A i \in Nat : i \in 0..i
  OBVIOUS
<1>3. \E i \in places : \A j \in places : i <= j
  <2> HIDE DEF places
  <2> SUFFICES ASSUME \A i \in places : \E j \in places : j < i PROVE FALSE
    BY <1>1
  <2>1. 0 \in N
    BY <1>1
  <2>2. ASSUME NEW n \in Nat, n \in N PROVE n + 1 \in N
    <3>1. \A i \in 0..n : i \notin places
      BY <2>2
    <3>2. ASSUME NEW i \in 0..(n + 1), i \in places PROVE FALSE
      <4>1. PICK j \in places : j < i
        BY <3>2
      <4>2. j \in 0..n
        BY <1>1, <4>1
      <4> QED BY <3>1, <4>1, <4>2
    <3>3. n + 1 \in Nat
      OBVIOUS
    <3> QED BY <3>2, <3>3
  <2>3. Nat \subseteq N
    <3> HIDE DEF N
    <3> QED BY <2>1, <2>2, Induction
  <2>4. PICK i \in places : i \in Nat
    BY <1>1
  <2> QED BY <1>2, <2>3, <2>4
<1> QED BY <1>3, Zenon DEF First

\* Whether a place is in a block of a text with a token at its end: it is one of the text,
\* or one of the token and in a block that was open or that the token opens.
InRest(within, token, j) ==
  \/ within /\ \A c \in Places(CloseTag, token) : j <= c + 1
  \/ \E o \in Places(OpenTag, token) :
        o <= j /\ \A c \in Places(CloseTag, token) : o < c => j <= c + 1

\* The token goes on with the text the way Regular says: no tag is split.
Unsplit(text, token) ==
  \A tag \in {OpenTag, CloseTag} :
     Places(tag, text \o token) =
       Places(tag, text) \cup {Len(text) + i : i \in Places(tag, token)}

\* The blocks of a text with one more token: those of the text, continued by the token
\* up to its first closing tag, and the block that the token itself opens.
LEMMA BlocksOfMore ==
  ASSUME NEW text \in Seq(Atom), NEW token \in Seq(Atom), Unsplit(text, token)
  PROVE  LET n == Len(text)
             within == InBlock(text, n + 1)
         IN  /\ \A i \in 1..n : InBlock(text \o token, i) <=> InBlock(text, i)
             /\ \A j \in 1..(Len(token) + 1) :
                   InBlock(text \o token, n + j) <=> InRest(within, token, j)
<1> DEFINE n == Len(text)
           m == Len(token)
           PO == Places(OpenTag, text)
           PC == Places(CloseTag, text)
           QO == Places(OpenTag, token)
           QC == Places(CloseTag, token)
           AO == Places(OpenTag, text \o token)
           AC == Places(CloseTag, text \o token)
           within == InBlock(text, n + 1)
<1>1. n \in Nat /\ m \in Nat
  BY LenProperties
<1>2. \A i \in PO \cup PC : i \in Nat /\ 1 <= i /\ i + 1 <= n
  <2>1. PO \subseteq 1..n /\ PC \subseteq 1..n
    BY PlacesAre, TagTypes
  <2>2. \A i \in PO : i \in Nat /\ 1 <= i /\ i + 1 <= n
    BY <2>1, PlacesAre, TagTypes
  <2>3. \A i \in PC : i \in Nat /\ 1 <= i /\ i + 1 <= n
    BY <2>1, PlacesAre, TagTypes
  <2> QED BY <2>2, <2>3
<1>3. \A i \in QO \cup QC : i \in Nat /\ 1 <= i
  <2>1. QO \subseteq 1..m /\ QC \subseteq 1..m
    BY PlacesAre, TagTypes
  <2> HIDE DEF QO, QC
  <2> QED BY <1>1, <2>1
<1>4. AO = PO \cup {n + i : i \in QO} /\ AC = PC \cup {n + i : i \in QC}
  BY DEF Unsplit
<1>5. /\ \A i : InBlock(text \o token, i) <=>
                  \E o \in AO : o <= i /\ \A c \in AC : o < c => i <= c + 1
      /\ \A i : InBlock(text, i) <=>
                  \E o \in PO : o <= i /\ \A c \in PC : o < c => i <= c + 1
      /\ \A j : InRest(within, token, j) <=>
                  \/ within /\ \A c \in QC : j <= c + 1
                  \/ \E o \in QO : o <= j /\ \A c \in QC : o < c => j <= c + 1
  BY DEF InBlock, InRest
<1>6. within <=> \E o \in PO : o <= n + 1 /\ \A c \in PC : o < c => n + 1 <= c + 1
  BY <1>5
<1> HIDE DEF n, m, PO, PC, QO, QC, AO, AC, within
<1>7. ASSUME NEW i \in 1..n PROVE InBlock(text \o token, i) <=> InBlock(text, i)
  <2>1. \A o \in AO : o <= i => o \in PO
    BY <1>1, <1>3, <1>4
  <2>2. \A c \in AC : c \in PC \/ i <= c + 1
    BY <1>1, <1>3, <1>4
  <2>3. PO \subseteq AO /\ PC \subseteq AC
    BY <1>4
  <2>4. InBlock(text \o token, i) => InBlock(text, i)
    <3> SUFFICES ASSUME InBlock(text \o token, i) PROVE InBlock(text, i)
      OBVIOUS
    <3>1. PICK o \in AO : o <= i /\ \A c \in AC : o < c => i <= c + 1
      BY <1>5
    <3>2. o \in PO /\ \A c \in PC : o < c => i <= c + 1
      BY <2>1, <2>3, <3>1
    <3> QED BY <1>5, <3>1, <3>2
  <2>5. InBlock(text, i) => InBlock(text \o token, i)
    <3> SUFFICES ASSUME InBlock(text, i) PROVE InBlock(text \o token, i)
      OBVIOUS
    <3>1. PICK o \in PO : o <= i /\ \A c \in PC : o < c => i <= c + 1
      BY <1>5
    <3>2. o \in AO /\ \A c \in AC : o < c => i <= c + 1
      BY <2>2, <2>3, <3>1
    <3> QED BY <1>5, <3>1, <3>2
  <2> QED BY <2>4, <2>5
<1>8. ASSUME NEW j \in 1..(m + 1) PROVE InBlock(text \o token, n + j) <=> InRest(within, token, j)
  <2>1. ASSUME InRest(within, token, j) PROVE InBlock(text \o token, n + j)
    <3>1. CASE within /\ \A c \in QC : j <= c + 1
      <4>1. PICK o \in PO : \A c \in PC : ~(o < c)
        BY <1>1, <1>2, <1>6, <3>1
      <4>2. o \in AO /\ o <= n + j
        BY <1>1, <1>2, <1>4, <4>1
      <4>3. ASSUME NEW c \in AC, o < c PROVE n + j <= c + 1
        <5>1. c \notin PC
          BY <4>1, <4>3
        <5>2. PICK q \in QC : c = n + q
          BY <1>4, <4>3, <5>1
        <5>3. j <= q + 1 /\ q \in Nat
          BY <1>3, <3>1, <5>2
        <5> QED BY <1>1, <5>2, <5>3
      <4> QED BY <1>5, <4>2, <4>3
    <3>2. CASE \E o \in QO : o <= j /\ \A c \in QC : o < c => j <= c + 1
      <4>1. PICK o \in QO : o <= j /\ \A c \in QC : o < c => j <= c + 1
        BY <3>2
      <4>2. n + o \in AO /\ n + o <= n + j /\ o \in Nat
        BY <1>1, <1>3, <1>4, <4>1
      <4>3. ASSUME NEW c \in AC, n + o < c PROVE n + j <= c + 1
        <5>1. c \notin PC
          BY <1>1, <1>2, <4>2, <4>3
        <5>2. PICK q \in QC : c = n + q
          BY <1>4, <4>3, <5>1
        <5>3. q \in Nat /\ o < q
          <6>1. q \in Nat
            BY <1>3, <5>2
          <6>2. n + o < n + q
            BY <4>3, <5>2
          <6> QED BY <1>1, <4>2, <6>1, <6>2
        <5>4. j <= q + 1
          BY <4>1, <5>3
        <5> QED BY <1>1, <5>2, <5>3, <5>4
      <4> QED BY <1>5, <4>2, <4>3
    <3> QED BY <1>5, <2>1, <3>1, <3>2
  <2>2. ASSUME InBlock(text \o token, n + j) PROVE InRest(within, token, j)
    <3>1. PICK o \in AO : o <= n + j /\ \A c \in AC : o < c => n + j <= c + 1
      BY <1>5, <2>2
    <3>2. CASE o \in PO
      <4>1. \A c \in PC : ~(o < c)
        <5> SUFFICES ASSUME NEW c \in PC, o < c PROVE FALSE
          OBVIOUS
        <5>1. c \in AC /\ c \in Nat /\ c + 1 <= n
          BY <1>2, <1>4
        <5>2. n + j <= c + 1
          BY <3>1, <5>1
        <5> QED BY <1>1, <5>1, <5>2
      <4>2. within
        BY <1>1, <1>2, <1>6, <3>2, <4>1
      <4>3. ASSUME NEW c \in QC PROVE j <= c + 1
        <5>1. n + c \in AC /\ c \in Nat /\ 1 <= c /\ o \in Nat /\ o + 1 <= n
          BY <1>2, <1>3, <1>4, <3>2
        <5>2. n + j <= n + c + 1
          BY <1>1, <3>1, <5>1
        <5> QED BY <1>1, <5>1, <5>2
      <4> QED BY <1>5, <4>2, <4>3
    <3>3. CASE o \notin PO
      <4>1. PICK q \in QO : o = n + q
        BY <1>4, <3>1, <3>3
      <4>2. q \in Nat /\ q <= j
        BY <1>1, <1>3, <3>1, <4>1
      <4>3. ASSUME NEW c \in QC, q < c PROVE j <= c + 1
        <5>1. n + c \in AC /\ c \in Nat
          BY <1>3, <1>4
        <5>2. n + j <= n + c + 1
          BY <1>1, <3>1, <4>1, <4>2, <4>3, <5>1
        <5> QED BY <1>1, <5>1, <5>2
      <4> QED BY <1>5, <4>2, <4>3
    <3> QED BY <3>2, <3>3
  <2> QED BY <2>1, <2>2
<1> QED BY <1>7, <1>8 DEF n, m, within


-----------------------------------------------------------------------------
(* The filter. *)

\* A finite set with at most one element has no two of them.
LEMMA NoTwo ==
  ASSUME NEW n \in Nat, NEW s \in SUBSET (1..n), Cardinality(s) <= 1, NEW x \in s, NEW y \in s
  PROVE  x = y
<1>1. SUFFICES ASSUME x # y PROVE FALSE
  OBVIOUS
<1>2. IsFiniteSet(1..n)
  BY FS_Interval
<1>3. IsFiniteSet(s)
  BY <1>2, FS_Subset
<1>4. Cardinality({x}) = 1 /\ IsFiniteSet({x})
  BY FS_Singleton
<1>5. Cardinality({x} \cup {y}) = 2
  BY <1>1, <1>4, FS_AddElement
<1>6. {x} \cup {y} \subseteq s
  OBVIOUS
<1>7. Cardinality({x} \cup {y}) <= Cardinality(s) /\ Cardinality(s) \in Nat
  BY <1>3, <1>6, FS_Subset, FS_CardinalityType
<1> QED BY <1>5, <1>7

\* What the filter passes on of a token: what stands before the block the token opens, and
\* what is left of the rest of it.
Left(token) == IF Found(OpenTag, token) THEN Before(OpenTag, token) ELSE <<>>
Rest(token) == IF Found(OpenTag, token) THEN After(OpenTag, token) ELSE token
Right(within, token) ==
  IF ~(within \/ Found(OpenTag, token)) THEN Rest(token)
  ELSE IF Found(CloseTag, Rest(token)) THEN After(CloseTag, Rest(token)) ELSE <<>>

\* Both sides of a tag are texts.
LEMMA Sides ==
  ASSUME NEW text \in Seq(Atom), NEW tag \in Seq(Atom), Len(tag) = 2, Found(tag, text)
  PROVE  /\ Before(tag, text) \in Seq(Atom) /\ After(tag, text) \in Seq(Atom)
         /\ First(tag, text) \in 1..Len(text) /\ First(tag, text) + 1 <= Len(text)
<1> DEFINE i == First(tag, text)
<1>1. i \in Nat /\ 1 <= i /\ i + 1 <= Len(text) /\ Len(text) \in Nat
  <2>1. i \in Places(tag, text) /\ Places(tag, text) \subseteq 1..Len(text) /\ Len(text) \in Nat
    BY FirstPlace, PlacesAre, LenProperties
  <2> HIDE DEF i
  <2>2. i \in Nat
    BY <2>1
  <2> QED BY <2>1, <2>2, PlacesAre
<1> HIDE DEF i
<1>2. SubSeq(text, 1, i - 1) \in Seq(Atom)
  <2>1. i - 1 \in Nat /\ i - 1 <= Len(text) /\ 0 \in Nat /\ 0 <= i - 1
    BY <1>1
  <2>2. PICK k \in Nat : k = i - 1
    BY <2>1
  <2>3. SubSeq(text, 0 + 1, k) \in Seq(Atom)
    BY <2>1, <2>2, PartElements
  <2>4. 0 + 1 = 1
    OBVIOUS
  <2> QED BY <2>2, <2>3, <2>4
<1>3. SubSeq(text, i + 2, Len(text)) \in Seq(Atom)
  <2>1. PICK k \in Nat : k = i + 1 /\ k <= Len(text)
    BY <1>1
  <2>2. SubSeq(text, k + 1, Len(text)) \in Seq(Atom)
    BY <1>1, <2>1, PartElements
  <2>3. k + 1 = i + 2
    BY <1>1, <2>1
  <2> QED BY <2>2, <2>3
<1> QED BY <1>1, <1>2, <1>3 DEF i, Before, After

\* Filter passes on what is left of the opening tag and what is right of the closing one.
LEMMA FilterShape ==
  ASSUME NEW within \in BOOLEAN, NEW token \in Seq(Atom)
  PROVE  /\ Left(token) \in Seq(Atom) /\ Rest(token) \in Seq(Atom)
         /\ Right(within, token) \in Seq(Atom)
         /\ Filter(within, token).shown = Call(Left(token)) \o Call(Right(within, token))
         /\ Filter(within, token).inside =
              ((within \/ Found(OpenTag, token)) /\ ~Found(CloseTag, Rest(token)))
<1>1. <<>> \in Seq(Atom)
  OBVIOUS
<1>2. Left(token) \in Seq(Atom) /\ Rest(token) \in Seq(Atom)
  BY <1>1, Sides, TagTypes DEF Left, Rest
<1>3. Right(within, token) \in Seq(Atom)
  BY <1>1, <1>2, Sides, TagTypes DEF Right
<1> DEFINE opens == Found(OpenTag, token)
           before == IF opens THEN Call(Before(OpenTag, token)) ELSE <<>>
           rest == IF opens THEN After(OpenTag, token) ELSE token
           block == within \/ opens
           closes == Found(CloseTag, rest)
           last == IF ~block THEN Call(rest)
                   ELSE IF closes THEN Call(After(CloseTag, rest)) ELSE <<>>
<1>4. Call(<<>>) = <<>>
  BY DEF Call
<1>5. before = Call(Left(token)) /\ rest = Rest(token)
  BY <1>4 DEF Left, Rest
<1>6. last = Call(Right(within, token))
  <2> HIDE DEF before
  <2> QED BY <1>4, <1>5 DEF Right
<1>7. Filter(within, token) = [inside |-> block /\ ~closes, shown |-> before \o last]
  BY DEF Filter
<1>8. closes = Found(CloseTag, Rest(token))
  <2> HIDE DEF before, last
  <2> QED BY <1>5
<1> HIDE DEF before, last, rest, closes
<1>9. /\ Filter(within, token).inside = (block /\ ~closes)
      /\ Filter(within, token).shown = before \o last
  BY <1>7
<1> QED BY <1>2, <1>3, <1>5, <1>6, <1>8, <1>9


\* What the filter can follow of a token: it opens at most one block, and none in a block.
Simple(within, token) ==
  /\ Cardinality(Places(OpenTag, token)) <= 1
  /\ Found(OpenTag, token) => ~within

\* The places of the token from a + 1 to b are the ones in a block, what the filter passes
\* on is the rest, and it remembers whether the block is open at the end.
CutAt(within, token, a, b) ==
  /\ \A j \in 1..Len(token) : InRest(within, token, j) <=> a < j /\ j <= b
  /\ Left(token) \o Right(within, token) = CutOut(token, a, b)
  /\ (within \/ Found(OpenTag, token)) /\ ~Found(CloseTag, Rest(token)) <=>
       InRest(within, token, Len(token) + 1)

\* A token without a tag that opens a block.
LEMMA CutWithoutOpening ==
  ASSUME NEW within \in BOOLEAN, NEW token \in Seq(Atom), ~Found(OpenTag, token)
  PROVE  \E a \in Nat, b \in Nat : a <= b /\ b <= Len(token) /\ CutAt(within, token, a, b)
<1> DEFINE m == Len(token)
           QC == Places(CloseTag, token)
<1>1. m \in Nat
  BY LenProperties
<1>2. Left(token) = <<>> /\ Rest(token) = token
  BY DEF Left, Rest
<1>3. \A j : InRest(within, token, j) <=> within /\ \A c \in QC : j <= c + 1
  BY DEF InRest, Found
<1>4. Found(CloseTag, token) <=> QC # {}
  BY DEF Found
<1>5. SubSeq(token, 1, 0) = <<>>
  BY SubSeqEmpty
<1>6. \A u \in Seq(Atom) : <<>> \o u = u
  BY ConcatEmptySeq
<1>7. CASE ~within
  <2>1. Right(within, token) = token
    BY <1>2, <1>7 DEF Right
  <2>2. SubSeq(token, 0 + 1, m) = token
    BY SubSeqFull
  <2>3. CutAt(within, token, 0, 0)
    <3>1. \A j \in 1..m : ~(0 < j /\ j <= 0)
      BY <1>1
    <3>2. \A j : ~InRest(within, token, j)
      BY <1>3, <1>7
    <3> QED BY <1>2, <1>5, <1>7, <2>1, <2>2, <3>1, <3>2 DEF CutAt, CutOut
  <2> QED BY <1>1, <2>3
<1>8. CASE within /\ QC = {}
  <2>1. Right(within, token) = <<>>
    BY <1>2, <1>4, <1>8 DEF Right
  <2>2. SubSeq(token, m + 1, m) = <<>>
    BY <1>1, SubSeqEmpty
  <2>3. CutAt(within, token, 0, m)
    <3>1. \A j \in 1..m : 0 < j /\ j <= m
      BY <1>1
    <3>2. \A j : InRest(within, token, j)
      BY <1>3, <1>8
    <3>3. within /\ ~Found(CloseTag, Rest(token))
      BY <1>2, <1>4, <1>8
    <3> QED BY <1>2, <1>5, <2>1, <2>2, <3>1, <3>2, <3>3 DEF CutAt, CutOut
  <2> QED BY <1>1, <2>3
<1>9. CASE within /\ QC # {}
  <2> DEFINE c == First(CloseTag, token)
  <2>1. c \in QC /\ c \in Nat /\ 1 <= c /\ c + 1 <= m /\ \A d \in QC : c <= d /\ d \in Nat
    <3>1. c \in QC /\ \A d \in QC : c <= d
      BY <1>4, <1>9, FirstPlace, TagTypes
    <3>2. c \in 1..m /\ c + 1 <= m
      BY <1>4, <1>9, Sides, TagTypes
    <3>3. QC \subseteq 1..m
      BY PlacesAre, TagTypes
    <3> HIDE DEF c, QC, m
    <3> QED BY <1>1, <3>1, <3>2, <3>3
  <2>2. Right(within, token) = SubSeq(token, (c + 1) + 1, m)
    <3>1. Right(within, token) = After(CloseTag, token)
      BY <1>2, <1>4, <1>9 DEF Right
    <3>2. (c + 1) + 1 = c + 2
      BY <2>1
    <3> QED BY <3>1, <3>2 DEF After
  <2>3. \A j \in Nat : InRest(within, token, j) <=> j <= c + 1
    <3> HIDE DEF c, QC
    <3>1. ASSUME NEW j \in Nat, j <= c + 1 PROVE \A d \in QC : j <= d + 1
      BY <2>1, <3>1
    <3> QED BY <1>3, <1>9, <2>1, <3>1
  <2> HIDE DEF c
  <2>4. CutAt(within, token, 0, c + 1)
    <3>1. \A j \in 1..m : j \in Nat /\ 0 < j
      BY <1>1
    <3>2. m + 1 \in Nat /\ ~(m + 1 <= c + 1)
      BY <1>1, <2>1
    <3>3. Found(CloseTag, Rest(token))
      BY <1>2, <1>4, <1>9
    <3> QED BY <1>2, <1>5, <2>2, <2>3, <3>1, <3>2, <3>3 DEF CutAt, CutOut
  <2>5. c + 1 \in Nat /\ 0 <= c + 1
    BY <2>1
  <2> QED BY <2>1, <2>4, <2>5
<1> QED BY <1>7, <1>8, <1>9

\* A token that opens a block.
LEMMA CutWithOpening ==
  ASSUME NEW within \in BOOLEAN, NEW token \in Seq(Atom), Found(OpenTag, token),
         Simple(within, token)
  PROVE  \E a \in Nat, b \in Nat : a <= b /\ b <= Len(token) /\ CutAt(within, token, a, b)
<1> DEFINE m == Len(token)
           QO == Places(OpenTag, token)
           QC == Places(CloseTag, token)
           q == First(OpenTag, token)
           rest == Rest(token)
           RC == Places(CloseTag, rest)
<1>1. m \in Nat /\ ~within /\ QO \subseteq 1..m /\ QC \subseteq 1..m
  BY LenProperties, PlacesAre, TagTypes DEF Simple
<1>2. q \in QO /\ q \in Nat /\ 1 <= q /\ q + 1 <= m
  <2>1. q \in QO
    BY FirstPlace, TagTypes
  <2>2. q \in 1..m /\ q + 1 <= m
    BY Sides, TagTypes
  <2> HIDE DEF q, QO, m
  <2> QED BY <1>1, <2>1, <2>2
<1>3. \A o \in QO : o = q
  <2>1. Cardinality(QO) <= 1
    BY DEF Simple
  <2> HIDE DEF q, QO, m
  <2> QED BY <1>1, <1>2, <2>1, NoTwo
<1>4. PICK a \in Nat : a + 1 = q
  BY <1>2
<1>5. Left(token) = SubSeq(token, 1, a)
  <2>1. q - 1 = a
    BY <1>2, <1>4
  <2> QED BY <2>1 DEF Left, Before
<1>6. PICK k \in Nat : k = q + 1 /\ k <= m /\ a <= k
  BY <1>1, <1>2, <1>4
<1>7. /\ rest = SubSeq(token, k + 1, m) /\ rest \in Seq(Atom)
      /\ Len(rest) = m - k /\ \A i \in 1..(m - k) : rest[i] = token[k + i]
  <2>1. k + 1 = q + 2
    BY <1>2, <1>6
  <2>2. rest = SubSeq(token, k + 1, m)
    BY <2>1 DEF Rest, After
  <2> HIDE DEF rest
  <2> QED BY <1>1, <1>6, <2>2, PartElements
<1>8. \A j : InRest(within, token, j) <=> q <= j /\ \A c \in QC : q < c => j <= c + 1
  <2>1. \A j : InRest(within, token, j) <=>
                 \E o \in QO : o <= j /\ \A c \in QC : o < c => j <= c + 1
    BY <1>1 DEF InRest
  <2> HIDE DEF QO, QC, q
  <2> QED BY <1>2, <1>3, <2>1
\* The tags after the one that opens the block are the ones of the rest.
<1>9. /\ \A c \in QC : c \in Nat /\ (q < c => c - k \in RC)
      /\ \A d \in RC : d \in Nat /\ 1 <= d /\ d + 1 <= m - k /\ k + d \in QC
  <2>1. \A i \in Nat : i \in QC <=> /\ 1 <= i /\ i + 1 <= m
                                    /\ token[i] = CloseTag[1] /\ token[i + 1] = CloseTag[2]
    BY PlacesAre, TagTypes
  <2>2. /\ RC \subseteq 1..Len(rest)
        /\ \A i \in Nat : i \in RC <=> /\ 1 <= i /\ i + 1 <= Len(rest)
                                       /\ rest[i] = CloseTag[1] /\ rest[i + 1] = CloseTag[2]
    <3> HIDE DEF rest
    <3> QED BY <1>7, PlacesAre, TagTypes
  <2>3. token[q + 1] # CloseTag[1]
    <3>1. token[q + 1] = OpenTag[2]
      BY <1>2, PlacesAre, TagTypes
    <3> QED BY <3>1, TagTypes
  <2> HIDE DEF QO, QC, RC, rest, q, m
  <2>4. m \in Nat /\ k \in Nat
    BY <1>1
  <2>5. \A d \in Nat : 1 <= d /\ d + 1 <= m - k =>
            /\ d \in 1..(m - k) /\ d + 1 \in 1..(m - k)
            /\ k + (d + 1) = (k + d) + 1 /\ k + d \in Nat
    BY ONLY <2>4
  <2>6. ASSUME NEW c \in QC PROVE c \in Nat /\ (q < c => c - k \in RC)
    <3>1. c \in Nat
      BY <1>1
    <3>2. ASSUME q < c PROVE c - k \in RC
      <4>1. c # q + 1 /\ c + 1 <= m
        BY <2>1, <2>3, <3>1
      <4>2. PICK d \in Nat : d = c - k /\ c = k + d /\ 1 <= d /\ d + 1 <= m - k
        BY <1>1, <1>2, <1>6, <3>1, <3>2, <4>1
      <4>3. d \in 1..(m - k) /\ d + 1 \in 1..(m - k) /\ k + (d + 1) = c + 1
        BY <2>5, <4>2
      <4>4. rest[d] = token[c] /\ rest[d + 1] = token[c + 1]
        BY <1>7, <4>2, <4>3
      <4>5. token[c] = CloseTag[1] /\ token[c + 1] = CloseTag[2]
        BY <2>1, <3>1
      <4>6. d + 1 <= Len(rest)
        BY <1>7, <4>2
      <4>7. d \in RC
        BY <2>2, <4>2, <4>4, <4>5, <4>6
      <4> QED BY <4>2, <4>7
    <3> QED BY <3>1, <3>2
  <2>7. ASSUME NEW d \in RC PROVE d \in Nat /\ 1 <= d /\ d + 1 <= m - k /\ k + d \in QC
    <3>1. d \in Nat
      BY <1>1, <1>6, <1>7, <2>2
    <3>2. /\ 1 <= d /\ d + 1 <= m - k
          /\ rest[d] = CloseTag[1] /\ rest[d + 1] = CloseTag[2]
      BY <1>7, <2>2, <3>1
    <3>3. d \in 1..(m - k) /\ d + 1 \in 1..(m - k) /\ k + (d + 1) = (k + d) + 1 /\ k + d \in Nat
      BY <2>5, <3>1, <3>2
    <3>4. token[k + d] = CloseTag[1] /\ token[(k + d) + 1] = CloseTag[2]
      BY <1>7, <3>2, <3>3
    <3>5. 1 <= k + d /\ (k + d) + 1 <= m
      BY <1>1, <1>6, <3>1, <3>2
    <3> QED BY <2>1, <3>1, <3>2, <3>3, <3>4, <3>5
  <2> QED BY <2>6, <2>7
<1>10. Found(CloseTag, rest) <=> RC # {}
  BY DEF Found
<1>11. CASE RC = {}
  <2>1. Right(within, token) = <<>>
    BY <1>10, <1>11 DEF Right
  <2>2. SubSeq(token, m + 1, m) = <<>>
    BY <1>1, SubSeqEmpty
  <2> HIDE DEF QO, QC, RC, rest, q
  <2>3. \A j : InRest(within, token, j) <=> q <= j
    BY <1>8, <1>9, <1>11
  <2>4. \A j \in 1..m : q <= j <=> a < j /\ j <= m
    BY <1>1, <1>2, <1>4
  <2>5. q <= m + 1
    BY <1>1, <1>2
  <2>6. CutAt(within, token, a, m)
    <3>1. ~Found(CloseTag, Rest(token))
      BY <1>10, <1>11 DEF rest
    <3> QED BY <1>5, <2>1, <2>2, <2>3, <2>4, <2>5, <3>1 DEF CutAt, CutOut
  <2> QED BY <1>1, <1>6, <2>6
<1>12. CASE RC # {}
  <2> DEFINE d == First(CloseTag, rest)
  <2>1. d \in RC /\ d \in Nat /\ 1 <= d /\ d + 1 <= m - k /\ \A e \in RC : d <= e
    <3>1. d \in RC /\ \A e \in RC : d <= e
      <4> HIDE DEF rest
      <4> QED BY <1>7, <1>10, <1>12, FirstPlace, TagTypes
    <3> HIDE DEF d, RC, QC
    <3> QED BY <1>9, <3>1
  <2>2. PICK b \in Nat : b = k + (d + 1) /\ a <= b /\ b <= m
    <3> HIDE DEF d, q, m
    <3>1. k + (d + 1) \in Nat /\ a <= k + (d + 1) /\ k + (d + 1) <= m
      BY <1>1, <1>6, <2>1
    <3> QED BY <3>1
  <2>3. Right(within, token) = SubSeq(token, b + 1, m)
    <3>1. Right(within, token) = After(CloseTag, rest)
      BY <1>10, <1>12 DEF Right
    <3>2. After(CloseTag, rest) = SubSeq(rest, d + 2, Len(rest))
      BY DEF After
    <3> DEFINE x == SubSeq(rest, (d + 1) + 1, Len(rest))
               y == SubSeq(token, b + 1, m)
    <3> HIDE DEF d, q, m, rest
    <3>3. /\ x \in Seq(Atom) /\ Len(x) = (m - k) - (d + 1)
          /\ \A i \in 1..((m - k) - (d + 1)) : x[i] = rest[(d + 1) + i]
      <4>1. PICK l \in Nat : l = Len(rest)
        BY <1>1, <1>6, <1>7
      <4>2. d + 1 \in Nat /\ d + 1 <= l /\ l <= Len(rest)
        BY <1>7, <2>1, <4>1
      <4> HIDE DEF x
      <4>3. PICK f \in Nat : f = d + 1
        BY <4>2
      <4>4. /\ SubSeq(rest, f + 1, l) \in Seq(Atom)
            /\ Len(SubSeq(rest, f + 1, l)) = l - f
            /\ \A i \in 1..(l - f) : SubSeq(rest, f + 1, l)[i] = rest[f + i]
        <5>1. rest \in Seq(Atom) /\ f <= l /\ l <= Len(rest)
          BY <1>7, <4>2, <4>3
        <5> QED BY ONLY <5>1, f \in Nat, l \in Nat, PartElements
      <4>5. /\ SubSeq(rest, (d + 1) + 1, l) \in Seq(Atom)
            /\ Len(SubSeq(rest, (d + 1) + 1, l)) = l - (d + 1)
            /\ \A i \in 1..(l - (d + 1)) :
                  SubSeq(rest, (d + 1) + 1, l)[i] = rest[(d + 1) + i]
        BY <4>3, <4>4
      <4> QED BY <1>7, <4>1, <4>5 DEF x
    <3>4. y \in Seq(Atom) /\ Len(y) = m - b /\ \A i \in 1..(m - b) : y[i] = token[b + i]
      <4> HIDE DEF y
      <4>1. m <= Len(token)
        BY <1>1 DEF m
      <4> QED BY <1>1, <2>2, <4>1, PartElements DEF y
    <3>5. (m - k) - (d + 1) = m - b
      BY <1>1, <1>6, <2>1, <2>2
    <3>6. ASSUME NEW i \in 1..(m - b) PROVE x[i] = y[i]
      <4>1. (d + 1) + i \in 1..(m - k) /\ k + ((d + 1) + i) = b + i
        BY <1>1, <1>6, <2>1, <2>2
      <4>2. rest[(d + 1) + i] = token[b + i]
        BY <1>7, <4>1
      <4> HIDE DEF x, y
      <4> QED BY <3>3, <3>4, <3>5, <4>2
    <3>7. x = y
      <4> HIDE DEF x, y
      <4>1. Len(x) = m - b
        BY <3>3, <3>5
      <4> QED BY <3>3, <3>4, <3>6, <4>1, SeqEqual
    <3>8. (d + 1) + 1 = d + 2
      BY <2>1
    <3> QED BY <3>1, <3>2, <3>7, <3>8 DEF rest
  <2> HIDE DEF QO, QC, RC, rest, q, d
  <2>4. \A j \in Nat : InRest(within, token, j) <=> a < j /\ j <= b
    <3>1. ASSUME NEW j \in Nat, InRest(within, token, j) PROVE a < j /\ j <= b
      <4>1. q <= j /\ \A c \in QC : q < c => j <= c + 1
        BY <1>8, <3>1
      <4>2. k + d \in QC /\ q < k + d
        BY <1>2, <1>6, <1>9, <2>1
      <4>3. j <= (k + d) + 1
        BY <4>1, <4>2
      <4> QED BY <1>2, <1>4, <1>6, <2>1, <2>2, <4>1, <4>3
    <3>2. ASSUME NEW j \in Nat, a < j, j <= b PROVE InRest(within, token, j)
      <4>1. q <= j
        BY <1>2, <1>4, <3>2
      <4>2. ASSUME NEW c \in QC, q < c PROVE j <= c + 1
        <5>1. c \in Nat /\ c - k \in RC
          BY <1>9, <4>2
        <5>2. d <= c - k
          BY <2>1, <5>1
        <5> QED BY <1>6, <2>1, <2>2, <3>2, <5>1, <5>2
      <4> QED BY <1>8, <4>1, <4>2
    <3> QED BY <3>1, <3>2
  <2>5. CutAt(within, token, a, b)
    <3>1. Found(CloseTag, Rest(token))
      BY <1>10, <1>12 DEF rest
    <3>2. m + 1 \in Nat /\ ~(m + 1 <= b) /\ \A j \in 1..m : j \in Nat
      BY <1>1, <2>2
    <3> QED BY <1>5, <2>3, <2>4, <3>1, <3>2 DEF CutAt, CutOut
  <2> QED BY <2>2, <2>5
<1> QED BY <1>11, <1>12


\* What is visible of a text is made of its atoms.
LEMMA FlattenType ==
  ASSUME NEW S, NEW n \in Nat, NEW f \in [1..n -> Seq(S)]
  PROVE  FlattenSeq(f) \in Seq(S)
<1>1. f \in Seq(Seq(S)) /\ Len(f) = n
  <2> DEFINE T == Seq(S)
  <2> HIDE DEF T
  <2>1. \A g \in [1..n -> T] : g \in Seq(T) /\ DOMAIN g = 1..n
    OBVIOUS
  <2>2. f \in Seq(T) /\ DOMAIN f = 1..n
    BY <2>1 DEF T
  <2> QED BY <2>2, LenProperties DEF T
<1>2. PICK F : Joins(F, f, Len(f), S)
  BY <1>1, JoinsExist
<1> QED BY <1>1, <1>2, FlattenByJoins

\* When a token comes after a text, what the filter passes on is what becomes visible.
LEMMA VisibleOfMore ==
  ASSUME NEW text \in Seq(Atom), NEW token \in Seq(Atom), Unsplit(text, token),
         NEW within \in BOOLEAN, within <=> InBlock(text, Len(text) + 1), Simple(within, token)
  PROVE  /\ Visible(text \o token) = Visible(text) \o (Left(token) \o Right(within, token))
         /\ Visible(text) \in Seq(Atom)
         /\ Filter(within, token).inside <=> InBlock(text \o token, Len(text \o token) + 1)
<1> DEFINE n == Len(text)
           m == Len(token)
           all == text \o token
           f == [i \in 1..n |-> IF InBlock(text, i) THEN <<>> ELSE <<text[i]>>]
           g == [j \in 1..m |-> IF InRest(within, token, j) THEN <<>> ELSE <<token[j]>>]
           h == [i \in 1..(n + m) |-> IF InBlock(all, i) THEN <<>> ELSE <<all[i]>>]
<1>1. /\ n \in Nat /\ m \in Nat /\ DOMAIN text = 1..n
      /\ all \in Seq(Atom) /\ Len(all) = n + m /\ DOMAIN all = 1..(n + m)
      /\ \A i \in 1..n : text[i] \in Atom /\ all[i] = text[i]
      /\ \A j \in 1..m : token[j] \in Atom /\ all[n + j] = token[j]
  <2>1. n \in Nat /\ m \in Nat /\ DOMAIN text = 1..n
    BY LenProperties
  <2>2. /\ all \in Seq(Atom) /\ Len(all) = n + m
        /\ \A i \in 1..(n + m) : all[i] = IF i <= n THEN text[i] ELSE token[i - n]
    BY ConcatProperties
  <2>3. DOMAIN all = 1..(n + m)
    <3> HIDE DEF all
    <3> QED BY <2>2, LenProperties
  <2>4. \A i \in 1..n : text[i] \in Atom
    BY <2>1, ElementOfSeq
  <2>5. \A j \in 1..m : token[j] \in Atom
    BY <2>1, ElementOfSeq
  <2> HIDE DEF n, m, all
  <2>6. \A i \in 1..n : i \in 1..(n + m) /\ i <= n
    BY <2>1
  <2>7. \A j \in 1..m : n + j \in 1..(n + m) /\ ~(n + j <= n) /\ (n + j) - n = j
    BY <2>1
  <2> QED BY <2>1, <2>2, <2>3, <2>4, <2>5, <2>6, <2>7
<1>2. /\ \A i \in 1..n : InBlock(all, i) <=> InBlock(text, i)
      /\ \A j \in 1..(m + 1) : InBlock(all, n + j) <=> InRest(within, token, j)
  <2>1. \A j : InRest(InBlock(text, n + 1), token, j) <=> InRest(within, token, j)
    BY DEF InRest
  <2> QED BY <2>1, BlocksOfMore
<1>3. /\ f \in [1..n -> Seq(Atom)] /\ g \in [1..m -> Seq(Atom)] /\ h \in [1..(n + m) -> Seq(Atom)]
  <2>1. <<>> \in Seq(Atom) /\ \A a \in Atom : <<a>> \in Seq(Atom)
    OBVIOUS
  <2>2. \A i \in 1..(n + m) : all[i] \in Atom
    <3> HIDE DEF all, n, m
    <3> QED BY <1>1, ElementOfSeq
  <2> HIDE DEF all, n, m
  <2> QED BY <1>1, <2>1, <2>2
<1>4. (\A i \in 1..n : h[i] = f[i]) /\ \A j \in 1..m : h[n + j] = g[j]
  <2> HIDE DEF all, n, m
  <2>1. \A i \in 1..n : i \in 1..(n + m)
    BY <1>1
  <2>2. \A j \in 1..m : n + j \in 1..(n + m) /\ j \in 1..(m + 1)
    BY <1>1
  <2> QED BY <1>1, <1>2, <2>1, <2>2
<1>5. FlattenSeq(h) = FlattenSeq(f) \o FlattenSeq(g) /\ FlattenSeq(f) \in Seq(Atom)
  <2> HIDE DEF f, g, h, all, n, m
  <2>1. n \in Nat /\ m \in Nat
    BY <1>1
  <2>2. FlattenSeq(f) \in Seq(Atom)
    BY <1>3, <2>1, FlattenType
  <2>3. FlattenSeq(h) = FlattenSeq(f) \o FlattenSeq(g)
    <3>1. Joined(Atom, n, m, f, g, h)
      BY <1>3, <1>4, <2>1 DEF Joined
    <3> QED BY <3>1, FlattenBoth
  <2> QED BY <2>2, <2>3
<1>6. Visible(text) = FlattenSeq(f) /\ Visible(all) = FlattenSeq(h)
  <2> HIDE DEF all, n, m
  <2> QED BY <1>1 DEF Visible
<1>7. PICK a \in Nat, b \in Nat : a <= b /\ b <= m /\ CutAt(within, token, a, b)
  BY CutWithOpening, CutWithoutOpening
<1>8. FlattenSeq(g) = CutOut(token, a, b)
  <2>1. \A j \in 1..m : g[j] = IF a < j /\ j <= b THEN <<>> ELSE <<token[j]>>
    BY <1>7 DEF CutAt
  <2>2. token \in Seq(Atom) /\ m \in Nat /\ m = Len(token) /\ a <= b /\ b <= m
    BY <1>1, <1>7
  <2> HIDE DEF g, m
  <2>3. Taken(Atom, token, m, a, b, g)
    BY <1>3, <2>1, <2>2 DEF Taken
  <2> QED BY <2>2, <2>3, FlattenCut
<1>9. Left(token) \o Right(within, token) = FlattenSeq(g)
  BY <1>7, <1>8 DEF CutAt
<1>10. Filter(within, token).inside <=> InBlock(all, Len(all) + 1)
  <2>1. Filter(within, token).inside <=> InRest(within, token, m + 1)
    BY <1>7, FilterShape DEF CutAt
  <2>2. m + 1 \in 1..(m + 1) /\ n + (m + 1) = (n + m) + 1
    BY <1>1
  <2> HIDE DEF all, n, m
  <2> QED BY <1>1, <1>2, <2>1, <2>2
<1> HIDE DEF f, g, h, all
<1> QED BY <1>5, <1>6, <1>9, <1>10 DEF all


-----------------------------------------------------------------------------
(* Tokens, events and calls. *)

Calls == [task : Task, text : Seq(Atom), final : BOOLEAN]

\* The same of calls.
LEMMA RegroupCalls ==
  ASSUME NEW x \in Seq(Calls), NEW y \in Seq(Calls), NEW z \in Seq(Calls)
  PROVE  (x \o y) \o z = x \o (y \o z)
<1> HIDE DEF Calls
<1> QED BY ConcatAssociative

\* What is told of a task by a sequence of events, and of a sequence of calls.
TokensOf(s, t) ==
  FlattenSeq([i \in DOMAIN s |-> IF s[i].task = t /\ ~s[i].final
                                 THEN <<Spelled(s[i].text)>> ELSE <<>>])
ShownOf(c, t) ==
  FlattenSeq([i \in DOMAIN c |-> IF c[i].task = t THEN c[i].text ELSE <<>>])

\* The atoms of a token.
LEMMA SpelledType ==
  ASSUME NEW words \in Client!Text
  PROVE  Spelled(words) \in Seq(Atom)
<1>1. \A w \in Word \cup {Notice} : Spelling[w] \in Seq(Atom)
  <2> SUFFICES ASSUME NEW w \in Word \cup {Notice} PROVE Spelling[w] \in Seq(Atom)
    OBVIOUS
  <2> DEFINE W == {Range(Spelling[v]) : v \in Word \cup {Notice}}
  <2>1. Atom = (UNION W) \cup Range(OpenTag) \cup Range(CloseTag)
    BY DEF Atom
  <2>2. Range(Spelling[w]) \in W
    OBVIOUS
  <2> HIDE DEF W
  <2>3. Range(Spelling[w]) \subseteq Atom
    BY <2>1, <2>2
  <2> QED BY <2>3, SpellingAssumption, SeqMonotonic
<1>2. Len(words) \in Nat /\ DOMAIN words = 1..Len(words)
      /\ \A i \in 1..Len(words) : words[i] \in Word \cup {Notice}
  BY LenProperties, ElementOfSeq DEF Client!Text
<1> DEFINE f == [i \in 1..Len(words) |-> Spelling[words[i]]]
<1>3. f \in [1..Len(words) -> Seq(Atom)]
  BY <1>1, <1>2
<1>4. Spelled(words) = FlattenSeq(f)
  BY <1>2 DEF Spelled
<1> HIDE DEF f
<1> QED BY <1>2, <1>3, <1>4, FlattenType

\* No event and no call tells nothing.
LEMMA NothingTold == \A t : TokensOf(<<>>, t) = <<>> /\ ShownOf(<<>>, t) = <<>>
<1> TAKE t
<1> DEFINE f == [i \in DOMAIN <<>> |-> IF <<>>[i].task = t /\ ~<<>>[i].final
                                      THEN <<Spelled(<<>>[i].text)>> ELSE <<>>]
           g == [i \in DOMAIN <<>> |-> IF <<>>[i].task = t THEN <<>>[i].text ELSE <<>>]
<1>1. f = <<>> /\ g = <<>>
  OBVIOUS
<1>2. TokensOf(<<>>, t) = FlattenSeq(f) /\ ShownOf(<<>>, t) = FlattenSeq(g)
  BY DEF TokensOf, ShownOf
<1> HIDE DEF f, g
<1> QED BY <1>1, <1>2, FlattenNone

\* One more event of the client.
LEMMA TokensOfMore ==
  ASSUME NEW s \in Seq(Client!Events), NEW e \in Client!Events, NEW t
  PROVE  /\ TokensOf(s, t) \in Seq(Seq(Atom))
         /\ TokensOf(Append(s, e), t) =
              IF e.task = t /\ ~e.final THEN Append(TokensOf(s, t), Spelled(e.text))
              ELSE TokensOf(s, t)
<1> DEFINE n == Len(s)
           a == Append(s, e)
           Piece(d) == IF d.task = t /\ ~d.final THEN <<Spelled(d.text)>> ELSE <<>>
           f == [i \in 1..n |-> Piece(s[i])]
           g == [i \in 1..(n + 1) |-> Piece(a[i])]
<1>1. /\ n \in Nat /\ DOMAIN s = 1..n /\ DOMAIN a = 1..(n + 1)
      /\ a[n + 1] = e /\ \A i \in 1..n : a[i] = s[i] /\ s[i] \in Client!Events
  <2>1. n \in Nat /\ DOMAIN s = 1..n /\ \A i \in 1..n : s[i] \in Client!Events
    BY LenProperties, ElementOfSeq
  <2>2. a \in Seq(Client!Events) /\ Len(a) = n + 1 /\ a[n + 1] = e /\ \A i \in 1..n : a[i] = s[i]
    BY AppendProperties
  <2>3. DOMAIN a = 1..(n + 1)
    BY <2>2, LenProperties
  <2> QED BY <2>1, <2>2, <2>3
<1>2. \A d \in Client!Events : Piece(d) \in Seq(Seq(Atom))
  <2> SUFFICES ASSUME NEW d \in Client!Events PROVE Piece(d) \in Seq(Seq(Atom))
    OBVIOUS
  <2>1. Spelled(d.text) \in Seq(Atom)
    BY SpelledType DEF Client!Events
  <2> DEFINE x == Spelled(d.text)
             T == Seq(Atom)
  <2> HIDE DEF x, T
  <2>2. <<x>> \in Seq(T) /\ <<>> \in Seq(T)
    BY <2>1 DEF x, T
  <2> QED BY <2>2 DEF x, T
<1>3. TokensOf(s, t) = FlattenSeq(f) /\ TokensOf(a, t) = FlattenSeq(g)
  <2> HIDE DEF n, a
  <2> QED BY <1>1 DEF TokensOf
<1>4. f \in [1..n -> Seq(Seq(Atom))] /\ g \in [1..(n + 1) -> Seq(Seq(Atom))]
      /\ (\A i \in 1..n : g[i] = f[i]) /\ g[n + 1] = Piece(e)
  <2> HIDE DEF n, a
  <2>1. \A i \in 1..(n + 1) : i \in 1..n \/ i = n + 1
    BY <1>1
  <2>2. \A i \in 1..n : i \in 1..(n + 1)
    BY <1>1
  <2>3. n + 1 \in 1..(n + 1)
    BY <1>1
  <2>4. \A i \in 1..n : Piece(s[i]) \in Seq(Seq(Atom)) /\ Piece(a[i]) = Piece(s[i])
    <3> HIDE DEF Piece
    <3> QED BY <1>1, <1>2
  <2>5. Piece(a[n + 1]) = Piece(e) /\ Piece(e) \in Seq(Seq(Atom))
    <3> HIDE DEF Piece
    <3> QED BY <1>1, <1>2
  <2> HIDE DEF Piece
  <2> QED BY <2>1, <2>2, <2>3, <2>4, <2>5
<1>5. FlattenSeq(g) = FlattenSeq(f) \o g[n + 1] /\ FlattenSeq(f) \in Seq(Seq(Atom))
  <2> HIDE DEF f, g, n
  <2> QED BY <1>1, <1>4, FlattenOfMore
<1> HIDE DEF f, g
<1>6. TokensOf(s, t) \in Seq(Seq(Atom)) /\ TokensOf(a, t) = TokensOf(s, t) \o Piece(e)
  BY <1>3, <1>4, <1>5
<1>7. Spelled(e.text) \in Seq(Atom)
  BY SpelledType DEF Client!Events
<1>8. CASE e.task = t /\ ~e.final
  <2>1. Piece(e) = <<Spelled(e.text)>>
    BY <1>8
  <2>2. TokensOf(s, t) \o <<Spelled(e.text)>> = Append(TokensOf(s, t), Spelled(e.text))
    BY <1>6, <1>7, AppendIsConcat
  <2> QED BY <1>6, <1>8, <2>1, <2>2
<1>9. CASE ~(e.task = t /\ ~e.final)
  <2>1. Piece(e) = <<>>
    BY <1>9
  <2>2. TokensOf(s, t) \o <<>> = TokensOf(s, t)
    BY <1>6, ConcatEmptySeq
  <2> QED BY <1>6, <1>9, <2>1, <2>2
<1> QED BY <1>8, <1>9

\* One more call.
LEMMA ShownOfMore ==
  ASSUME NEW c \in Seq(Calls), NEW d \in Calls, NEW t
  PROVE  /\ ShownOf(c, t) \in Seq(Atom)
         /\ ShownOf(Append(c, d), t) =
              IF d.task = t THEN ShownOf(c, t) \o d.text ELSE ShownOf(c, t)
<1> DEFINE n == Len(c)
           a == Append(c, d)
           Piece(x) == IF x.task = t THEN x.text ELSE <<>>
           f == [i \in 1..n |-> Piece(c[i])]
           g == [i \in 1..(n + 1) |-> Piece(a[i])]
<1>1. /\ n \in Nat /\ DOMAIN c = 1..n /\ DOMAIN a = 1..(n + 1)
      /\ a[n + 1] = d /\ \A i \in 1..n : a[i] = c[i] /\ c[i] \in Calls
  <2>1. n \in Nat /\ DOMAIN c = 1..n /\ \A i \in 1..n : c[i] \in Calls
    BY LenProperties, ElementOfSeq
  <2>2. a \in Seq(Calls) /\ Len(a) = n + 1 /\ a[n + 1] = d /\ \A i \in 1..n : a[i] = c[i]
    BY AppendProperties
  <2>3. DOMAIN a = 1..(n + 1)
    BY <2>2, LenProperties
  <2> QED BY <2>1, <2>2, <2>3
<1>2. \A x \in Calls : Piece(x) \in Seq(Atom)
  <2>1. <<>> \in Seq(Atom)
    OBVIOUS
  <2> QED BY <2>1 DEF Calls
<1>3. ShownOf(c, t) = FlattenSeq(f) /\ ShownOf(a, t) = FlattenSeq(g)
  <2> HIDE DEF n, a
  <2> QED BY <1>1 DEF ShownOf
<1>4. f \in [1..n -> Seq(Atom)] /\ g \in [1..(n + 1) -> Seq(Atom)]
      /\ (\A i \in 1..n : g[i] = f[i]) /\ g[n + 1] = Piece(d)
  <2> HIDE DEF n, a
  <2>1. \A i \in 1..(n + 1) : i \in 1..n \/ i = n + 1
    BY <1>1
  <2>2. \A i \in 1..n : i \in 1..(n + 1)
    BY <1>1
  <2>3. n + 1 \in 1..(n + 1)
    BY <1>1
  <2> HIDE DEF Piece
  <2>4. \A i \in 1..n : Piece(c[i]) \in Seq(Atom) /\ Piece(a[i]) = Piece(c[i])
    BY <1>1, <1>2
  <2>5. Piece(a[n + 1]) = Piece(d) /\ Piece(d) \in Seq(Atom)
    BY <1>1, <1>2
  <2> QED BY <2>1, <2>2, <2>3, <2>4, <2>5
<1>5. FlattenSeq(g) = FlattenSeq(f) \o g[n + 1] /\ FlattenSeq(f) \in Seq(Atom)
  <2> HIDE DEF f, g, n
  <2> QED BY <1>1, <1>4, FlattenOfMore
<1> HIDE DEF f, g
<1>6. ShownOf(c, t) \in Seq(Atom) /\ ShownOf(a, t) = ShownOf(c, t) \o Piece(d)
  BY <1>3, <1>4, <1>5
<1>7. ShownOf(c, t) \o <<>> = ShownOf(c, t)
  BY <1>6, ConcatEmptySeq
<1> QED BY <1>6, <1>7


\* The calls that pass texts on, for a task.
Made(t, texts) ==
  [i \in DOMAIN texts |-> [task |-> t, text |-> texts[i], final |-> FALSE]]

\* The calls made for some texts, one by one.
LEMMA MadeType ==
  ASSUME NEW t \in Task, NEW texts \in Seq(Seq(Atom))
  PROVE  /\ Made(t, texts) \in Seq(Calls) /\ Len(Made(t, texts)) = Len(texts)
         /\ \A i \in 1..Len(texts) :
               Made(t, texts)[i] = [task |-> t, text |-> texts[i], final |-> FALSE]
<1> DEFINE n == Len(texts)
           f == [i \in 1..n |-> [task |-> t, text |-> texts[i], final |-> FALSE]]
<1>1. n \in Nat /\ DOMAIN texts = 1..n /\ \A i \in 1..n : texts[i] \in Seq(Atom)
  BY LenProperties, ElementOfSeq
<1>2. f \in [1..n -> Calls]
  BY <1>1 DEF Calls
<1>3. Made(t, texts) = f
  BY <1>1 DEF Made
<1>4. f \in Seq(Calls) /\ Len(f) = n
  <2>1. \A g \in [1..n -> Calls] : g \in Seq(Calls) /\ DOMAIN g = 1..n
    BY <1>1
  <2> HIDE DEF f
  <2> QED BY <1>1, <1>2, <2>1, LenProperties
<1>5. \A i \in 1..n : f[i] = [task |-> t, text |-> texts[i], final |-> FALSE]
  OBVIOUS
<1> HIDE DEF f
<1> QED BY <1>3, <1>4, <1>5

\* A text on its own, with other texts after it.
LEMMA Lone ==
  ASSUME NEW x \in Seq(Atom)
  PROVE  <<x>> \in Seq(Seq(Atom)) /\ Len(<<x>>) = 1 /\ <<x>>[1] = x /\ <<>> \in Seq(Seq(Atom))
<1> DEFINE T == Seq(Atom)
<1> HIDE DEF T
<1>1. x \in T
  BY DEF T
<1>2. <<x>> \in Seq(T) /\ Len(<<x>>) = 1 /\ <<x>>[1] = x /\ <<>> \in Seq(T)
  BY <1>1
<1> QED BY <1>2 DEF T

\* The call for one text.
LEMMA MadeOfOne ==
  ASSUME NEW t \in Task, NEW x \in Seq(Atom)
  PROVE  Made(t, <<x>>) = <<[task |-> t, text |-> x, final |-> FALSE]>>
<1> DEFINE d == [task |-> t, text |-> x, final |-> FALSE]
           u == <<x>>
           v == Made(t, u)
<1>1. u \in Seq(Seq(Atom)) /\ Len(u) = 1 /\ u[1] = x
  BY Lone
<1>2. d \in Calls
  BY DEF Calls
<1>3. v \in Seq(Calls) /\ Len(v) = 1 /\ v[1] = d
  <2>1. 1 \in 1..1
    OBVIOUS
  <2> HIDE DEF u
  <2> QED BY <1>1, <2>1, MadeType
<1> HIDE DEF d, v
<1>4. <<d>> \in Seq(Calls) /\ Len(<<d>>) = 1 /\ <<d>>[1] = d
  BY <1>2
<1>5. PICK w \in Seq(Calls) : w = <<d>>
  BY <1>4
<1>6. \A i \in 1..Len(v) : v[i] = w[i]
  <2>1. \A i \in 1..1 : i = 1
    OBVIOUS
  <2> QED BY <1>3, <1>4, <1>5, <2>1
<1>7. v = w
  BY <1>3, <1>4, <1>5, <1>6, SeqEqual
<1> QED BY <1>5, <1>7 DEF d, u, v

\* The calls for some texts and for more of them.
LEMMA MadeOfBoth ==
  ASSUME NEW t \in Task, NEW u \in Seq(Seq(Atom)), NEW v \in Seq(Seq(Atom))
  PROVE  Made(t, u \o v) = Made(t, u) \o Made(t, v)
<1> DEFINE a == Made(t, u)
           b == Made(t, v)
           c == Made(t, u \o v)
           d(z) == [task |-> t, text |-> z, final |-> FALSE]
<1>1. /\ u \o v \in Seq(Seq(Atom)) /\ Len(u \o v) = Len(u) + Len(v)
      /\ \A i \in 1..(Len(u) + Len(v)) :
            (u \o v)[i] = IF i <= Len(u) THEN u[i] ELSE v[i - Len(u)]
      /\ Len(u) \in Nat /\ Len(v) \in Nat
  BY ConcatProperties, LenProperties
<1>2. a \in Seq(Calls) /\ Len(a) = Len(u) /\ \A i \in 1..Len(u) : a[i] = d(u[i])
  BY MadeType
<1>3. b \in Seq(Calls) /\ Len(b) = Len(v) /\ \A i \in 1..Len(v) : b[i] = d(v[i])
  BY MadeType
<1>4. PICK w \in Seq(Seq(Atom)) : w = u \o v
  BY <1>1
<1>5. /\ c \in Seq(Calls) /\ Len(c) = Len(u) + Len(v)
      /\ \A i \in 1..(Len(u) + Len(v)) : c[i] = d(w[i])
  <2>1. /\ Made(t, w) \in Seq(Calls) /\ Len(Made(t, w)) = Len(w)
        /\ \A i \in 1..Len(w) : Made(t, w)[i] = d(w[i])
    BY MadeType
  <2> HIDE DEF d
  <2> QED BY <1>1, <1>4, <2>1
<1> HIDE DEF a, b, c, d
<1>6. /\ a \o b \in Seq(Calls) /\ Len(a \o b) = Len(u) + Len(v)
      /\ \A i \in 1..(Len(u) + Len(v)) :
            (a \o b)[i] = IF i <= Len(u) THEN a[i] ELSE b[i - Len(u)]
  <2>1. a \in Seq(Calls) /\ b \in Seq(Calls)
    BY <1>2, <1>3
  <2>2. /\ a \o b \in Seq(Calls) /\ Len(a \o b) = Len(a) + Len(b)
        /\ \A i \in 1..(Len(a) + Len(b)) :
              (a \o b)[i] = IF i <= Len(a) THEN a[i] ELSE b[i - Len(a)]
    BY ONLY <2>1, ConcatProperties
  <2>3. Len(a) = Len(u) /\ Len(b) = Len(v)
    BY <1>2, <1>3
  <2> QED BY <2>2, <2>3
<1>7. ASSUME NEW i \in 1..(Len(u) + Len(v)) PROVE c[i] = (a \o b)[i]
  <2>1. CASE i <= Len(u)
    <3>1. i \in 1..Len(u)
      BY <1>1, <2>1
    <3> QED BY <1>1, <1>2, <1>4, <1>5, <1>6, <2>1, <3>1
  <2>2. CASE ~(i <= Len(u))
    <3>1. i - Len(u) \in 1..Len(v)
      BY <1>1, <2>2
    <3> QED BY <1>1, <1>3, <1>4, <1>5, <1>6, <2>2, <3>1
  <2> QED BY <2>1, <2>2
<1>8. PICK e \in Seq(Calls) : e = a \o b
  BY <1>6
<1>9. c = e
  <2>1. Len(c) = Len(e) /\ \A i \in 1..Len(c) : c[i] = e[i]
    BY <1>5, <1>6, <1>7, <1>8
  <2> QED BY <1>5, <2>1, SeqEqual
<1> QED BY <1>8, <1>9 DEF a, b, c

\* The first calls, with the calls for one text after them.
LEMMA ShownOfOne ==
  ASSUME NEW c \in Seq(Calls), NEW t \in Task, NEW x \in Seq(Atom)
  PROVE  /\ c \o Made(t, <<x>>) \in Seq(Calls) /\ Made(t, <<x>>) \in Seq(Calls)
         /\ ShownOf(c \o Made(t, <<x>>), t) = ShownOf(c, t) \o x
         /\ \A u : u # t => ShownOf(c \o Made(t, <<x>>), u) = ShownOf(c, u)
<1> DEFINE d == [task |-> t, text |-> x, final |-> FALSE]
<1>1. d \in Calls /\ d.task = t /\ d.text = x
  BY DEF Calls
<1>2. Made(t, <<x>>) = <<d>>
  BY MadeOfOne
<1> HIDE DEF d
<1>3. Append(c, d) = c \o <<d>> /\ Append(c, d) \in Seq(Calls) /\ <<d>> \in Seq(Calls)
  BY <1>1, AppendIsConcat, AppendProperties
<1>4. ShownOf(Append(c, d), t) = ShownOf(c, t) \o x
  BY <1>1, ShownOfMore
<1>5. \A u : u # t => ShownOf(Append(c, d), u) = ShownOf(c, u)
  BY <1>1, ShownOfMore
<1> QED BY <1>2, <1>3, <1>4, <1>5

\* With the calls for a text that may be empty.
LEMMA ShownOfCall ==
  ASSUME NEW c \in Seq(Calls), NEW t \in Task, NEW x \in Seq(Atom)
  PROVE  /\ c \o Made(t, Call(x)) \in Seq(Calls) /\ Made(t, Call(x)) \in Seq(Calls)
         /\ ShownOf(c \o Made(t, Call(x)), t) = ShownOf(c, t) \o x
         /\ \A u : u # t => ShownOf(c \o Made(t, Call(x)), u) = ShownOf(c, u)
<1>1. CASE x = <<>>
  <2>1. Made(t, Call(x)) = <<>>
    <3>1. Call(x) = <<>>
      BY <1>1 DEF Call
    <3>2. Made(t, <<>>) = <<>>
      BY DEF Made
    <3> QED BY <3>1, <3>2
  <2>2. c \o <<>> = c
    BY ConcatEmptySeq
  <2>3. ShownOf(c, t) \in Seq(Atom)
    <3>1. [task |-> t, text |-> x, final |-> FALSE] \in Calls
      BY DEF Calls
    <3> QED BY <3>1, ShownOfMore
  <2>4. ShownOf(c, t) \o <<>> = ShownOf(c, t)
    BY <2>3, ConcatEmptySeq
  <2>5. <<>> \in Seq(Calls)
    OBVIOUS
  <2> QED BY <1>1, <2>1, <2>2, <2>4, <2>5
<1>2. CASE x # <<>>
  <2>1. Call(x) = <<x>>
    BY <1>2 DEF Call
  <2>2. /\ c \o Made(t, <<x>>) \in Seq(Calls) /\ Made(t, <<x>>) \in Seq(Calls)
        /\ ShownOf(c \o Made(t, <<x>>), t) = ShownOf(c, t) \o x
        /\ \A u : u # t => ShownOf(c \o Made(t, <<x>>), u) = ShownOf(c, u)
    BY ShownOfOne
  <2> QED BY <2>1, <2>2
<1> QED BY <1>1, <1>2

\* With the calls for the two texts the filter passes on of one token.
MadeTwo(t, x, y) == Made(t, Call(x) \o Call(y))

AddsTwo(c, m, t, x, y) ==
  /\ c \o m \in Seq(Calls) /\ m \in Seq(Calls)
  /\ ShownOf(c \o m, t) = ShownOf(c, t) \o (x \o y)
  /\ \A u : u # t => ShownOf(c \o m, u) = ShownOf(c, u)

\* They show the one text after the other, and nothing to other tasks.
LEMMA ShownOfTwo ==
  ASSUME NEW c \in Seq(Calls), NEW t \in Task, NEW x \in Seq(Atom), NEW y \in Seq(Atom)
  PROVE  AddsTwo(c, MadeTwo(t, x, y), t, x, y)
<1> DEFINE a == Made(t, Call(x))
           b == Made(t, Call(y))
           m == MadeTwo(t, x, y)
<1>1. m = a \o b
  <2>1. Call(x) \in Seq(Seq(Atom)) /\ Call(y) \in Seq(Seq(Atom))
    BY Lone DEF Call
  <2> QED BY <2>1, MadeOfBoth DEF MadeTwo
<1>2. /\ c \o a \in Seq(Calls) /\ a \in Seq(Calls)
      /\ ShownOf(c \o a, t) = ShownOf(c, t) \o x
      /\ \A u : u # t => ShownOf(c \o a, u) = ShownOf(c, u)
  BY ShownOfCall
<1>3. PICK k \in Seq(Calls) : k = c \o a
  BY <1>2
<1>4. /\ k \o b \in Seq(Calls) /\ b \in Seq(Calls)
      /\ ShownOf(k \o b, t) = ShownOf(k, t) \o y
      /\ \A u : u # t => ShownOf(k \o b, u) = ShownOf(k, u)
  BY ShownOfCall
<1>5. k \o b = c \o m /\ m \in Seq(Calls)
  <2> HIDE DEF a, b, m
  <2>1. a \in Seq(Calls) /\ b \in Seq(Calls)
    BY <1>2, <1>4
  <2>2. (c \o a) \o b = c \o (a \o b)
    <3>1. PICK v \in Seq(Calls) : v = a
      BY <2>1
    <3>2. PICK w \in Seq(Calls) : w = b
      BY <2>1
    <3>3. (c \o v) \o w = c \o (v \o w)
      BY ONLY c \in Seq(Calls), v \in Seq(Calls), w \in Seq(Calls), RegroupCalls
    <3> QED BY <3>1, <3>2, <3>3
  <2>3. a \o b \in Seq(Calls)
    BY ONLY <2>1, ConcatProperties
  <2> QED BY <1>1, <1>3, <2>2, <2>3
<1>6. ShownOf(k \o b, t) = ShownOf(c, t) \o (x \o y)
  <2>1. ShownOf(c, t) \in Seq(Atom)
    <3>1. [task |-> t, text |-> x, final |-> FALSE] \in Calls
      BY DEF Calls
    <3> QED BY <3>1, ShownOfMore
  <2>2. PICK w \in Seq(Atom) : w = ShownOf(c, t)
    BY <2>1
  <2>3. (w \o x) \o y = w \o (x \o y)
    BY Regroup
  <2> QED BY <1>2, <1>3, <1>4, <2>2, <2>3
<1> HIDE DEF a, b, m
<1>7. \A u : u # t => ShownOf(k \o b, u) = ShownOf(c, u)
  BY <1>2, <1>3, <1>4
<1>8. c \o m \in Seq(Calls)
  BY <1>4, <1>5
<1> QED BY <1>5, <1>6, <1>7, <1>8 DEF m, AddsTwo


-----------------------------------------------------------------------------
(* What the filter did for the tokens so far. *)

\* The tokens that are shown with their blocks are shown as they are; of the others the
\* visible part is shown, and the filter knows whether a block is open.
Followed(tokens, shown, on, in) ==
  Regular(tokens) =>
    IF on THEN shown = FlattenSeq(tokens)
    ELSE /\ shown = Visible(FlattenSeq(tokens))
         /\ in <=> InBlock(FlattenSeq(tokens), Len(FlattenSeq(tokens)) + 1)

\* One more token makes the answer longer by its atoms.
LEMMA FlattenOfAppend ==
  ASSUME NEW tokens \in Seq(Seq(Atom)), NEW token \in Seq(Atom)
  PROVE  /\ FlattenSeq(Append(tokens, token)) = FlattenSeq(tokens) \o token
         /\ FlattenSeq(tokens) \in Seq(Atom)
<1> DEFINE n == Len(tokens)
           more == Append(tokens, token)
           T == Seq(Atom)
<1>1. /\ n \in Nat /\ tokens \in [1..n -> T] /\ more \in [1..(n + 1) -> T]
      /\ (\A i \in 1..n : more[i] = tokens[i]) /\ more[n + 1] = token
  <2> HIDE DEF T
  <2>1. tokens \in Seq(T) /\ token \in T
    BY DEF T
  <2>2. n \in Nat /\ DOMAIN tokens = 1..n /\ tokens \in [1..n -> T]
    BY <2>1, LenProperties
  <2>3. /\ more \in Seq(T) /\ Len(more) = n + 1
        /\ (\A i \in 1..n : more[i] = tokens[i]) /\ more[n + 1] = token
    BY <2>1, AppendProperties
  <2>4. more \in [1..(n + 1) -> T]
    <3> HIDE DEF more
    <3> QED BY <2>3, LenProperties
  <2> QED BY <2>2, <2>3, <2>4
<1> HIDE DEF n, more
<1> QED BY <1>1, FlattenOfMore DEF more

\* Tokens the filter can follow go on with tokens it can follow.
LEMMA RegularOfMore ==
  ASSUME NEW tokens \in Seq(Seq(Atom)), NEW token \in Seq(Atom), Regular(Append(tokens, token))
  PROVE  LET all == FlattenSeq(tokens) IN
         /\ Regular(tokens)
         /\ Unsplit(all, token)
         /\ Simple(InBlock(all, Len(all) + 1), token)
<1> DEFINE n == Len(tokens)
           more == Append(tokens, token)
           Fits(before, tok) ==
             /\ \A tag \in {OpenTag, CloseTag} :
                   Places(tag, before \o tok) =
                     Places(tag, before) \cup {Len(before) + i : i \in Places(tag, tok)}
             /\ Cardinality(Places(OpenTag, tok)) <= 1
             /\ Found(OpenTag, tok) => ~InBlock(before, Len(before) + 1)
<1>1. /\ n \in Nat /\ DOMAIN tokens = 1..n /\ DOMAIN more = 1..(n + 1)
      /\ more \in Seq(Seq(Atom)) /\ Len(more) = n + 1
      /\ (\A i \in 1..n : more[i] = tokens[i]) /\ more[n + 1] = token
  <2>1. n \in Nat /\ DOMAIN tokens = 1..n
    BY LenProperties
  <2>2. /\ more \in Seq(Seq(Atom)) /\ Len(more) = n + 1
        /\ (\A i \in 1..n : more[i] = tokens[i]) /\ more[n + 1] = token
    BY AppendProperties
  <2>3. DOMAIN more = 1..(n + 1)
    <3> HIDE DEF more
    <3> QED BY <2>2, LenProperties
  <2> QED BY <2>1, <2>2, <2>3
<1>2. Regular(tokens) <=>
        \A k \in DOMAIN tokens : Fits(FlattenSeq(SubSeq(tokens, 1, k - 1)), tokens[k])
  BY DEF Regular
<1>3. \A k \in DOMAIN more : Fits(FlattenSeq(SubSeq(more, 1, k - 1)), more[k])
  <2> HIDE DEF more
  <2> QED BY DEF Regular, more
<1>4. \A k \in 1..(n + 1) : SubSeq(more, 1, k - 1) = SubSeq(tokens, 1, k - 1)
  <2> SUFFICES ASSUME NEW k \in 1..(n + 1)
               PROVE  SubSeq(more, 1, k - 1) = SubSeq(tokens, 1, k - 1)
    OBVIOUS
  <2>1. PICK l \in Nat : l = k - 1 /\ l <= n
    BY <1>1
  <2>2. l <= Len(more) /\ \A i \in 1..l : more[i] = tokens[i]
    BY <1>1, <2>1
  <2> DEFINE T == Seq(Atom)
  <2> HIDE DEF more, T
  <2>3. more \in Seq(T) /\ tokens \in Seq(T) /\ 0 <= l /\ l <= Len(tokens) /\ 0 \in Nat
    BY <1>1, <2>1 DEF T
  <2>4. SubSeq(more, 0 + 1, l) = SubSeq(tokens, 0 + 1, l)
    BY <2>2, <2>3, SamePart
  <2>5. 0 + 1 = 1
    OBVIOUS
  <2> QED BY <2>1, <2>4, <2>5
<1>5. Regular(tokens)
  <2> SUFFICES ASSUME NEW k \in 1..n
               PROVE  Fits(FlattenSeq(SubSeq(tokens, 1, k - 1)), tokens[k])
    BY <1>1, <1>2
  <2>1. k \in 1..(n + 1)
    BY <1>1
  <2>2. more[k] = tokens[k] /\ SubSeq(more, 1, k - 1) = SubSeq(tokens, 1, k - 1)
    BY <1>1, <1>4, <2>1
  <2>3. Fits(FlattenSeq(SubSeq(more, 1, k - 1)), more[k])
    BY <1>1, <1>3, <2>1
  <2> HIDE DEF Fits, more
  <2> QED BY <2>2, <2>3
<1>6. Fits(FlattenSeq(tokens), token)
  <2>1. n + 1 \in 1..(n + 1) /\ (n + 1) - 1 = n
    BY <1>1
  <2>2. SubSeq(more, 1, (n + 1) - 1) = tokens
    <3>1. SubSeq(tokens, 1, n) = tokens
      BY SubSeqFull
    <3> HIDE DEF more
    <3> QED BY <1>4, <2>1, <3>1
  <2>3. Fits(FlattenSeq(SubSeq(more, 1, (n + 1) - 1)), more[n + 1])
    BY <1>1, <1>3, <2>1
  <2> HIDE DEF Fits, more
  <2> QED BY <1>1, <2>2, <2>3
<1> HIDE DEF more
<1> QED BY <1>5, <1>6 DEF Unsplit, Simple

\* One more token.
LEMMA FollowedOfMore ==
  ASSUME NEW tokens \in Seq(Seq(Atom)), NEW token \in Seq(Atom), NEW shown \in Seq(Atom),
         NEW in \in BOOLEAN, Followed(tokens, shown, FALSE, in)
  PROVE  Followed(Append(tokens, token), shown \o (Left(token) \o Right(in, token)), FALSE,
                  Filter(in, token).inside)
<1> DEFINE all == FlattenSeq(tokens)
           more == Append(tokens, token)
<1> SUFFICES ASSUME Regular(more)
             PROVE  /\ shown \o (Left(token) \o Right(in, token)) = Visible(FlattenSeq(more))
                    /\ Filter(in, token).inside <=>
                         InBlock(FlattenSeq(more), Len(FlattenSeq(more)) + 1)
  BY DEF Followed
<1>1. /\ Regular(tokens) /\ Unsplit(all, token)
      /\ Simple(InBlock(all, Len(all) + 1), token)
  BY RegularOfMore
<1>2. shown = Visible(all) /\ (in <=> InBlock(all, Len(all) + 1))
  BY <1>1 DEF Followed
<1>3. Simple(in, token)
  BY <1>1, <1>2 DEF Simple
<1>4. FlattenSeq(more) = all \o token /\ all \in Seq(Atom)
  BY FlattenOfAppend
<1> HIDE DEF all, more
<1>5. /\ Visible(all \o token) = Visible(all) \o (Left(token) \o Right(in, token))
      /\ Filter(in, token).inside <=> InBlock(all \o token, Len(all \o token) + 1)
  BY <1>1, <1>2, <1>3, <1>4, VisibleOfMore
<1> QED BY <1>2, <1>4, <1>5


-----------------------------------------------------------------------------
(* Folds. *)

\* The greatest of a set of indices.
LEMMA MaxOf ==
  ASSUME NEW s, NEW m \in s, s \subseteq Nat, \A x \in s : x <= m
  PROVE  Max(s) = m
<1>1. \A x \in s : m >= x
  OBVIOUS
<1>2. Max(s) \in s /\ \A x \in s : Max(s) >= x
  BY <1>1 DEF Max
<1>3. Max(s) >= m /\ m >= Max(s)
  BY <1>1, <1>2
<1>4. Max(s) \in Nat /\ m \in Nat
  BY <1>2
<1> QED BY <1>3, <1>4

\* T folds step over each set of the first n indices, the greatest last.
Folds(T, A, base, step, n) ==
  /\ T \in [SUBSET (1..n) -> A]
  /\ T[{}] = base
  /\ \A s \in SUBSET (1..n) :
        s # {} => Max(s) \in s /\ T[s] = step[<<T[s \ {Max(s)}], Max(s)>>]

\* A fold of such steps exists: it is built up by the number of steps.
LEMMA FoldsExist ==
  ASSUME NEW A, NEW base \in A, NEW n \in Nat, NEW step \in [A \X (1..n) -> A]
  PROVE  \E T : Folds(T, A, base, step, n)
<1> DEFINE N == {m \in Nat : m <= n => \E T : Folds(T, A, base, step, m)}
<1>1. 0 \in N
  <2> DEFINE T == [s \in SUBSET (1..0) |-> base]
  <2>1. \A s \in SUBSET (1..0) : s = {}
    OBVIOUS
  <2>2. T \in [SUBSET (1..0) -> A] /\ T[{}] = base
    OBVIOUS
  <2>3. Folds(T, A, base, step, 0)
    BY <2>1, <2>2 DEF Folds
  <2> QED BY <2>3
<1>2. ASSUME NEW k \in Nat, k \in N PROVE k + 1 \in N
  <2>1. SUFFICES ASSUME k + 1 <= n PROVE \E U : Folds(U, A, base, step, k + 1)
    OBVIOUS
  <2>2. PICK T : Folds(T, A, base, step, k)
    BY <1>2, <2>1
  <2> DEFINE m == k + 1
             U == [s \in SUBSET (1..m) |-> IF m \in s THEN step[<<T[s \ {m}], m>>] ELSE T[s]]
  <2>3. /\ m \in 1..n /\ m \in 1..m /\ m \notin 1..k /\ m \in Nat
        /\ \A s \in SUBSET (1..m) : s \ {m} \in SUBSET (1..k) /\ s \subseteq Nat
        /\ \A s \in SUBSET (1..m) : m \notin s => s \in SUBSET (1..k)
        /\ \A s \in SUBSET (1..m) : \A x \in s : x <= m
        /\ {} \in SUBSET (1..m)
    BY <2>1
  <2> HIDE DEF m
  <2>4. /\ T \in [SUBSET (1..k) -> A] /\ T[{}] = base
        /\ \A s \in SUBSET (1..k) :
              s # {} => Max(s) \in s /\ T[s] = step[<<T[s \ {Max(s)}], Max(s)>>]
    BY <2>2 DEF Folds
  <2>5. U \in [SUBSET (1..m) -> A]
    <3>1. ASSUME NEW s \in SUBSET (1..m), m \in s PROVE step[<<T[s \ {m}], m>>] \in A
      BY <2>3, <2>4
    <3>2. ASSUME NEW s \in SUBSET (1..m), m \notin s PROVE T[s] \in A
      BY <2>3, <2>4, <3>2
    <3> QED BY <3>1, <3>2
  <2>6. U[{}] = base
    BY <2>3, <2>4
  <2>7. ASSUME NEW s \in SUBSET (1..m), s # {}
        PROVE  Max(s) \in s /\ U[s] = step[<<U[s \ {Max(s)}], Max(s)>>]
    <3>1. CASE m \in s
      <4>1. Max(s) = m
        BY <2>3, <3>1, MaxOf
      <4>2. s \ {m} \in SUBSET (1..m) /\ U[s \ {m}] = T[s \ {m}]
        OBVIOUS
      <4> QED BY <3>1, <4>1, <4>2
    <3>2. CASE m \notin s
      <4>1. s \in SUBSET (1..k) /\ U[s] = T[s]
        BY <2>3, <3>2
      <4>2. Max(s) \in s /\ T[s] = step[<<T[s \ {Max(s)}], Max(s)>>]
        BY <2>4, <2>7, <4>1
      <4>3. s \ {Max(s)} \in SUBSET (1..m) /\ m \notin s \ {Max(s)}
        BY <3>2
      <4>4. U[s \ {Max(s)}] = T[s \ {Max(s)}]
        BY <4>3
      <4> QED BY <4>1, <4>2, <4>4
    <3> QED BY <3>1, <3>2
  <2> HIDE DEF U
  <2>8. Folds(U, A, base, step, m)
    BY <2>5, <2>6, <2>7 DEF Folds
  <2> QED BY <2>8 DEF m
<1> HIDE DEF N
<1>3. n \in N
  BY <1>1, <1>2, Induction
<1> QED BY <1>3 DEF N

\* G[k] is what the first k steps make of base.
Runs(G, A, base, step, n) ==
  /\ G \in [0..n -> A]
  /\ G[0] = base
  /\ \A k \in 1..n : G[k] = step[<<G[k - 1], k>>]

\* it takes the steps, as far as it stays in A.
Takes(it, A, base, step, n) ==
  /\ base \in A /\ n \in Nat /\ step \in [A \X (1..n) -> A]
  /\ it[{}] = base
  /\ \A s \in SUBSET (1..n) :
        s # {} /\ it[s \ {Max(s)}] \in A => it[s] = step[<<it[s \ {Max(s)}], Max(s)>>]

\* Then it has run.
LEMMA FoldRuns ==
  ASSUME NEW A, NEW base, NEW n, NEW step, NEW it, Takes(it, A, base, step, n)
  PROVE  \E G : Runs(G, A, base, step, n) /\ it[1..n] = G[n]
<1> DEFINE N == {k \in Nat : k <= n => it[1..k] \in A}
           G == [k \in 0..n |-> it[1..k]]
<1>t. base \in A /\ n \in Nat /\ step \in [A \X (1..n) -> A]
  BY DEF Takes
<1> USE <1>t
<1>0. /\ it[{}] = base
      /\ \A s \in SUBSET (1..n) :
            s # {} /\ it[s \ {Max(s)}] \in A => it[s] = step[<<it[s \ {Max(s)}], Max(s)>>]
  BY DEF Takes
<1>1. 1..0 = {}
  OBVIOUS
<1>2. ASSUME NEW k \in 1..n, it[1..(k - 1)] \in A
      PROVE  it[1..k] = step[<<it[1..(k - 1)], k>>]
  <2>1. 1..k \in SUBSET (1..n) /\ k \in 1..k /\ 1..k \subseteq Nat /\ \A x \in 1..k : x <= k
    OBVIOUS
  <2>2. Max(1..k) = k
    BY <2>1, MaxOf
  <2>3. (1..k) \ {k} = 1..(k - 1)
    OBVIOUS
  <2> QED BY <1>0, <1>2, <2>1, <2>2, <2>3
<1>3. 0 \in N
  BY <1>0, <1>1
<1>4. ASSUME NEW k \in Nat, k \in N PROVE k + 1 \in N
  <2>1. SUFFICES ASSUME k + 1 <= n PROVE it[1..(k + 1)] \in A
    OBVIOUS
  <2>2. k + 1 \in 1..n /\ (k + 1) - 1 = k /\ it[1..k] \in A
    BY <1>4, <2>1
  <2>3. it[1..(k + 1)] = step[<<it[1..k], k + 1>>]
    BY <1>2, <2>2
  <2> QED BY <2>2, <2>3
<1> HIDE DEF N
<1>5. Nat \subseteq N
  BY <1>3, <1>4, Induction
<1>6. \A k \in 0..n : it[1..k] \in A
  BY <1>5 DEF N
<1>7. ASSUME NEW k \in 1..n PROVE G[k] = step[<<G[k - 1], k>>]
  <2>1. k - 1 \in 0..n /\ k \in 0..n
    OBVIOUS
  <2>2. it[1..k] = step[<<it[1..(k - 1)], k>>]
    BY <1>2, <1>6, <2>1
  <2> QED BY <2>1, <2>2
<1>8. G \in [0..n -> A] /\ G[0] = base /\ it[1..n] = G[n]
  BY <1>0, <1>1, <1>6
<1> HIDE DEF G
<1> QED BY <1>7, <1>8 DEF Runs

-----------------------------------------------------------------------------
(* The callbacks of one step of the client. *)

Filtered == [inside : BOOLEAN, calls : Seq(Calls)]

\* The last call of a task.
Over(t) == [task |-> t, text |-> <<>>, final |-> TRUE]

\* A final event is a call of its own; of a token the texts the filter passes on are.
LEMMA CallbackOf ==
  ASSUME NEW t \in Task, NEW r \in Filtered, NEW e \in Client!Events
  PROVE  /\ e.final => Callback(t, r, e) = [inside |-> r.inside, calls |-> Append(r.calls, Over(t))]
         /\ ~e.final =>
              LET f == Relayed(t, r.inside, Spelled(e.text)) IN
              Callback(t, r, e) = [inside |-> f.inside, calls |-> r.calls \o Made(t, f.shown)]
<1>1. ASSUME e.final
      PROVE  Callback(t, r, e) = [inside |-> r.inside, calls |-> Append(r.calls, Over(t))]
  <2>1. Callback(t, r, e) = [r EXCEPT !.calls = Append(r.calls, Over(t))]
    BY <1>1 DEF Callback, Over
  <2>2. r = [inside |-> r.inside, calls |-> r.calls]
    BY DEF Filtered
  <2>3. PICK q : q = Append(r.calls, Over(t))
    OBVIOUS
  <2>4. PICK s : s = [r EXCEPT !.calls = q]
    OBVIOUS
  <2>5. s = [inside |-> r.inside, calls |-> q]
    BY <2>2, <2>4
  <2> QED BY <2>1, <2>3, <2>4, <2>5
<1>2. ASSUME ~e.final
      PROVE  LET f == Relayed(t, r.inside, Spelled(e.text)) IN
             Callback(t, r, e) = [inside |-> f.inside, calls |-> r.calls \o Made(t, f.shown)]
  BY <1>2 DEF Callback, Made
<1> QED BY <1>1, <1>2

\* One callback, with what the task was told so far: s are the events, c the calls before
\* the step, r what the callbacks of the step have come to.
Told(t, s, c, r) ==
  /\ r \in Filtered
  /\ enabled[t] => ~r.inside
  /\ Followed(TokensOf(s, t), ShownOf(c \o r.calls, t), enabled[t], r.inside)
  /\ \A u : u # t => ShownOf(c \o r.calls, u) = ShownOf(c, u)

\* A callback keeps to the types.
LEMMA CallbackType ==
  ASSUME NEW t \in Task, enabled[t] \in BOOLEAN, NEW r \in Filtered, NEW e \in Client!Events
  PROVE  Callback(t, r, e) \in Filtered
<1>1. r.inside \in BOOLEAN /\ r.calls \in Seq(Calls)
  BY DEF Filtered
<1>2. CASE e.final
  <2>1. Over(t) \in Calls
    BY DEF Over, Calls
  <2>2. Append(r.calls, Over(t)) \in Seq(Calls)
    BY <1>1, <2>1, AppendProperties
  <2>3. Callback(t, r, e) = [inside |-> r.inside, calls |-> Append(r.calls, Over(t))]
    BY <1>2, CallbackOf
  <2> QED BY <1>1, <2>2, <2>3 DEF Filtered
<1>3. CASE ~e.final
  <2> DEFINE f == Relayed(t, r.inside, Spelled(e.text))
             x == Spelled(e.text)
  <2>1. x \in Seq(Atom)
    BY SpelledType DEF Client!Events
  <2>2. f.inside \in BOOLEAN /\ Made(t, f.shown) \in Seq(Calls)
    <3>1. CASE enabled[t]
      <4>1. f = [inside |-> r.inside, shown |-> <<x>>]
        BY <3>1 DEF Relayed
      <4> HIDE DEF f, x
      <4>2. f.inside = r.inside /\ f.shown = <<x>>
        BY <4>1
      <4>3. <<>> \in Seq(Calls)
        OBVIOUS
      <4> QED BY <1>1, <2>1, <4>2, <4>3, ShownOfOne
    <3>2. CASE ~enabled[t]
      <4>1. f = Filter(r.inside, x)
        BY <3>2 DEF Relayed
      <4> HIDE DEF f, x
      <4>2. /\ Left(x) \in Seq(Atom) /\ Right(r.inside, x) \in Seq(Atom)
            /\ f.shown = Call(Left(x)) \o Call(Right(r.inside, x))
            /\ f.inside \in BOOLEAN
        BY <1>1, <2>1, <4>1, FilterShape
      <4>3. <<>> \in Seq(Calls)
        OBVIOUS
      <4>4. PICK c \in Seq(Calls) : c = <<>>
        BY <4>3
      <4>5. AddsTwo(c, MadeTwo(t, Left(x), Right(r.inside, x)), t, Left(x), Right(r.inside, x))
        BY <4>2, ShownOfTwo
      <4> QED BY <4>2, <4>5 DEF AddsTwo, MadeTwo
    <3> QED BY <3>1, <3>2
  <2> HIDE DEF f
  <2>3. r.calls \o Made(t, f.shown) \in Seq(Calls)
    BY <1>1, <2>2, ConcatProperties
  <2>4. Callback(t, r, e) = [inside |-> f.inside, calls |-> r.calls \o Made(t, f.shown)]
    BY <1>3, CallbackOf DEF f
  <2> QED BY <2>2, <2>3, <2>4 DEF Filtered
<1> QED BY <1>2, <1>3

\* Callbacks takes the events one after the other.
LEMMA CallbacksRun ==
  ASSUME NEW t \in Task, enabled[t] \in BOOLEAN, inside[t] \in BOOLEAN,
         NEW events \in Seq(Client!Events)
  PROVE  \E G \in [0..Len(events) -> Filtered] :
            /\ G[0] = [inside |-> inside[t], calls |-> <<>>]
            /\ \A k \in 1..Len(events) : G[k] = Callback(t, G[k - 1], events[k])
            /\ Callbacks(t, events) = G[Len(events)]
<1> DEFINE n == Len(events)
           D == 1..n
           base == [inside |-> inside[t], calls |-> <<>>]
           step == [p \in Filtered \X D |-> Callback(t, p[1], events[p[2]])]
           Rec(f) == f = [s \in SUBSET D |->
                            IF s = {} THEN base ELSE Callback(t, f[s \ {Max(s)}], events[Max(s)])]
           it == CHOOSE f : Rec(f)
<1>1. n \in Nat /\ DOMAIN events = D /\ \A k \in D : events[k] \in Client!Events
  BY LenProperties, ElementOfSeq
<1>2. Callbacks(t, events) = it[D]
  BY <1>1 DEF Callbacks, FoldLeft, MapThenFoldSet
<1>3. base \in Filtered
  BY DEF Filtered
<1> HIDE DEF base
<1>4. /\ step \in [Filtered \X D -> Filtered]
      /\ \A r \in Filtered, k \in D : step[<<r, k>>] = Callback(t, r, events[k])
  BY <1>1, CallbackType
<1> HIDE DEF step, n
<1>5. PICK T : Folds(T, Filtered, base, step, n)
  BY <1>1, <1>3, <1>4, FoldsExist
<1>6. Rec(T)
  <2> DEFINE g == [s \in SUBSET D |->
                     IF s = {} THEN base ELSE Callback(t, T[s \ {Max(s)}], events[Max(s)])]
  <2>1. /\ T \in [SUBSET D -> Filtered] /\ T[{}] = base
        /\ \A s \in SUBSET D : s # {} => Max(s) \in s /\ T[s] = step[<<T[s \ {Max(s)}], Max(s)>>]
    BY <1>5 DEF Folds
  <2>2. ASSUME NEW s \in SUBSET D, s # {} PROVE T[s] = Callback(t, T[s \ {Max(s)}], events[Max(s)])
    <3>1. Max(s) \in D /\ s \ {Max(s)} \in SUBSET D
      BY <2>1, <2>2
    <3>2. T[s \ {Max(s)}] \in Filtered
      BY <2>1, <3>1
    <3> QED BY <1>4, <2>1, <2>2, <3>1, <3>2
  <2>3. \A s \in SUBSET D : T[s] = g[s]
    BY <2>1, <2>2
  <2>4. T = g
    <3> HIDE DEF g
    <3>1. g = [s \in SUBSET D |-> g[s]] /\ T = [s \in SUBSET D |-> T[s]]
      BY <2>1 DEF g
    <3> QED BY <2>3, <3>1
  <2> QED BY <2>4
<1> HIDE DEF Rec
<1>7. Rec(it)
  BY <1>6, Zenon
<1>8. /\ it[{}] = base
      /\ \A s \in SUBSET D : s # {} => it[s] = Callback(t, it[s \ {Max(s)}], events[Max(s)])
  BY <1>7 DEF Rec
<1> HIDE DEF it
<1>9. ASSUME NEW s \in SUBSET (1..n), s # {}, it[s \ {Max(s)}] \in Filtered
      PROVE  it[s] = step[<<it[s \ {Max(s)}], Max(s)>>]
  <2>1. Max(s) \in D
    BY <1>5, <1>9 DEF Folds
  <2> QED BY <1>4, <1>8, <1>9, <2>1
<1>10. PICK G : Runs(G, Filtered, base, step, n) /\ it[1..n] = G[n]
  <2>1. Takes(it, Filtered, base, step, n)
    BY <1>1, <1>3, <1>4, <1>8, <1>9 DEF Takes
  <2> QED BY <2>1, FoldRuns
<1>11. /\ G \in [0..n -> Filtered] /\ G[0] = base
       /\ \A k \in 1..n : G[k] = step[<<G[k - 1], k>>]
  BY <1>10 DEF Runs
<1>12. ASSUME NEW k \in 1..n PROVE G[k] = Callback(t, G[k - 1], events[k])
  <2>1. G[k - 1] \in Filtered
    <3>1. k - 1 \in 0..n
      BY <1>1
    <3> QED BY <1>11, <3>1
  <2> QED BY <1>4, <1>11, <2>1
<1> QED BY <1>2, <1>10, <1>11, <1>12 DEF n, base


\* One more callback.
LEMMA ToldOfMore ==
  ASSUME NEW t \in Task, enabled[t] \in BOOLEAN, NEW s \in Seq(Client!Events),
         NEW e \in Client!Events, e.task = t, NEW c \in Seq(Calls), NEW r, Told(t, s, c, r)
  PROVE  Told(t, Append(s, e), c, Callback(t, r, e))
<1>1. /\ r \in Filtered /\ r.inside \in BOOLEAN /\ r.calls \in Seq(Calls)
      /\ enabled[t] => ~r.inside
  BY DEF Told, Filtered
<1>2. PICK k \in Seq(Calls) : k = c \o r.calls
  BY <1>1, ConcatProperties
<1>3. PICK toks \in Seq(Seq(Atom)) : toks = TokensOf(s, t)
  BY TokensOfMore
<1>4. /\ Followed(toks, ShownOf(k, t), enabled[t], r.inside)
      /\ \A u : u # t => ShownOf(k, u) = ShownOf(c, u)
  BY <1>2, <1>3 DEF Told
<1>5. Over(t) \in Calls /\ Over(t).task = t /\ Over(t).text = <<>>
  BY DEF Over, Calls
<1>6. PICK shown \in Seq(Atom) : shown = ShownOf(k, t)
  BY <1>5, ShownOfMore
<1>7. Callback(t, r, e) \in Filtered
  BY <1>1, CallbackType
<1>8. CASE e.final
  <2>1. PICK q : q = Callback(t, r, e)
    OBVIOUS
  <2>2. q.inside = r.inside /\ q.calls = Append(r.calls, Over(t))
    <3>1. Callback(t, r, e) = [inside |-> r.inside, calls |-> Append(r.calls, Over(t))]
      BY <1>1, <1>8, CallbackOf
    <3> QED BY <2>1, <3>1
  <2>3. c \o q.calls = Append(k, Over(t))
    <3>1. PICK o \in Calls : o = Over(t)
      BY <1>5
    <3>2. Append(r.calls, o) = r.calls \o <<o>> /\ Append(k, o) = k \o <<o>>
      BY <1>1, AppendIsConcat
    <3>3. <<o>> \in Seq(Calls)
      OBVIOUS
    <3>4. PICK x \in Seq(Calls) : x = r.calls
      BY <1>1
    <3>5. (c \o x) \o <<o>> = c \o (x \o <<o>>)
      BY ONLY <3>3, c \in Seq(Calls), x \in Seq(Calls), RegroupCalls
    <3> QED BY <1>2, <2>2, <3>1, <3>2, <3>4, <3>5
  <2>4. ShownOf(Append(k, Over(t)), t) = shown /\
        \A u : u # t => ShownOf(Append(k, Over(t)), u) = ShownOf(k, u)
    <3>1. ShownOf(Append(k, Over(t)), t) = ShownOf(k, t) \o <<>>
      BY <1>5, ShownOfMore
    <3>2. shown \o <<>> = shown
      BY ConcatEmptySeq
    <3>3. \A u : u # t => ShownOf(Append(k, Over(t)), u) = ShownOf(k, u)
      BY <1>5, ShownOfMore
    <3> QED BY <1>6, <3>1, <3>2, <3>3
  <2>5. TokensOf(Append(s, e), t) = toks
    BY <1>3, <1>8, TokensOfMore
  <2>6. /\ q \in Filtered /\ (enabled[t] => ~q.inside)
        /\ Followed(TokensOf(Append(s, e), t), ShownOf(c \o q.calls, t), enabled[t], q.inside)
    BY <1>1, <1>4, <1>6, <1>7, <2>1, <2>2, <2>3, <2>4, <2>5
  <2>7. \A u : u # t => ShownOf(c \o q.calls, u) = ShownOf(c, u)
    BY <1>4, <2>3, <2>4
  <2>8. Told(t, Append(s, e), c, q)
    BY <2>6, <2>7 DEF Told
  <2> QED BY <2>1, <2>8
<1>9. CASE ~e.final
  <2>1. PICK q : q = Callback(t, r, e)
    OBVIOUS
  <2>2. PICK x \in Seq(Atom) : x = Spelled(e.text)
    BY SpelledType DEF Client!Events
  <2>3. TokensOf(Append(s, e), t) = Append(toks, x)
    BY <1>3, <1>9, <2>2, TokensOfMore
  <2>4. PICK f : f = Relayed(t, r.inside, x)
    OBVIOUS
  <2>5. q.inside = f.inside /\ q.calls = r.calls \o Made(t, f.shown)
    <3>1. Callback(t, r, e) =
            [inside |-> Relayed(t, r.inside, Spelled(e.text)).inside,
             calls |-> r.calls \o Made(t, Relayed(t, r.inside, Spelled(e.text)).shown)]
      BY <1>1, <1>9, CallbackOf
    <3>2. f = Relayed(t, r.inside, Spelled(e.text))
      BY <2>2, <2>4
    <3>3. q = [inside |-> f.inside, calls |-> r.calls \o Made(t, f.shown)]
      BY <2>1, <3>1, <3>2
    <3> QED BY ONLY <3>3
  <2>6. ASSUME Made(t, f.shown) \in Seq(Calls)
        PROVE  c \o q.calls = k \o Made(t, f.shown)
    <3>1. PICK m \in Seq(Calls) : m = Made(t, f.shown)
      BY <2>6
    <3>2. PICK y \in Seq(Calls) : y = r.calls
      BY <1>1
    <3>3. (c \o y) \o m = c \o (y \o m)
      BY ONLY c \in Seq(Calls), y \in Seq(Calls), m \in Seq(Calls), RegroupCalls
    <3> QED BY <1>2, <2>5, <3>1, <3>2, <3>3
  <2>7. ASSUME NEW z, ShownOf(c \o q.calls, t) = z,
               \A u : u # t => ShownOf(c \o q.calls, u) = ShownOf(k, u),
               enabled[t] => ~q.inside,
               Followed(Append(toks, x), z, enabled[t], q.inside)
        PROVE  Told(t, Append(s, e), c, q)
    BY <1>4, <1>7, <2>1, <2>3, <2>7 DEF Told
  <2>8. CASE enabled[t]
    <3>1. f.inside = r.inside /\ f.shown = <<x>>
      <4>1. f = [inside |-> r.inside, shown |-> <<x>>]
        BY <2>4, <2>8 DEF Relayed
      <4> QED BY <4>1
    <3>2. /\ Made(t, <<x>>) \in Seq(Calls)
          /\ ShownOf(k \o Made(t, <<x>>), t) = ShownOf(k, t) \o x
          /\ \A u : u # t => ShownOf(k \o Made(t, <<x>>), u) = ShownOf(k, u)
      BY ShownOfOne
    <3>3. c \o q.calls = k \o Made(t, <<x>>)
      BY <2>6, <3>1, <3>2
    <3>4. Followed(Append(toks, x), shown \o x, enabled[t], q.inside)
      <4> SUFFICES ASSUME Regular(Append(toks, x))
                   PROVE  shown \o x = FlattenSeq(Append(toks, x))
        BY <2>8 DEF Followed
      <4>1. Regular(toks)
        BY RegularOfMore
      <4>2. shown = FlattenSeq(toks)
        BY <1>4, <1>6, <2>8, <4>1 DEF Followed
      <4> QED BY <4>2, FlattenOfAppend
    <3>5. enabled[t] => ~q.inside
      BY <1>1, <2>5, <3>1
    <3>6. Told(t, Append(s, e), c, q)
      BY <1>6, <2>7, <3>2, <3>3, <3>4, <3>5
    <3> QED BY <2>1, <3>6
  <2>9. CASE ~enabled[t]
    <3>1. PICK in \in BOOLEAN : in = r.inside
      BY <1>1
    <3>2. f = Filter(in, x)
      BY <2>4, <2>9, <3>1 DEF Relayed
    <3>3. PICK a \in Seq(Atom) : a = Left(x)
      BY FilterShape
    <3>4. PICK b \in Seq(Atom) : b = Right(in, x)
      BY FilterShape
    <3>5. f.shown = Call(a) \o Call(b)
      BY <3>2, <3>3, <3>4, FilterShape
    <3> DEFINE m == MadeTwo(t, a, b)
    <3>6. /\ m \in Seq(Calls)
          /\ ShownOf(k \o m, t) = ShownOf(k, t) \o (a \o b)
          /\ \A u : u # t => ShownOf(k \o m, u) = ShownOf(k, u)
      <4>1. AddsTwo(k, m, t, a, b)
        BY ShownOfTwo
      <4> HIDE DEF m
      <4> QED BY <4>1 DEF AddsTwo
    <3> HIDE DEF m
    <3>7. c \o q.calls = k \o m
      BY <2>6, <3>5, <3>6 DEF m, MadeTwo
    <3>8. Followed(Append(toks, x), shown \o (a \o b), enabled[t], q.inside)
      <4>1. Followed(toks, shown, FALSE, in)
        BY <1>4, <1>6, <2>9, <3>1 DEF Followed
      <4>2. Followed(Append(toks, x), shown \o (Left(x) \o Right(in, x)), FALSE,
                     Filter(in, x).inside)
        BY <4>1, FollowedOfMore
      <4> QED BY <2>5, <2>9, <3>2, <3>3, <3>4, <4>2 DEF Followed
    <3>9. Told(t, Append(s, e), c, q)
      BY <1>6, <2>7, <2>9, <3>6, <3>7, <3>8
    <3> QED BY <2>1, <3>9
  <2> QED BY <2>1, <2>8, <2>9
<1> QED BY <1>8, <1>9

-----------------------------------------------------------------------------
(* A whole step of the client. *)

\* The events up to the k-th that is new.
Upto(old, new, k) == SubSeq(new, 1, Len(old) + k)

\* They become new, one event of the task after the other.
LEMMA UptoNext ==
  ASSUME NEW old \in Seq(Client!Events), NEW new, Grown(old, new), NEW t, AddedBy(t, old, new),
         NEW n, n = Len(new) - Len(old)
  PROVE  /\ n \in Nat /\ Upto(old, new, 0) = old /\ Upto(old, new, n) = new
         /\ \A k \in 0..n : Upto(old, new, k) \in Seq(Client!Events)
         /\ \A k \in Nat : k < n =>
              /\ new[Len(old) + k + 1] \in Client!Events
              /\ new[Len(old) + k + 1].task = t
              /\ Upto(old, new, k + 1) = Append(Upto(old, new, k), new[Len(old) + k + 1])
<1>1. /\ new \in Seq(Client!Events) /\ Len(old) \in Nat /\ Len(new) \in Nat
      /\ Len(old) <= Len(new) /\ \A i \in 1..Len(old) : new[i] = old[i]
  BY DEF Grown
<1>2. n \in Nat
  BY <1>1
<1>3. SubSeq(new, 1, Len(new)) = new /\ SubSeq(old, 1, Len(old)) = old
  BY <1>1, SubSeqFull
<1>4. SubSeq(new, 1, Len(old)) = SubSeq(old, 1, Len(old))
  <2>1. SubSeq(new, 0 + 1, Len(old)) = SubSeq(old, 0 + 1, Len(old))
    BY <1>1, SamePart
  <2>2. 0 + 1 = 1
    OBVIOUS
  <2> QED BY <2>1, <2>2
<1>5. Len(old) + 0 = Len(old) /\ Len(old) + n = Len(new)
  BY <1>1
<1>6. ASSUME NEW k \in 0..n PROVE Upto(old, new, k) \in Seq(Client!Events)
  <2>1. PICK m \in Nat : m = Len(old) + k
    BY <1>1, <1>2
  <2>2. m <= Len(new)
    BY <1>1, <1>2, <2>1
  <2>3. SubSeq(new, 0 + 1, m) \in Seq(Client!Events)
    BY <1>1, <2>2, PartElements
  <2>4. 0 + 1 = 1
    OBVIOUS
  <2> QED BY <2>1, <2>3, <2>4 DEF Upto
<1>7. ASSUME NEW k \in Nat, k < n
      PROVE  /\ new[Len(old) + k + 1] \in Client!Events
             /\ new[Len(old) + k + 1].task = t
             /\ Upto(old, new, k + 1) = Append(Upto(old, new, k), new[Len(old) + k + 1])
  <2>1. PICK m \in Nat : m = Len(old) + k
    BY <1>1
  <2>2. m < Len(new) /\ m + 1 \in 1..Len(new) /\ m + 1 > Len(old)
    BY <1>1, <1>7, <2>1
  <2>3. SubSeq(new, 0 + 1, m + 1) = Append(SubSeq(new, 0 + 1, m), new[m + 1])
    BY <1>1, <2>2, PartOfNext
  <2>4. 0 + 1 = 1 /\ Len(old) + (k + 1) = m + 1 /\ Len(old) + k + 1 = m + 1
    BY <1>1, <2>1
  <2>5. new[m + 1] \in Client!Events
    BY <1>1, <2>2, ElementOfSeq
  <2>6. new[m + 1].task = t
    BY <2>2 DEF AddedBy
  <2>7. Upto(old, new, k + 1) = SubSeq(new, 1, m + 1) /\ Upto(old, new, k) = SubSeq(new, 1, m)
    BY <2>1, <2>4 DEF Upto
  <2> QED BY <2>3, <2>4, <2>5, <2>6, <2>7
<1> QED BY <1>2, <1>3, <1>4, <1>5, <1>6, <1>7 DEF Upto

\* The step tells nothing of other tasks.
LEMMA TokensOfOthers ==
  ASSUME NEW old \in Seq(Client!Events), NEW new, Grown(old, new), NEW t, AddedBy(t, old, new),
         NEW u, u # t
  PROVE  TokensOf(new, u) = TokensOf(old, u)
<1> DEFINE n == Len(new) - Len(old)
           N == {k \in Nat : k <= n => TokensOf(Upto(old, new, k), u) = TokensOf(old, u)}
<1>1. /\ n \in Nat /\ Upto(old, new, 0) = old /\ Upto(old, new, n) = new
      /\ \A k \in 0..n : Upto(old, new, k) \in Seq(Client!Events)
      /\ \A k \in Nat : k < n =>
           /\ new[Len(old) + k + 1] \in Client!Events
           /\ new[Len(old) + k + 1].task = t
           /\ Upto(old, new, k + 1) = Append(Upto(old, new, k), new[Len(old) + k + 1])
  BY UptoNext
<1> HIDE DEF n
<1>2. 0 \in N
  BY <1>1
<1>3. ASSUME NEW k \in Nat, k \in N PROVE k + 1 \in N
  <2> SUFFICES ASSUME k + 1 <= n
               PROVE  TokensOf(Upto(old, new, k + 1), u) = TokensOf(old, u)
    OBVIOUS
  <2>1. k < n /\ k \in 0..n /\ k <= n
    BY <1>1
  <2>2. PICK e \in Client!Events : e = new[Len(old) + k + 1]
    BY <1>1, <2>1
  <2>3. e.task = t /\ Upto(old, new, k + 1) = Append(Upto(old, new, k), e)
    BY <1>1, <2>1, <2>2
  <2>4. PICK s \in Seq(Client!Events) : s = Upto(old, new, k)
    BY <1>1, <2>1
  <2>5. TokensOf(Append(s, e), u) = TokensOf(s, u)
    BY <2>3, TokensOfMore
  <2> QED BY <1>3, <2>1, <2>3, <2>4, <2>5
<1> HIDE DEF N
<1>4. Nat \subseteq N
  BY <1>2, <1>3, Induction
<1> QED BY <1>1, <1>4 DEF N

\* The callbacks of the step tell of the task what the client posted.
LEMMA WorkTold ==
  ASSUME NEW t \in Task, enabled[t] \in BOOLEAN, inside[t] \in BOOLEAN,
         NEW old \in Seq(Client!Events), NEW new, Grown(old, new), AddedBy(t, old, new),
         NEW c \in Seq(Calls), Told(t, old, c, [inside |-> inside[t], calls |-> <<>>])
  PROVE  Told(t, new, c, Callbacks(t, SubSeq(new, Len(old) + 1, Len(new))))
<1> DEFINE n == Len(new) - Len(old)
           events == SubSeq(new, Len(old) + 1, Len(new))
           base == [inside |-> inside[t], calls |-> <<>>]
<1>1. /\ n \in Nat /\ Upto(old, new, 0) = old /\ Upto(old, new, n) = new
      /\ \A k \in 0..n : Upto(old, new, k) \in Seq(Client!Events)
      /\ \A k \in Nat : k < n =>
           /\ new[Len(old) + k + 1] \in Client!Events
           /\ new[Len(old) + k + 1].task = t
           /\ Upto(old, new, k + 1) = Append(Upto(old, new, k), new[Len(old) + k + 1])
  BY UptoNext
<1>2. /\ events \in Seq(Client!Events) /\ Len(events) = n
      /\ \A i \in 1..n : events[i] = new[Len(old) + i]
  <2>1. /\ new \in Seq(Client!Events) /\ Len(old) \in Nat /\ Len(new) \in Nat
        /\ Len(old) <= Len(new)
    BY DEF Grown
  <2> QED BY <2>1, PartElements
<1> HIDE DEF n, events
<1>3. PICK G \in [0..n -> Filtered] :
        /\ G[0] = base
        /\ \A k \in 1..n : G[k] = Callback(t, G[k - 1], events[k])
        /\ Callbacks(t, events) = G[n]
  BY <1>2, CallbacksRun
<1> DEFINE N == {k \in Nat : k <= n => Told(t, Upto(old, new, k), c, G[k])}
<1>4. 0 \in N
  BY <1>1, <1>3
<1> HIDE DEF base
<1>5. ASSUME NEW k \in Nat, k \in N PROVE k + 1 \in N
  <2> SUFFICES ASSUME k + 1 <= n
               PROVE  Told(t, Upto(old, new, k + 1), c, G[k + 1])
    OBVIOUS
  <2>1. /\ k < n /\ k \in 0..n /\ k <= n /\ k + 1 \in 1..n /\ (k + 1) - 1 = k
        /\ Len(old) \in Nat
    BY <1>1, LenProperties
  <2>2. PICK e \in Client!Events : e = new[Len(old) + k + 1]
    BY <1>1, <2>1
  <2>3. e.task = t /\ Upto(old, new, k + 1) = Append(Upto(old, new, k), e)
    BY <1>1, <2>1, <2>2
  <2>4. PICK s \in Seq(Client!Events) : s = Upto(old, new, k)
    BY <1>1, <2>1
  <2>5. PICK r : r = G[k]
    OBVIOUS
  <2>6. Told(t, s, c, r)
    BY <1>5, <2>1, <2>4, <2>5
  <2>7. Told(t, Append(s, e), c, Callback(t, r, e))
    BY <2>3, <2>6, ToldOfMore
  <2>8. events[k + 1] = e
    <3>1. Len(old) + (k + 1) = Len(old) + k + 1
      BY <2>1
    <3> QED BY <1>2, <2>1, <2>2, <3>1
  <2>9. G[k + 1] = Callback(t, G[(k + 1) - 1], events[k + 1])
    BY <1>3, <2>1
  <2> QED BY <2>1, <2>3, <2>4, <2>5, <2>7, <2>8, <2>9
<1> HIDE DEF N
<1>6. Nat \subseteq N
  BY <1>4, <1>5, Induction
<1>7. Told(t, Upto(old, new, n), c, G[n])
  BY <1>1, <1>6 DEF N
<1> QED BY <1>1, <1>3, <1>7 DEF events

-----------------------------------------------------------------------------
(* The specification. *)

\* Nothing was told of a task that has not begun, and of every task the callbacks have
\* told what the client posted, as far as the filter can follow it.  A task submitted
\* since the setting changed last has the setting there is.
Follows ==
  /\ Inductive /\ Silent(posted)
  /\ thinking \in BOOLEAN /\ toggles \in 0..MaxToggles
  /\ enabled \in [Task -> BOOLEAN] /\ inside \in [Task -> BOOLEAN]
  /\ passed \in Seq(Calls)
  /\ asOf \in [Task -> 0..MaxToggles]
  /\ \A t \in Task : asOf[t] <= toggles
  /\ \A t \in Task : phase[t] # "idle" /\ asOf[t] = toggles => enabled[t] = thinking
  /\ \A t \in Task : enabled[t] => ~inside[t]
  /\ \A t \in Task : phase[t] \in {"idle", "waiting"} =>
        ~inside[t] /\ TokensOf(posted, t) = <<>> /\ ShownOf(passed, t) = <<>>
  /\ \A t \in Task : Followed(TokensOf(posted, t), ShownOf(passed, t), enabled[t], inside[t])

\* Before the first token.
LEMMA NothingFollowed ==
  ASSUME NEW on \in BOOLEAN
  PROVE  Followed(<<>>, <<>>, on, FALSE)
<1>1. FlattenSeq(<<>>) = <<>>
  BY FlattenNone
<1>2. Len(<<>>) = 0
  OBVIOUS
<1>3. Visible(<<>>) = <<>>
  <2> DEFINE f == [i \in DOMAIN <<>> |-> IF InBlock(<<>>, i) THEN <<>> ELSE <<<<>>[i]>>]
  <2>1. f = <<>>
    OBVIOUS
  <2>2. Visible(<<>>) = FlattenSeq(f)
    BY DEF Visible
  <2> HIDE DEF f
  <2> QED BY <1>1, <2>1, <2>2
<1>4. \A i : ~InBlock(<<>>, i)
  <2>1. Places(OpenTag, <<>>) = {}
    BY <1>2 DEF Places
  <2> QED BY <2>1 DEF InBlock
<1> QED BY <1>1, <1>3, <1>4 DEF Followed

\* At the start nothing was posted and nothing was shown.
LEMMA FollowsInit == Init => Follows
<1> SUFFICES ASSUME Init PROVE Follows
  OBVIOUS
<1>1. Inductive
  BY InductiveInit DEF Init
<1>2. posted = <<>> /\ passed = <<>>
  BY DEF Init, Client!Init
<1>3. Silent(posted)
  BY <1>2 DEF Silent
<1>4. passed \in Seq(Calls)
  BY <1>2
<1>5. \A t : TokensOf(posted, t) = <<>> /\ ShownOf(passed, t) = <<>>
  BY <1>2, NothingTold
<1>6. \A t \in Task : ~enabled[t] /\ ~inside[t] /\ inside[t] = FALSE /\ enabled[t] \in BOOLEAN
  BY DEF Init
<1>7. \A t \in Task : Followed(TokensOf(posted, t), ShownOf(passed, t), enabled[t], inside[t])
  BY <1>5, <1>6, NothingFollowed
<1>8. /\ thinking \in BOOLEAN /\ toggles \in 0..MaxToggles
      /\ enabled \in [Task -> BOOLEAN] /\ inside \in [Task -> BOOLEAN]
  BY BoundAssumption DEF Init
<1>9. asOf \in [Task -> 0..MaxToggles] /\ \A t \in Task : asOf[t] <= toggles
  BY BoundAssumption DEF Init
<1>10. \A t \in Task : phase[t] = "idle"
  BY DEF Init, Client!Init
<1> QED BY <1>9, <1>10, <1>1, <1>3, <1>4, <1>5, <1>6, <1>7, <1>8 DEF Follows

\* After a step of the client its task has begun, and no other has.
LEMMA WorkBegins ==
  ASSUME NEW t \in Task, phase \in [Task -> Client!Phases], Client!Work(t)
  PROVE  /\ phase'[t] \in {"streaming", "settled"}
         /\ \A u \in Task : u # t => phase'[u] = phase[u]
BY DEF Client!Work, Client!Refuse, Client!Replay, Client!Begin, Client!Emit, Client!Settle

\* The setting may change at any time: a prompt keeps the one it was submitted with, and
\* each step of the worker tells its own task only.
LEMMA FollowsStep == Follows /\ [Next]_vars => Follows'
<1> SUFFICES ASSUME Follows, [Next]_vars PROVE Follows'
  OBVIOUS
<1>1. /\ Inductive /\ Silent(posted) /\ posted \in Seq(Client!Events)
      /\ phase \in [Task -> Client!Phases]
      /\ enabled \in [Task -> BOOLEAN] /\ inside \in [Task -> BOOLEAN]
      /\ passed \in Seq(Calls)
  BY DEF Follows, Inductive
<1>2. CASE UNCHANGED vars
  BY <1>1, <1>2 DEF Follows, vars, client, filter, Inductive, Client!OneStream
<1>3. CASE Toggle
  <2>1. UNCHANGED client /\ UNCHANGED filter
    BY <1>3 DEF Toggle
  <2>2. Inductive'
    BY <1>1, <2>1, InductiveStep DEF client, Client!vars
  <2>3. thinking' \in BOOLEAN /\ toggles' \in 0..MaxToggles
    BY <1>3, BoundAssumption DEF Toggle, Follows
  <2>4. Silent(posted)'
    BY <1>1, <2>1 DEF client, Silent
  <2>5. \A t \in Task : asOf'[t] <= toggles' /\ asOf'[t] # toggles'
    <3>1. toggles' = toggles + 1 /\ toggles \in Nat
      BY <1>3, BoundAssumption DEF Toggle, Follows
    <3>2. \A t \in Task : asOf[t] \in Nat /\ asOf[t] <= toggles
      BY BoundAssumption DEF Follows
    <3>3. asOf' = asOf
      BY <2>1 DEF filter
    <3> QED BY <3>1, <3>2, <3>3
  <2> QED BY <2>1, <2>2, <2>3, <2>4, <2>5 DEF Follows, client, filter
<1>4. ASSUME NEW t \in Task, NEW p \in Prompt, Submit(t, p) PROVE Follows'
  <2>1. /\ Client!Submit(t, p) /\ enabled' = [enabled EXCEPT ![t] = thinking]
        /\ asOf' = [asOf EXCEPT ![t] = toggles]
        /\ UNCHANGED <<thinking, toggles, inside, passed>>
    BY <1>4 DEF Submit
  <2>2. Inductive'
    BY <1>1, <2>1, InductiveStep DEF Client!Next
  <2>3. /\ phase[t] = "idle" /\ posted' = posted
        /\ \A u \in Task : u # t => phase'[u] = phase[u]
    BY <1>1, <2>1 DEF Client!Submit
  <2>4. /\ ~inside[t] /\ inside[t] = FALSE
        /\ TokensOf(posted, t) = <<>> /\ ShownOf(passed, t) = <<>>
    BY <1>1, <2>3 DEF Follows
  <2>5. /\ thinking \in BOOLEAN /\ enabled'[t] = thinking
        /\ \A u \in Task : u # t => enabled'[u] = enabled[u]
    BY <1>1, <2>1 DEF Follows
  <2>6. ASSUME NEW u \in Task
        PROVE  /\ enabled'[u] => ~inside'[u]
               /\ phase'[u] \in {"idle", "waiting"} =>
                    ~inside'[u] /\ TokensOf(posted', u) = <<>> /\ ShownOf(passed', u) = <<>>
               /\ Followed(TokensOf(posted', u), ShownOf(passed', u), enabled'[u], inside'[u])
    <3>1. CASE u = t
      BY <2>1, <2>3, <2>4, <2>5, <3>1, NothingFollowed
    <3>2. CASE u # t
      BY <2>1, <2>3, <2>5, <3>2 DEF Follows
    <3> QED BY <3>1, <3>2
  <2>7. /\ thinking' \in BOOLEAN /\ toggles' \in 0..MaxToggles
        /\ enabled' \in [Task -> BOOLEAN] /\ inside' \in [Task -> BOOLEAN]
        /\ passed' \in Seq(Calls) /\ Silent(posted)'
    BY <1>1, <2>1, <2>3, <2>5 DEF Follows, Silent
  <2>8. /\ asOf \in [Task -> 0..MaxToggles] /\ toggles \in 0..MaxToggles
        /\ \A u \in Task : asOf[u] <= toggles
    BY DEF Follows
  <2>9. /\ asOf' \in [Task -> 0..MaxToggles] /\ asOf'[t] = toggles /\ toggles' = toggles
        /\ \A u \in Task : u # t => asOf'[u] = asOf[u]
    BY <2>1, <2>8
  <2>10. toggles <= toggles
    BY <2>8, BoundAssumption
  <2>11. ASSUME NEW u \in Task
         PROVE  /\ asOf'[u] <= toggles'
                /\ phase'[u] # "idle" /\ asOf'[u] = toggles' => enabled'[u] = thinking'
    <3>1. CASE u = t
      BY <2>1, <2>5, <2>9, <2>10, <3>1
    <3>2. CASE u # t
      BY <2>1, <2>3, <2>5, <2>8, <2>9, <3>2 DEF Follows
    <3> QED BY <3>1, <3>2
  <2> QED BY <2>2, <2>6, <2>7, <2>9, <2>11 DEF Follows
<1>5. ASSUME NEW t \in Task, Work(t) PROVE Follows'
  <2> DEFINE r == Callbacks(t, SubSeq(posted', Len(posted) + 1, Len(posted')))
  <2>1. /\ Client!Work(t) /\ inside' = [inside EXCEPT ![t] = r.inside]
        /\ passed' = passed \o r.calls
        /\ UNCHANGED <<thinking, toggles, enabled, asOf>>
    BY <1>5 DEF Work
  <2>2. Inductive'
    BY <1>1, <2>1, InductiveStep DEF Client!Next
  <2>3. Grown(posted, posted') /\ AddedBy(t, posted, posted')
    BY <1>1, <2>1, WorkGrows
  <2>4. Told(t, posted, passed, [inside |-> inside[t], calls |-> <<>>])
    <3>1. [inside |-> inside[t], calls |-> <<>>] \in Filtered
      BY <1>1 DEF Filtered
    <3>2. passed \o <<>> = passed
      BY <1>1, ConcatEmptySeq
    <3>3. /\ enabled[t] => ~inside[t]
          /\ Followed(TokensOf(posted, t), ShownOf(passed, t), enabled[t], inside[t])
      BY DEF Follows
    <3> QED BY <3>1, <3>2, <3>3 DEF Told
  <2>5. Told(t, posted', passed, r)
    <3>1. enabled[t] \in BOOLEAN /\ inside[t] \in BOOLEAN
      BY <1>1
    <3>2. PICK new : new = posted'
      OBVIOUS
    <3>3. Told(t, new, passed, Callbacks(t, SubSeq(new, Len(posted) + 1, Len(new))))
      BY <1>1, <2>3, <2>4, <3>1, <3>2, WorkTold
    <3> QED BY <3>2, <3>3
  <2> HIDE DEF r
  <2>6. /\ r.inside \in BOOLEAN /\ r.calls \in Seq(Calls)
        /\ enabled[t] => ~r.inside
        /\ Followed(TokensOf(posted', t), ShownOf(passed', t), enabled[t], r.inside)
        /\ \A u : u # t => ShownOf(passed', u) = ShownOf(passed, u)
    BY <2>1, <2>5 DEF Told, Filtered
  <2>7. \A u : u # t => TokensOf(posted', u) = TokensOf(posted, u)
    BY <1>1, <2>3, TokensOfOthers
  <2>8. /\ phase'[t] \in {"streaming", "settled"}
        /\ \A u \in Task : u # t => phase'[u] = phase[u]
    BY <1>1, <2>1, WorkBegins
  <2>9. /\ inside'[t] = r.inside /\ inside' \in [Task -> BOOLEAN]
        /\ \A u \in Task : u # t => inside'[u] = inside[u]
    BY <1>1, <2>1, <2>6
  <2>10. ASSUME NEW u \in Task
         PROVE  /\ enabled'[u] => ~inside'[u]
                /\ phase'[u] \in {"idle", "waiting"} =>
                     ~inside'[u] /\ TokensOf(posted', u) = <<>> /\ ShownOf(passed', u) = <<>>
                /\ Followed(TokensOf(posted', u), ShownOf(passed', u), enabled'[u], inside'[u])
    <3>1. CASE u = t
      BY <2>1, <2>6, <2>8, <2>9, <3>1
    <3>2. CASE u # t
      BY <2>1, <2>6, <2>7, <2>8, <2>9, <3>2 DEF Follows
    <3> QED BY <3>1, <3>2
  <2>11. passed' \in Seq(Calls)
    BY <1>1, <2>1, <2>6, ConcatProperties
  <2>12. Silent(posted)'
    BY <2>3 DEF Grown, Silent
  <2>13. thinking' \in BOOLEAN /\ toggles' \in 0..MaxToggles /\ enabled' \in [Task -> BOOLEAN]
    BY <2>1 DEF Follows
  <2>14. \A u \in Task : phase'[u] # "idle" => phase[u] # "idle"
    <3>1. phase[t] # "idle"
      BY <2>1 DEF Client!Work, Client!Refuse, Client!Replay, Client!Begin, Client!Emit,
                  Client!Settle
    <3> QED BY <2>8, <3>1
  <2>15. /\ asOf' \in [Task -> 0..MaxToggles]
         /\ \A u \in Task : asOf'[u] <= toggles'
         /\ \A u \in Task :
               phase'[u] # "idle" /\ asOf'[u] = toggles' => enabled'[u] = thinking'
    BY <2>1, <2>14 DEF Follows
  <2> QED BY <2>15, <2>2, <2>9, <2>10, <2>11, <2>12, <2>13 DEF Follows
<1> QED BY <1>2, <1>3, <1>4, <1>5 DEF Next

\* Whatever the setting becomes, the callbacks follow the answers.
THEOREM FollowsInvariant == Spec => []Follows
BY FollowsInit, FollowsStep, PTL DEF Spec

\* The filter, the client and the callbacks keep to their types; a task that waits or is
\* shown its blocks is inside of none.
THEOREM TypeCorrect == Spec => []TypeOK
<1>1. Follows => TypeOK
  BY DEF Follows, Inductive, TypeOK, Client!TypeOK, Calls
<1> QED BY <1>1, FollowsInvariant, PTL

\* An answer during which the setting was not changed is shown as the setting is: with
\* its blocks, or with nothing of them and all of the rest (RunCobaltTask).
THEOREM AnswersShownAsSet == Spec => []ShownAsSet
<1>1. Follows => ShownAsSet
  <2> SUFFICES ASSUME Follows, NEW t \in Task,
                      phase[t] # "idle" /\ asOf[t] = toggles /\ Regular(Tokens(t))
               PROVE  Shown(t) = IF thinking THEN FlattenSeq(Tokens(t))
                                 ELSE Visible(FlattenSeq(Tokens(t)))
    BY DEF ShownAsSet
  <2>1. Tokens(t) = TokensOf(posted, t) /\ Shown(t) = ShownOf(passed, t)
    BY DEF Tokens, TokensOf, Shown, ShownOf
  <2>2. /\ Followed(TokensOf(posted, t), ShownOf(passed, t), enabled[t], inside[t])
        /\ enabled[t] = thinking
    BY DEF Follows
  <2> QED BY <2>1, <2>2 DEF Followed
<1> QED BY <1>1, FollowsInvariant, PTL
=============================================================================
