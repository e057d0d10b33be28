-------------------------- MODULE OllamaClientProofs --------------------------
(***************************************************************************)
(* Proofs about OllamaClient, for any number of tasks, prompts, answers    *)
(* and cache entries.                                                      *)
(***************************************************************************)
EXTENDS OllamaClient, SequenceTheorems, FiniteSetTheorems, TLAPS

\* A task that was spawned has a prompt.
Prompted == \A t \in Task : pc[t] # "idle" => prompt[t] \in Prompt

\* The queue of the io_context holds each task that has not started once.
QueueMatches ==
  /\ \A i \in 1..Len(spawned) : pc[spawned[i]] = "spawned"
  /\ \A i, j \in 1..Len(spawned) : spawned[i] = spawned[j] => i = j

\* While a stream is open its key is not in the cache.
StreamMissed ==
  \A t \in Task : pc[t] \in OpenStates => CacheKey[prompt[t]] \notin DOMAIN table

Inductive ==
  /\ TypeOK
  /\ Prompted
  /\ QueueMatches
  /\ StreamOwnership
  /\ StreamMissed
  /\ CacheConsistent

-----------------------------------------------------------------------------
(* Values the actions build. *)

LEMMA BytesType ==
  ASSUME NEW a \in Answer
  PROVE  Bytes(a) \in Seq(Byte)
<1> DEFINE n == IF a.terminated \/ a.lines = <<>> THEN 2 * Len(a.lines)
                                                  ELSE 2 * Len(a.lines) - 1
<1>1. a.lines \in Seq(Line) /\ a.terminated \in BOOLEAN
  BY AnswerAssumption
<1>2. Len(a.lines) \in Nat /\ (a.lines # <<>> => Len(a.lines) > 0)
  BY <1>1
<1>3. n \in Nat
  BY <1>2
<1>4. ASSUME NEW i \in 1..n
      PROVE  [line |-> a.lines[(i + 1) \div 2], newline |-> i % 2 = 0] \in Byte
  <2>1. i \in Nat /\ i <= 2 * Len(a.lines) /\ i >= 1
    BY <1>2, <1>3
  <2>2. (i + 1) \div 2 \in 1..Len(a.lines)
    BY <1>2, <2>1
  <2>3. a.lines[(i + 1) \div 2] \in Line
    BY <1>1, <2>2, ElementOfSeq
  <2> QED BY <2>3 DEF Byte
<1> HIDE DEF n
<1>5. [i \in 1..n |-> [line |-> a.lines[(i + 1) \div 2], newline |-> i % 2 = 0]]
        \in [1..n -> Byte]
  BY <1>4
<1>6. \A f \in [1..n -> Byte] : f \in Seq(Byte)
  BY <1>3
<1> QED BY <1>5, <1>6 DEF Bytes, n

LEMMA EventTypes ==
  ASSUME NEW t \in Task
  PROVE  /\ Final(t) \in Events
         /\ \A text \in Text : Token(t, text) \in Events
         /\ <<>> \in Text /\ <<Notice>> \in Text
         /\ \A s \in Seq(Word) : s \in Text
BY DEF Final, Token, Events, Text

LEMMA CacheKeyType ==
  ASSUME NEW p \in Prompt
  PROVE  CacheKey[p] \in Key
BY DEF Key

LEMMA ContentType ==
  ASSUME NEW view
  PROVE  Content(view) \in {<<>>} \cup {<<w>> : w \in Word} /\ Content(view) \in Seq(Word)
BY DEF Content

-----------------------------------------------------------------------------
(* Types. *)

LEMMA PcTypes ==
  {"idle", "spawned", "done", "resolving", "connecting", "writing", "header", "reading",
   "parsing", "testing"} \subseteq PcStates
BY DEF PcStates, OpenStates, AwaitStates, BusyStates

LEMMA EmptyTypes == \A S : <<>> \in Seq(S)
OBVIOUS

LEMMA SingletonTypes ==
  ASSUME NEW S, NEW x \in S
  PROVE  <<x>> \in Seq(S)
OBVIOUS

\* The values Finish leaves in the queue of events and in the cache.
LEMMA FinishTypes ==
  ASSUME Inductive, NEW t \in Task, pc[t] = "testing",
         NEW closing \in {<<>>, <<Token(t, <<Notice>>)>>}, Finish(t, closing)
  PROVE  /\ pc' \in [Task -> PcStates]
         /\ posted' \in Seq(Events)
         /\ DOMAIN table' \subseteq Key
         /\ \A k \in DOMAIN table' : table'[k] \in Seq(Word)
         /\ order' \in Seq(Key)
<1> USE DEF Inductive
<1>1. pc' \in [Task -> PcStates]
  BY PcTypes DEF Finish, TypeOK
<1>2. closing \in Seq(Events) /\ <<Final(t)>> \in Seq(Events)
  <2>1. Token(t, <<Notice>>) \in Events /\ Final(t) \in Events
    BY EventTypes
  <2> QED BY <2>1, EmptyTypes, SingletonTypes
<1>3. posted' \in Seq(Events)
  BY <1>2, ConcatProperties DEF Finish, TypeOK
<1>4. CacheKey[prompt[t]] \in Key
  BY CacheKeyType DEF Prompted
<1>5. CASE UNCHANGED cache
  BY <1>1, <1>3, <1>5 DEF TypeOK, cache
<1>6. CASE UpdateCache(CacheKey[prompt[t]], accumulation[t])
  <2> DEFINE full == Cardinality(DOMAIN table) >= MaxEntries
  <2>1. ASSUME full PROVE order # <<>>
    <3>1. SUFFICES ASSUME order = <<>> PROVE FALSE
      OBVIOUS
    <3>2. DOMAIN table = {}
      BY <3>1 DEF CacheConsistent, Range
    <3> QED BY <2>1, <3>2, FS_EmptySet, MaxEntriesAssumption
  <2>2. (IF full THEN Tail(order) ELSE order) \in Seq(Key)
    BY <2>1, HeadTailProperties DEF TypeOK
  <2>3. order' \in Seq(Key)
    BY <1>4, <1>6, <2>2, AppendProperties DEF UpdateCache
  <2>4. /\ DOMAIN table' \subseteq DOMAIN table \cup {CacheKey[prompt[t]]}
        /\ \A k \in DOMAIN table' : table'[k] = IF k = CacheKey[prompt[t]]
                                                 THEN accumulation[t] ELSE table[k]
    BY <1>6 DEF UpdateCache
  <2>5. accumulation[t] \in Seq(Word)
    BY DEF TypeOK
  <2>6. /\ DOMAIN table' \subseteq Key
        /\ \A k \in DOMAIN table' : table'[k] \in Seq(Word)
    BY <1>4, <2>4, <2>5 DEF TypeOK
  <2> QED BY <1>1, <1>3, <2>3, <2>6
<1> QED BY <1>5, <1>6 DEF Finish

LEMMA TypeStart ==
  ASSUME Inductive, NEW t \in Task, Start(t)
  PROVE  TypeOK'
<1> USE DEF Inductive
<1>1. t = Head(spawned) /\ spawned' \in Seq(Task)
  <2>1. Starts(t)
    BY DEF Start, Refuse, Replay, Begin
  <2> QED BY <2>1, HeadTailProperties DEF TypeOK, Starts
<1>2. pc' \in [Task -> PcStates]
  BY PcTypes DEF TypeOK, Start, Refuse, Replay, Begin
<1>3. residual' \in Seq(Byte)
  <2>1. residual' = <<>> \/ residual' = residual
    BY DEF Start, Refuse, Replay, Begin
  <2> QED BY <2>1, EmptyTypes DEF TypeOK
<1>4. CASE Refuse(t)
  <2>1. posted' \in Seq(Events)
    BY <1>4, EventTypes, AppendProperties DEF TypeOK, Refuse
  <2> QED BY <1>1, <1>2, <1>4, <2>1 DEF TypeOK, Refuse, cache
<1>5. CASE Replay(t)
  <2> DEFINE k == CacheKey[prompt[t]]
  <2>1. Token(t, table[k]) \in Events /\ Final(t) \in Events
    BY <1>5, EventTypes DEF TypeOK, Replay
  <2>2. posted' \in Seq(Events)
    BY <1>5, <2>1, AppendProperties DEF TypeOK, Replay
  <2> QED BY <1>1, <1>2, <1>3, <1>5, <2>2 DEF TypeOK, Replay, cache
<1>6. CASE Begin(t)
  BY <1>1, <1>2, <1>3, <1>6 DEF TypeOK, Begin, cache
<1> QED BY <1>4, <1>5, <1>6 DEF Start

LEMMA TypeAwait ==
  ASSUME Inductive, NEW t \in Task, Await(t)
  PROVE  TypeOK'
<1> USE DEF Inductive
<1>1. pc' \in [Task -> PcStates]
  BY PcTypes DEF TypeOK, Await, Resolve, Connect, Write, ReadHeader, ReadSome
<1>2. CASE Resolve(t)
  <2>1. posted' \in Seq(Events)
    <3>1. posted' = posted \/ posted' = Append(posted, Final(t))
      BY <1>2 DEF Resolve
    <3>2. posted \in Seq(Events) /\ Append(posted, Final(t)) \in Seq(Events)
      BY EventTypes, AppendProperties DEF TypeOK
    <3> QED BY <3>1, <3>2
  <2> QED BY <1>1, <1>2, <2>1 DEF TypeOK, Resolve, cache
<1>3. CASE Connect(t)
  <2>1. link' \in [Task -> BOOLEAN]
    BY <1>3 DEF TypeOK, Connect
  <2> QED BY <1>1, <1>3, <2>1 DEF TypeOK, Connect, cache
<1>4. CASE Write(t)
  <2>1. link' \in [Task -> BOOLEAN]
    BY <1>4 DEF TypeOK, Write
  <2> QED BY <1>1, <1>4, <2>1 DEF TypeOK, Write, cache
<1>5. CASE ReadHeader(t)
  <2>1. body' \in [Task -> Seq(Byte)]
    BY <1>5, BytesType DEF TypeOK, ReadHeader
  <2>2. link' \in [Task -> BOOLEAN] /\ complete' \in [Task -> BOOLEAN]
    BY <1>5 DEF TypeOK, ReadHeader
  <2> QED BY <1>1, <1>5, <2>1, <2>2 DEF TypeOK, ReadHeader, cache
<1>6. CASE ReadSome(t)
  <2>1. PICK n \in 0..(Len(body[t]) - received[t]) :
          /\ received' = [received EXCEPT ![t] = @ + n]
          /\ residual' = residual \o SubSeq(body[t], received[t] + 1, received[t] + n)
    BY <1>6 DEF ReadSome
  <2>2. body[t] \in Seq(Byte) /\ received[t] \in Nat /\ residual \in Seq(Byte)
    BY DEF TypeOK
  <2>3. n \in Nat /\ received[t] + n <= Len(body[t])
    BY <2>2
  <2>4. \A i \in received[t] + 1 .. received[t] + n : body[t][i] \in Byte
    BY <2>2, <2>3, ElementOfSeq
  <2>5. SubSeq(body[t], received[t] + 1, received[t] + n) \in Seq(Byte)
    BY <2>2, <2>3, <2>4, SubSeqProperties
  <2>6. residual' \in Seq(Byte)
    BY <2>1, <2>2, <2>5, ConcatProperties
  <2>7. received' \in [Task -> Nat]
    <3>1. received[t] + n \in Nat
      BY <2>2, <2>3
    <3> QED BY <2>1, <3>1 DEF TypeOK
  <2>8. /\ complete' \in [Task -> BOOLEAN] /\ broken' \in [Task -> BOOLEAN]
        /\ link' \in [Task -> BOOLEAN]
    BY <1>6 DEF TypeOK, ReadSome
  <2> QED BY <1>1, <1>6, <2>6, <2>7, <2>8 DEF TypeOK, ReadSome, cache
<1> QED BY <1>2, <1>3, <1>4, <1>5, <1>6 DEF Await

LEMMA TypeCompute ==
  ASSUME Inductive, NEW t \in Task, Compute(t)
  PROVE  TypeOK'
<1> USE DEF Inductive
<1>1. CASE ParseLine(t)
  <2>1. PICK end \in DOMAIN residual :
          /\ \/ /\ posted' = Append(posted, Token(t, Content(SubSeq(residual, 1, end))))
                /\ accumulation' =
                     [accumulation EXCEPT ![t] = @ \o Content(SubSeq(residual, 1, end))]
             \/ UNCHANGED <<posted, accumulation>>
          /\ residual' = SubSeq(residual, end + 1, Len(residual))
    BY <1>1 DEF ParseLine
  <2> DEFINE content == Content(SubSeq(residual, 1, end))
  <2>2. content \in Seq(Word)
    BY ContentType
  <2>3. Token(t, content) \in Events
    BY <2>2, EventTypes
  <2> HIDE DEF content
  <2>4. accumulation' \in [Task -> Seq(Word)]
    <3>1. accumulation[t] \o content \in Seq(Word)
      BY <2>2, ConcatProperties DEF TypeOK
    <3> QED BY <2>1, <3>1 DEF TypeOK, content
  <2>5. posted' \in Seq(Events)
    <3>1. posted' = posted \/ posted' = Append(posted, Token(t, content))
      BY <2>1 DEF content
    <3>2. posted \in Seq(Events) /\ Append(posted, Token(t, content)) \in Seq(Events)
      BY <2>3, AppendProperties DEF TypeOK
    <3> QED BY <3>1, <3>2
  <2>6. residual' \in Seq(Byte)
    <3>1. residual \in Seq(Byte) /\ end \in 1..Len(residual) /\ Len(residual) \in Nat
      BY LenProperties DEF TypeOK
    <3>2. \A i \in end + 1 .. Len(residual) : residual[i] \in Byte
      BY <3>1, ElementOfSeq
    <3> QED BY <2>1, <3>1, <3>2, SubSeqProperties
  <2> QED BY <1>1, <2>4, <2>5, <2>6 DEF TypeOK, ParseLine, cache
<1>2. CASE ParseEnd(t) \/ ReadOn(t)
  <2>1. pc' \in [Task -> PcStates]
    BY <1>2, PcTypes DEF TypeOK, ParseEnd, ReadOn
  <2> QED BY <1>2, <2>1 DEF TypeOK, ParseEnd, ReadOn, cache
<1>3. CASE End(t) \/ Interrupt(t)
  <2>1. PICK closing \in {<<>>, <<Token(t, <<Notice>>)>>} : pc[t] = "testing" /\ Finish(t, closing)
    BY <1>3 DEF End, Interrupt
  <2>2. link' \in [Task -> BOOLEAN]
    BY <1>3 DEF TypeOK, End, Interrupt
  <2> QED BY <2>1, <2>2, FinishTypes DEF TypeOK, Finish
<1> QED BY <1>1, <1>2, <1>3 DEF Compute

LEMMA TypeStep ==
  ASSUME Inductive, [Next]_vars
  PROVE  TypeOK'
<1> USE DEF Inductive
<1>1. CASE Cancel
  BY <1>1, MaxCancelsAssumption DEF TypeOK, Cancel, task, cache
<1>2. CASE Close
  BY <1>2 DEF TypeOK, Close, task, cache
<1>3. ASSUME NEW t \in Task, NEW p \in Prompt, Submit(t, p)
      PROVE  TypeOK'
  <2>1. pc' \in [Task -> PcStates]
    BY <1>3, PcTypes DEF TypeOK, Submit
  <2>2. spawned' \in Seq(Task)
    BY <1>3, AppendProperties DEF TypeOK, Submit
  <2> QED BY <1>3, <2>1, <2>2 DEF TypeOK, Submit, cache
<1>4. CASE UNCHANGED vars
  BY <1>4 DEF TypeOK, vars, task, cache
<1> QED BY <1>1, <1>2, <1>3, <1>4, TypeStart, TypeAwait, TypeCompute DEF Next

-----------------------------------------------------------------------------
(* The queue of tasks that have not started, and their prompts. *)

LEMMA QueueStep ==
  ASSUME Inductive, [Next]_vars
  PROVE  Prompted' /\ QueueMatches'
<1> USE DEF Inductive
<1>1. ASSUME NEW t \in Task, NEW p \in Prompt, Submit(t, p)
      PROVE  Prompted' /\ QueueMatches'
  <2>1. Prompted'
    BY <1>1 DEF Submit, TypeOK, Prompted
  <2>2. /\ spawned \in Seq(Task) /\ Len(spawned') = Len(spawned) + 1 /\ Len(spawned) \in Nat
        /\ \A i \in 1..Len(spawned) : spawned'[i] = spawned[i]
        /\ spawned'[Len(spawned) + 1] = t
    BY <1>1, AppendProperties DEF Submit, TypeOK
  <2>3. \A i \in 1..Len(spawned) : spawned[i] \in Task /\ spawned[i] # t
    BY <1>1, <2>2 DEF Submit, QueueMatches
  <2>4. pc'[t] = "spawned" /\ \A u \in Task : u # t => pc'[u] = pc[u]
    BY <1>1 DEF Submit, TypeOK
  <2>5. \A i \in 1..Len(spawned') : i = Len(spawned) + 1 \/ i \in 1..Len(spawned)
    BY <2>2
  <2>6. \A i \in 1..Len(spawned') : pc'[spawned'[i]] = "spawned"
    BY <2>2, <2>3, <2>4, <2>5 DEF QueueMatches
  <2>7. \A i, j \in 1..Len(spawned') : spawned'[i] = spawned'[j] => i = j
    BY <2>2, <2>3, <2>5 DEF QueueMatches
  <2> QED BY <2>1, <2>6, <2>7 DEF QueueMatches
<1>2. ASSUME NEW t \in Task, Start(t)
      PROVE  Prompted' /\ QueueMatches'
  <2>1. Starts(t) /\ prompt' = prompt
    BY <1>2 DEF Start, Refuse, Replay, Begin
  <2>2. PICK s \in {"done", "resolving"} : pc' = [pc EXCEPT ![t] = s]
    BY <1>2 DEF Start, Refuse, Replay, Begin
  <2>3. /\ spawned \in Seq(Task) /\ Len(spawned') = Len(spawned) - 1 /\ Len(spawned) \in Nat \ {0}
        /\ t = spawned[1]
        /\ \A i \in 1..Len(spawned') : spawned'[i] = spawned[i + 1]
    BY <2>1, HeadTailProperties DEF Starts, TypeOK
  <2>4. pc[t] = "spawned"
    BY <2>3 DEF QueueMatches
  <2>5. \A i \in 1..Len(spawned') : spawned'[i] \in Task /\ spawned'[i] # t
    BY <2>3 DEF QueueMatches
  <2>6. QueueMatches'
    <3>1. \A u \in Task : u # t => pc'[u] = pc[u]
      BY <2>2 DEF TypeOK
    <3>2. \A i \in 1..Len(spawned') : i + 1 \in 1..Len(spawned)
      BY <2>3
    <3>3. \A i \in 1..Len(spawned') : pc'[spawned'[i]] = "spawned"
      BY <2>3, <2>5, <3>1, <3>2 DEF QueueMatches
    <3>4. \A i, j \in 1..Len(spawned') : spawned'[i] = spawned'[j] => i = j
      BY <2>3, <3>2 DEF QueueMatches
    <3> QED BY <3>3, <3>4 DEF QueueMatches
  <2> QED BY <2>1, <2>2, <2>4, <2>6 DEF Prompted, TypeOK
<1>3. ASSUME NEW t \in Task, Await(t) \/ Compute(t)
      PROVE  Prompted' /\ QueueMatches'
  <2>1. prompt' = prompt /\ spawned' = spawned
    BY <1>3 DEF Await, Compute, Resolve, Connect, Write, ReadHeader, ReadSome,
                ParseLine, ParseEnd, End, Interrupt, ReadOn, Finish
  <2>2. pc[t] \in OpenStates
    BY <1>3 DEF Await, Compute, Resolve, Connect, Write, ReadHeader, ReadSome, Resume,
                ParseLine, ParseEnd, End, Interrupt, ReadOn, OpenStates, AwaitStates, BusyStates
  <2>3. \A u \in Task : u # t => pc'[u] = pc[u]
    BY <1>3 DEF Await, Compute, Resolve, Connect, Write, ReadHeader, ReadSome,
                ParseLine, ParseEnd, End, Interrupt, ReadOn, Finish, TypeOK
  <2>4. pc[t] # "idle" /\ pc[t] # "spawned"
    BY <2>2 DEF OpenStates, AwaitStates, BusyStates
  <2>5. Prompted'
    BY <2>1, <2>3, <2>4 DEF Prompted
  <2>6. \A i \in 1..Len(spawned) : spawned[i] \in Task /\ spawned[i] # t
    BY <2>4 DEF QueueMatches, TypeOK
  <2> QED BY <2>1, <2>3, <2>5, <2>6 DEF QueueMatches
<1>4. CASE Cancel \/ Close \/ UNCHANGED vars
  BY <1>4 DEF Cancel, Close, vars, task, Prompted, QueueMatches
<1> QED BY <1>1, <1>2, <1>3, <1>4 DEF Next

\* The task that starts is at the head of the queue, so it has not started.
LEMMA StartsSpawned ==
  ASSUME Inductive, NEW t \in Task, Start(t)
  PROVE  pc[t] = "spawned"
<1>1. Starts(t)
  BY DEF Start, Refuse, Replay, Begin
<1>2. spawned \in Seq(Task) /\ spawned # <<>> /\ t = spawned[1]
  BY <1>1, HeadTailProperties DEF Inductive, TypeOK, Starts
<1>3. 1 \in 1..Len(spawned)
  BY <1>2, LenProperties, EmptySeq
<1> QED BY <1>2, <1>3 DEF Inductive, QueueMatches

-----------------------------------------------------------------------------
(* One stream at a time. *)

LEMMA OwnershipStep ==
  ASSUME Inductive, [Next]_vars
  PROVE  StreamOwnership'
<1> USE DEF Inductive
<1>1. ASSUME NEW t \in Task, NEW p \in Prompt, Submit(t, p)
      PROVE  StreamOwnership'
  <2>1. pc[t] \notin OpenStates /\ pc'[t] \notin OpenStates
    BY <1>1 DEF Submit, TypeOK, OpenStates, AwaitStates, BusyStates
  <2> QED BY <1>1, <2>1 DEF Submit, TypeOK, StreamOwnership
<1>2. ASSUME NEW t \in Task, Refuse(t) \/ Replay(t)
      PROVE  StreamOwnership'
  <2>1. pc[t] \notin OpenStates /\ pc'[t] \notin OpenStates
    <3>1. pc[t] = "spawned" /\ pc'[t] = "done"
      BY <1>2, LenProperties DEF Refuse, Replay, Starts, QueueMatches, TypeOK
    <3> QED BY <3>1 DEF OpenStates, AwaitStates, BusyStates
  <2>2. streaming' = streaming /\ \A u \in Task : u # t => pc'[u] = pc[u]
    BY <1>2 DEF Refuse, Replay, TypeOK
  <2> QED BY <2>1, <2>2 DEF StreamOwnership
<1>3. ASSUME NEW t \in Task, Begin(t)
      PROVE  StreamOwnership'
  <2>1. pc'[t] \in OpenStates
    BY <1>3 DEF Begin, TypeOK, OpenStates, AwaitStates
  <2> QED BY <1>3, <2>1 DEF Begin, TypeOK, StreamOwnership
<1>4. ASSUME NEW t \in Task, Await(t) \/ Compute(t)
      PROVE  StreamOwnership'
  <2>1. pc[t] \in OpenStates /\ \A u \in Task : u # t => pc'[u] = pc[u]
    BY <1>4 DEF Await, Compute, Resolve, Connect, Write, ReadHeader, ReadSome, Resume,
                ParseLine, ParseEnd, End, Interrupt, ReadOn, Finish,
                TypeOK, OpenStates, AwaitStates, BusyStates
  <2>2. \/ streaming' = streaming /\ pc'[t] \in OpenStates
        \/ streaming' = FALSE /\ pc'[t] = "done"
    BY <1>4 DEF Await, Compute, Resolve, Connect, Write, ReadHeader, ReadSome,
                ParseLine, ParseEnd, End, Interrupt, ReadOn, Finish,
                TypeOK, OpenStates, AwaitStates, BusyStates
  <2>3. "done" \notin OpenStates
    BY DEF OpenStates, AwaitStates, BusyStates
  <2> QED BY <2>1, <2>2, <2>3 DEF StreamOwnership, TypeOK
<1>5. CASE Cancel \/ Close \/ UNCHANGED vars
  BY <1>5 DEF Cancel, Close, vars, task, StreamOwnership
<1> QED BY <1>1, <1>2, <1>3, <1>4, <1>5 DEF Next, Start

-----------------------------------------------------------------------------
(* The two halves of the cache. *)

LEMMA StreamMissedStep ==
  ASSUME Inductive, [Next]_vars
  PROVE  StreamMissed'
<1> USE DEF Inductive
<1>1. ASSUME NEW t \in Task, NEW p \in Prompt, Submit(t, p)
      PROVE  StreamMissed'
  <2>1. /\ pc'[t] \notin OpenStates /\ table' = table
        /\ \A u \in Task : u # t => pc'[u] = pc[u] /\ prompt'[u] = prompt[u]
    BY <1>1 DEF Submit, cache, TypeOK, OpenStates, AwaitStates, BusyStates
  <2> QED BY <2>1 DEF StreamMissed
<1>2. ASSUME NEW t \in Task, Refuse(t) \/ Replay(t)
      PROVE  StreamMissed'
  <2>1. /\ pc'[t] \notin OpenStates /\ table' = table /\ prompt' = prompt
        /\ \A u \in Task : u # t => pc'[u] = pc[u]
    BY <1>2 DEF Refuse, Replay, cache, TypeOK, OpenStates, AwaitStates, BusyStates
  <2> QED BY <2>1 DEF StreamMissed
<1>3. ASSUME NEW t \in Task, Begin(t)
      PROVE  StreamMissed'
  <2>1. /\ CacheKey[prompt[t]] \notin DOMAIN table /\ table' = table /\ prompt' = prompt
        /\ \A u \in Task : u # t => pc'[u] = pc[u]
    BY <1>3 DEF Begin, cache, TypeOK
  <2> QED BY <2>1 DEF StreamMissed
<1>4. ASSUME NEW t \in Task, Await(t) \/ Compute(t)
      PROVE  StreamMissed'
  <2>1. /\ pc[t] \in OpenStates /\ prompt' = prompt
        /\ \A u \in Task : u # t => pc'[u] = pc[u]
    BY <1>4 DEF Await, Compute, Resolve, Connect, Write, ReadHeader, ReadSome, Resume,
                ParseLine, ParseEnd, End, Interrupt, ReadOn, Finish,
                TypeOK, OpenStates, AwaitStates, BusyStates
  <2>2. \A u \in Task : u # t => pc'[u] \notin OpenStates
    BY <2>1 DEF StreamOwnership
  <2>3. table' = table \/ pc'[t] = "done"
    BY <1>4 DEF Await, Compute, Resolve, Connect, Write, ReadHeader, ReadSome,
                ParseLine, ParseEnd, End, Interrupt, ReadOn, Finish, cache, TypeOK
  <2>4. "done" \notin OpenStates
    BY DEF OpenStates, AwaitStates, BusyStates
  <2> QED BY <2>1, <2>2, <2>3, <2>4 DEF StreamMissed
<1>5. CASE Cancel \/ Close \/ UNCHANGED vars
  BY <1>5 DEF Cancel, Close, vars, task, cache, StreamMissed
<1> QED BY <1>1, <1>2, <1>3, <1>4, <1>5 DEF Next, Start

\* A sequence that lists each element of a set once has its length.
LEMMA ListingLength ==
  ASSUME NEW S, NEW s \in Seq(S), IsInjective(s)
  PROVE  IsFiniteSet(Range(s)) /\ Cardinality(Range(s)) = Len(s)
<1> DEFINE n == Len(s)
<1>1. n \in Nat /\ DOMAIN s = 1..n /\ s \in [1..n -> Range(s)]
  BY LenProperties DEF Range
<1>2. IsFiniteSet(1..n) /\ Cardinality(1..n) = n
  BY <1>1, FS_Interval
<1>3. s \in Bijection(1..n, Range(s))
  BY <1>1 DEF Bijection, Injection, Surjection, IsInjective, Range
<1>4. ExistsBijection(1..n, Range(s))
  BY <1>3 DEF ExistsBijection
<1> HIDE DEF n
<1>5. IsFiniteSet(Range(s)) /\ Cardinality(Range(s)) = Cardinality(1..n)
  BY <1>2, <1>4, FS_Bijection
<1> QED BY <1>2, <1>5 DEF n

\* Dropping the first element, and adding a new last one, keep a listing one.
LEMMA ListingTail ==
  ASSUME NEW S, NEW s \in Seq(S), IsInjective(s), s # <<>>
  PROVE  /\ Tail(s) \in Seq(S) /\ Len(Tail(s)) = Len(s) - 1
         /\ IsInjective(Tail(s)) /\ Range(Tail(s)) = Range(s) \ {Head(s)}
<1>1. /\ Tail(s) \in Seq(S) /\ Len(s) \in Nat \ {0} /\ Len(Tail(s)) = Len(s) - 1
      /\ DOMAIN s = 1..Len(s) /\ DOMAIN Tail(s) = 1..Len(Tail(s))
      /\ Head(s) = s[1] /\ \A i \in 1..Len(Tail(s)) : Tail(s)[i] = s[i + 1]
  BY HeadTailProperties, LenProperties, EmptySeq
<1>2. \A i \in 1..Len(Tail(s)) : i + 1 \in 1..Len(s)
  BY <1>1
<1>3. IsInjective(Tail(s))
  BY <1>1, <1>2 DEF IsInjective
<1>4. \A i \in 1..Len(s) : i = 1 \/ i - 1 \in 1..Len(Tail(s))
  BY <1>1
<1>5. ASSUME NEW x \in Range(s) \ {Head(s)}
      PROVE  x \in Range(Tail(s))
  <2>1. PICK i \in 1..Len(s) : x = s[i]
    BY <1>1 DEF Range
  <2>2. i # 1 /\ i - 1 \in 1..Len(Tail(s))
    BY <1>1, <1>4, <2>1
  <2>3. x = Tail(s)[i - 1]
    BY <1>1, <2>1, <2>2
  <2> QED BY <1>1, <2>2, <2>3 DEF Range
<1>6. ASSUME NEW x \in Range(Tail(s))
      PROVE  x \in Range(s) \ {Head(s)}
  <2>1. PICK i \in 1..Len(Tail(s)) : x = s[i + 1]
    BY <1>1 DEF Range
  <2>2. i + 1 \in DOMAIN s /\ 1 \in DOMAIN s /\ i + 1 # 1
    BY <1>1, <1>2
  <2>3. s[i + 1] # s[1]
    BY <2>2 DEF IsInjective
  <2> QED BY <1>1, <2>1, <2>2, <2>3 DEF Range
<1> QED BY <1>1, <1>3, <1>5, <1>6

LEMMA ListingAppend ==
  ASSUME NEW S, NEW s \in Seq(S), IsInjective(s), NEW x \in S \ Range(s)
  PROVE  /\ Append(s, x) \in Seq(S) /\ Len(Append(s, x)) = Len(s) + 1
         /\ IsInjective(Append(s, x)) /\ Range(Append(s, x)) = Range(s) \cup {x}
<1> DEFINE a == Append(s, x)
<1>1. /\ a \in Seq(S) /\ Len(a) = Len(s) + 1 /\ Len(s) \in Nat
      /\ DOMAIN s = 1..Len(s) /\ DOMAIN a = 1..Len(a)
      /\ \A i \in 1..Len(s) : a[i] = s[i]
      /\ a[Len(s) + 1] = x
  BY AppendProperties, LenProperties
<1> HIDE DEF a
<1>2. \A i \in DOMAIN a : i \in DOMAIN s \/ i = Len(s) + 1
  BY <1>1
<1>3. \A i \in DOMAIN s : i \in DOMAIN a /\ a[i] = s[i] /\ s[i] # x
  BY <1>1 DEF Range
<1>4. IsInjective(a)
  BY <1>1, <1>2, <1>3 DEF IsInjective
<1>5. Len(s) + 1 \in DOMAIN a
  BY <1>1
<1>6. Range(a) = Range(s) \cup {x}
  BY <1>1, <1>2, <1>3, <1>5 DEF Range
<1> QED BY <1>1, <1>4, <1>6 DEF a

LEMMA CacheStep ==
  ASSUME Inductive, [Next]_vars
  PROVE  CacheConsistent'
<1> USE DEF Inductive
<1>1. SUFFICES ASSUME NEW t \in Task, pc[t] = "testing",
                      UpdateCache(CacheKey[prompt[t]], accumulation[t])
               PROVE  CacheConsistent'
  <2>1. \/ UNCHANGED cache
        \/ \E t \in Task : pc[t] = "testing" /\ UpdateCache(CacheKey[prompt[t]], accumulation[t])
    BY DEF Next, Cancel, Close, Submit, Start, Refuse, Replay, Begin, Await, Compute, Resolve,
           Connect, Write, ReadHeader, ReadSome, ParseLine, ParseEnd, End, Interrupt, ReadOn,
           Finish, vars
  <2>2. CASE UNCHANGED cache
    BY <2>2 DEF cache, CacheConsistent
  <2> QED BY <1>1, <2>1, <2>2
<1> DEFINE k == CacheKey[prompt[t]]
           full == Cardinality(DOMAIN table) >= MaxEntries
           kept == IF full THEN DOMAIN table \ {Head(order)} ELSE DOMAIN table
           rest == IF full THEN Tail(order) ELSE order
<1>2. k \in Key /\ k \notin DOMAIN table
  BY <1>1, CacheKeyType DEF Prompted, StreamMissed, OpenStates, BusyStates
<1>3. /\ order \in Seq(Key) /\ IsInjective(order) /\ Range(order) = DOMAIN table
      /\ Len(order) \in Nat /\ Len(order) <= MaxEntries
  BY LenProperties DEF TypeOK, CacheConsistent
<1>4. Cardinality(DOMAIN table) = Len(order)
  BY <1>3, ListingLength
<1>5. MaxEntries \in Nat \ {0}
  BY MaxEntriesAssumption
<1>6. /\ rest \in Seq(Key) /\ IsInjective(rest) /\ Range(rest) = kept
      /\ Len(rest) + 1 <= MaxEntries
  <2>1. CASE full
    <3>1. Len(order) # 0 /\ order # <<>>
      BY <1>3, <1>4, <1>5, <2>1, EmptySeq
    <3> QED BY <1>3, <1>5, <2>1, <3>1, ListingTail
  <2>2. CASE ~full
    BY <1>3, <1>4, <1>5, <2>2
  <2> QED BY <2>1, <2>2
<1>7. order' = Append(rest, k) /\ DOMAIN table' = kept \cup {k}
  BY <1>1 DEF UpdateCache
<1> HIDE DEF rest, full, k
<1>8. k \in Key \ Range(rest)
  BY <1>2, <1>6
<1>9. /\ IsInjective(order') /\ Range(order') = DOMAIN table'
      /\ Len(order') = Len(rest) + 1
  BY <1>6, <1>7, <1>8, ListingAppend
<1> QED BY <1>6, <1>9 DEF CacheConsistent

-----------------------------------------------------------------------------
(* The invariant holds. *)

LEMMA InductiveInit == Init => Inductive
<1> SUFFICES ASSUME Init PROVE Inductive
  OBVIOUS
<1> USE DEF Init
<1>1. \A t \in Task : pc[t] = "idle" /\ pc[t] \notin OpenStates
  BY DEF OpenStates, AwaitStates, BusyStates
<1>2. TypeOK
  <2>1. pc \in [Task -> PcStates]
    BY PcTypes
  <2>2. cancels \in 0..MaxCancels
    BY MaxCancelsAssumption
  <2> QED BY <2>1, <2>2, EmptyTypes DEF TypeOK
<1>3. Prompted /\ StreamMissed /\ StreamOwnership
  BY <1>1 DEF Prompted, StreamMissed, StreamOwnership
<1>4. QueueMatches
  BY DEF QueueMatches
<1>5. CacheConsistent
  BY MaxEntriesAssumption DEF CacheConsistent, Range, IsInjective
<1> QED BY <1>2, <1>3, <1>4, <1>5 DEF Inductive

THEOREM InductiveInvariant == Spec => []Inductive
<1>1. Inductive /\ [Next]_vars => Inductive'
  BY TypeStep, QueueStep, OwnershipStep, StreamMissedStep, CacheStep DEF Inductive
<1> QED BY <1>1, InductiveInit, PTL DEF Spec

\* Every variable keeps its type in every behaviour of the client.
THEOREM TypeCorrect == Spec => []TypeOK
<1>1. Inductive => TypeOK
  BY DEF Inductive
<1> QED BY <1>1, InductiveInvariant, PTL

\* However many prompts are submitted while an answer streams, at most one task
\* is past the gate at the head of ExecuteStreamTask, and m_is_streaming says so.
THEOREM OneStreamAtATime == Spec => []StreamOwnership
<1>1. Inductive => StreamOwnership
  BY DEF Inductive
<1> QED BY <1>1, InductiveInvariant, PTL

\* UpdateCache, which never tests whether its key is present, keeps the lookup
\* table and the eviction order in agreement and within the bound.
THEOREM CacheStaysConsistent == Spec => []CacheConsistent
<1>1. Inductive => CacheConsistent
  BY DEF Inductive
<1> QED BY <1>1, InductiveInvariant, PTL

-----------------------------------------------------------------------------
(* The client implements the contract. *)

LEMMA PhaseStreaming ==
  ASSUME Inductive
  PROVE  \A t \in Task : phaseBar[t] = "streaming" <=> pc[t] \in OpenStates
BY DEF Inductive, TypeOK, phaseBar, PhaseOf, PcStates, OpenStates, AwaitStates, BusyStates

LEMMA PhaseOfState ==
  /\ PhaseOf("idle") = "idle" /\ PhaseOf("spawned") = "waiting" /\ PhaseOf("done") = "settled"
  /\ \A s \in OpenStates : PhaseOf(s) = "streaming"
BY DEF PhaseOf, OpenStates, AwaitStates, BusyStates

LEMMA PhaseMoves ==
  ASSUME Inductive, NEW t \in Task, NEW s, pc' = [pc EXCEPT ![t] = s]
  PROVE  phaseBar' = [phaseBar EXCEPT ![t] = PhaseOf(s)]
BY DEF Inductive, TypeOK, phaseBar

\* A stream that ends, in whichever way, settles.
LEMMA FinishSettles ==
  ASSUME Inductive, NEW t \in Task, pc[t] = "testing",
         NEW closing \in {<<>>, <<Token(t, <<Notice>>)>>}, Finish(t, closing)
  PROVE  Contract!Settle(t)
<1> USE DEF Inductive
<1> DEFINE entry == [key |-> CacheKey[prompt[t]], text |-> accumulation[t]]
<1>1. phaseBar[t] = "streaming"
  BY PhaseStreaming DEF OpenStates, BusyStates
<1>2. phaseBar' = [phaseBar EXCEPT ![t] = "settled"]
  <2>1. pc' = [pc EXCEPT ![t] = "done"]
    BY DEF Finish
  <2>2. phaseBar' = [phaseBar EXCEPT ![t] = PhaseOf("done")]
    BY <2>1, PhaseMoves
  <2> QED BY <2>2, PhaseOfState
<1>3. \E c \in {<<>>, <<Contract!Token(t, <<Notice>>)>>} :
        posted' = (posted \o c) \o <<Contract!Final(t)>>
  BY DEF Finish, Token, Final, Contract!Token, Contract!Final
<1>4. \E kept \in SUBSET rememberedBar :
        \/ rememberedBar' = kept
        \/ accumulation[t] # <<>> /\ rememberedBar' = kept \cup {entry}
  <2>1. CASE UNCHANGED cache
    BY <2>1 DEF cache, rememberedBar
  <2>2. CASE accumulation[t] # <<>> /\ UpdateCache(CacheKey[prompt[t]], accumulation[t])
    <3> DEFINE k == CacheKey[prompt[t]]
               full == Cardinality(DOMAIN table) >= MaxEntries
               keys == IF full THEN DOMAIN table \ {Head(order)} ELSE DOMAIN table
    <3>1. /\ DOMAIN table' = keys \cup {k}
          /\ \A x \in keys \cup {k} : table'[x] = IF x = k THEN accumulation[t] ELSE table[x]
      BY <2>2 DEF UpdateCache
    <3>2. k \notin DOMAIN table
      BY DEF StreamMissed, OpenStates, BusyStates
    <3>3. keys \subseteq DOMAIN table
      OBVIOUS
    <3> HIDE DEF keys, k
    <3>4. rememberedBar' = {[key |-> x, text |-> table[x]] : x \in keys} \cup {entry}
      BY <3>1, <3>2, <3>3 DEF rememberedBar, k
    <3>5. {[key |-> x, text |-> table[x]] : x \in keys} \in SUBSET rememberedBar
      BY <3>3 DEF rememberedBar
    <3> QED BY <2>2, <3>4, <3>5
  <2> QED BY <2>1, <2>2 DEF Finish
<1>5. UNCHANGED <<prompt, accumulation>>
  BY DEF Finish
<1> QED BY <1>1, <1>2, <1>3, <1>4, <1>5 DEF Contract!Settle

LEMMA ContractInit == Init => Contract!Init
BY DEF Init, Contract!Init, phaseBar, PhaseOf, rememberedBar

LEMMA ContractStep ==
  ASSUME Inductive, [Next]_vars
  PROVE  [Contract!Next]_(Contract!vars)
<1> USE DEF Inductive
<1>1. ASSUME NEW t \in Task, NEW p \in Prompt, Submit(t, p)
      PROVE  Contract!Submit(t, p)
  <2>1. phaseBar[t] = "idle" /\ phaseBar' = [phaseBar EXCEPT ![t] = "waiting"]
    <3>1. pc[t] = "idle" /\ pc' = [pc EXCEPT ![t] = "spawned"]
      BY <1>1 DEF Submit
    <3>2. phaseBar' = [phaseBar EXCEPT ![t] = PhaseOf("spawned")]
      BY <3>1, PhaseMoves
    <3> QED BY <3>1, <3>2, PhaseOfState DEF phaseBar
  <2>2. rememberedBar' = rememberedBar
    BY <1>1 DEF Submit, cache, rememberedBar
  <2> QED BY <1>1, <2>1, <2>2 DEF Submit, Contract!Submit
<1>2. ASSUME NEW t \in Task, Start(t)
      PROVE  Contract!Refuse(t) \/ Contract!Replay(t) \/ Contract!Begin(t)
  <2>1. phaseBar[t] = "waiting"
    <3>1. pc[t] = "spawned"
      BY <1>2, StartsSpawned
    <3> QED BY <3>1, PhaseOfState DEF phaseBar
  <2>2. Contract!StreamOpen <=> streaming
    BY PhaseStreaming DEF Contract!StreamOpen, StreamOwnership
  <2>3. rememberedBar' = rememberedBar
    BY <1>2 DEF Start, Refuse, Replay, Begin, cache, rememberedBar
  <2>4. CASE Refuse(t)
    <3>1. phaseBar' = [phaseBar EXCEPT ![t] = "settled"]
      <4>1. pc' = [pc EXCEPT ![t] = "done"]
        BY <2>4 DEF Refuse
      <4>2. phaseBar' = [phaseBar EXCEPT ![t] = PhaseOf("done")]
        BY <4>1, PhaseMoves
      <4> QED BY <4>2, PhaseOfState
    <3>2. Contract!Refuse(t)
      BY <2>1, <2>2, <2>3, <2>4, <3>1 DEF Refuse, Final, Contract!Refuse, Contract!Final
    <3> QED BY <3>2
  <2>5. CASE Replay(t)
    <3>1. phaseBar' = [phaseBar EXCEPT ![t] = "settled"]
      <4>1. pc' = [pc EXCEPT ![t] = "done"]
        BY <2>5 DEF Replay
      <4>2. phaseBar' = [phaseBar EXCEPT ![t] = PhaseOf("done")]
        BY <4>1, PhaseMoves
      <4> QED BY <4>2, PhaseOfState
    <3>2. \E r \in rememberedBar :
            /\ r.key = CacheKey[prompt[t]]
            /\ posted' = Append(Append(posted, Contract!Token(t, r.text)), Contract!Final(t))
      <4> DEFINE r == [key |-> CacheKey[prompt[t]], text |-> table[CacheKey[prompt[t]]]]
      <4>1. r \in rememberedBar
        BY <2>5 DEF Replay, rememberedBar
      <4>2. posted' = Append(Append(posted, Contract!Token(t, r.text)), Contract!Final(t))
        BY <2>5 DEF Replay, Token, Final, Contract!Token, Contract!Final
      <4>3. r.key = CacheKey[prompt[t]]
        OBVIOUS
      <4> QED BY <4>1, <4>2, <4>3
    <3>3. Contract!Replay(t)
      BY <2>1, <2>2, <2>3, <2>5, <3>1, <3>2 DEF Replay, Contract!Replay
    <3> QED BY <3>3
  <2>6. CASE Begin(t)
    <3>1. phaseBar' = [phaseBar EXCEPT ![t] = "streaming"]
      <4>1. pc' = [pc EXCEPT ![t] = "resolving"] /\ "resolving" \in OpenStates
        BY <2>6 DEF Begin, OpenStates, AwaitStates
      <4>2. phaseBar' = [phaseBar EXCEPT ![t] = PhaseOf("resolving")]
        BY <4>1, PhaseMoves
      <4> QED BY <4>1, <4>2, PhaseOfState
    <3>2. Contract!Begin(t)
      BY <2>1, <2>2, <2>3, <2>6, <3>1 DEF Begin, Contract!Begin
    <3> QED BY <3>2
  <2> QED BY <1>2, <2>4, <2>5, <2>6 DEF Start
<1>3. ASSUME NEW t \in Task, Await(t)
      PROVE  UNCHANGED Contract!vars \/ Contract!Settle(t)
  <2>1. pc[t] \in OpenStates
    BY <1>3 DEF Await, Resolve, Connect, Write, ReadHeader, ReadSome, Resume,
                OpenStates, AwaitStates
  <2>2. CASE pc'[t] # "done"
    <3>1. PICK s \in OpenStates : pc' = [pc EXCEPT ![t] = s]
      BY <1>3, <2>2 DEF Await, Resolve, Connect, Write, ReadHeader, ReadSome, TypeOK,
                        OpenStates, AwaitStates, BusyStates
    <3>2. phaseBar' = phaseBar
      <4>1. phaseBar[t] = PhaseOf(s) /\ phaseBar \in [Task -> {PhaseOf(x) : x \in PcStates}]
        BY <2>1, PhaseOfState DEF phaseBar, TypeOK
      <4>2. phaseBar' = [phaseBar EXCEPT ![t] = PhaseOf(s)]
        BY <3>1, PhaseMoves
      <4> HIDE DEF phaseBar
      <4> QED BY <4>1, <4>2
    <3>3. UNCHANGED <<prompt, accumulation, posted, table>>
      BY <1>3, <2>2 DEF Await, Resolve, Connect, Write, ReadHeader, ReadSome, cache, TypeOK
    <3>4. rememberedBar' = rememberedBar
      BY <3>3 DEF rememberedBar
    <3> QED BY <3>2, <3>3, <3>4 DEF Contract!vars
  <2>3. CASE pc'[t] = "done"
    <3>1. Resolve(t) /\ pc' = [pc EXCEPT ![t] = "done"] /\ posted' = Append(posted, Final(t))
      BY <1>3, <2>3 DEF Await, Resolve, Connect, Write, ReadHeader, ReadSome, TypeOK
    <3>2. phaseBar[t] = "streaming" /\ phaseBar' = [phaseBar EXCEPT ![t] = "settled"]
      <4>1. phaseBar' = [phaseBar EXCEPT ![t] = PhaseOf("done")]
        BY <3>1, PhaseMoves
      <4> QED BY <2>1, <4>1, PhaseOfState, PhaseStreaming
    <3>3. posted' = (posted \o <<>>) \o <<Contract!Final(t)>>
      <4>1. posted \in Seq(Events) /\ Final(t) \in Events /\ Final(t) = Contract!Final(t)
        BY EventTypes DEF TypeOK, Final, Contract!Final
      <4> QED BY <3>1, <4>1, AppendIsConcat, ConcatEmptySeq
    <3>4. UNCHANGED <<prompt, accumulation, table>>
      BY <3>1 DEF Resolve, cache
    <3>5. rememberedBar' = rememberedBar
      BY <3>4 DEF rememberedBar
    <3>6. Contract!Settle(t)
      BY <3>2, <3>3, <3>4, <3>5 DEF Contract!Settle
    <3> QED BY <3>6
  <2> QED BY <2>2, <2>3
<1>4. ASSUME NEW t \in Task, Compute(t)
      PROVE  \/ UNCHANGED Contract!vars \/ Contract!Settle(t)
             \/ \E text \in {<<>>} \cup {<<w>> : w \in Word} : Contract!Emit(t, text)
  <2>1. pc[t] \in OpenStates /\ phaseBar[t] = "streaming"
    <3>1. pc[t] \in OpenStates
      BY <1>4 DEF Compute, ParseLine, ParseEnd, End, Interrupt, ReadOn, OpenStates, BusyStates
    <3> QED BY <3>1, PhaseStreaming
  <2>2. CASE ParseLine(t)
    <3>1. phaseBar' = phaseBar /\ rememberedBar' = rememberedBar /\ prompt' = prompt
      BY <2>2 DEF ParseLine, cache, phaseBar, rememberedBar
    <3>2. CASE UNCHANGED <<posted, accumulation>>
      BY <3>1, <3>2 DEF Contract!vars
    <3>3. CASE ~UNCHANGED <<posted, accumulation>>
      <4>1. PICK end \in DOMAIN residual :
              /\ posted' = Append(posted, Token(t, Content(SubSeq(residual, 1, end))))
              /\ accumulation' =
                   [accumulation EXCEPT ![t] = @ \o Content(SubSeq(residual, 1, end))]
        BY <2>2, <3>3 DEF ParseLine
      <4> DEFINE text == Content(SubSeq(residual, 1, end))
      <4>2. text \in {<<>>} \cup {<<w>> : w \in Word}
        BY ContentType
      <4>3. Contract!Emit(t, text)
        BY <2>1, <3>1, <4>1 DEF Contract!Emit, Token, Contract!Token
      <4> QED BY <4>2, <4>3
    <3> QED BY <3>2, <3>3
  <2>3. CASE ParseEnd(t) \/ ReadOn(t)
    <3>1. PICK s \in OpenStates : pc' = [pc EXCEPT ![t] = s]
      BY <2>3 DEF ParseEnd, ReadOn, OpenStates, AwaitStates, BusyStates
    <3>2. phaseBar' = phaseBar
      BY <2>1, <3>1, PhaseMoves, PhaseOfState DEF phaseBar
    <3>3. rememberedBar' = rememberedBar /\ UNCHANGED <<prompt, accumulation, posted>>
      BY <2>3 DEF ParseEnd, ReadOn, cache, rememberedBar
    <3> QED BY <3>2, <3>3 DEF Contract!vars
  <2>4. CASE End(t) \/ Interrupt(t)
    BY <2>4, FinishSettles DEF End, Interrupt
  <2> QED BY <1>4, <2>2, <2>3, <2>4 DEF Compute
<1>5. CASE Cancel \/ Close \/ UNCHANGED vars
  BY <1>5 DEF Cancel, Close, vars, task, cache, phaseBar, rememberedBar, Contract!vars
<1> QED BY <1>1, <1>2, <1>3, <1>4, <1>5 DEF Next, Contract!Next, Contract!Work

\* Whatever the network does, the desktop sees a behaviour of the contract:
\* refused tasks say nothing, replays repeat a finished answer of the same key, a
\* stream's events are its answer in order, and nothing follows a final event.
THEOREM ClientImplementsContract == Spec => ContractSpec
<1>1. Inductive /\ [Next]_vars => [Contract!Next]_(Contract!vars)
  BY ContractStep
<1> QED BY <1>1, ContractInit, InductiveInvariant, PTL DEF Spec, ContractSpec, Contract!Spec
-----------------------------------------------------------------------------
(* What is remembered, and what is replayed. *)

\* A task that has not started has posted nothing, and the notice of a stop is
\* posted by the step that ends the stream.
NothingBeforeStart == \A i \in DOMAIN posted : pc[posted[i].task] \notin {"idle", "spawned"}
NoticeEnds == \A t \in Task : Stopped(t) => pc[t] = "done"

Remembered == NothingBeforeStart /\ NoticeEnds /\ CacheGenuine

\* What a step may add to the queue of events.
Added(more) ==
  /\ more \in Seq(Events)
  /\ posted' = posted \o more

LEMMA AddedEvents ==
  ASSUME Inductive, NEW more, Added(more)
  PROVE  /\ posted' \in Seq(Events)
         /\ \A i \in DOMAIN posted : i \in DOMAIN posted' /\ posted'[i] = posted[i]
         /\ \A i \in DOMAIN posted' :
               i \in DOMAIN posted \/ \E j \in DOMAIN more : posted'[i] = more[j]
         /\ \A j \in DOMAIN more : \E i \in DOMAIN posted' : posted'[i] = more[j]
<1>1. posted \in Seq(Events) /\ more \in Seq(Events) /\ posted' = posted \o more
  BY DEF Inductive, TypeOK, Added
<1> HIDE DEF Inductive, Added
<1>2. /\ posted' \in Seq(Events) /\ Len(posted) \in Nat /\ Len(more) \in Nat
      /\ Len(posted') = Len(posted) + Len(more)
      /\ DOMAIN posted = 1..Len(posted) /\ DOMAIN more = 1..Len(more)
      /\ DOMAIN posted' = 1..Len(posted')
      /\ \A i \in 1..(Len(posted) + Len(more)) :
            posted'[i] = IF i <= Len(posted) THEN posted[i] ELSE more[i - Len(posted)]
  BY <1>1, ConcatProperties, LenProperties
<1>3. \A i \in DOMAIN posted' : i \in DOMAIN posted \/ i - Len(posted) \in DOMAIN more
  BY <1>2
<1>4. \A j \in DOMAIN more : j + Len(posted) \in DOMAIN posted' /\ posted'[j + Len(posted)] = more[j]
  BY <1>2
<1> QED BY <1>2, <1>3, <1>4

\* Every step adds the events of one task that has started or starts, each of them
\* its final one, a replayed text, the content of a chunk it has just accumulated,
\* or the notice of a stop that ends it.
Adding(t, more) ==
  /\ Added(more)
  /\ \A i \in DOMAIN more :
        /\ more[i].task = t
        /\ \/ more[i].text = <<>>
           \/ more[i].text \in Seq(Word) /\ Replay(t) /\ more[i].text = table[CacheKey[prompt[t]]]
           \/ more[i].text \in Seq(Word) /\ pc[t] = "parsing"
              /\ accumulation'[t] = accumulation[t] \o more[i].text
           \/ more[i].text = <<Notice>> /\ pc'[t] = "done" /\ cancelRequested /\ pc[t] = "testing"
  /\ more # <<>> => pc[t] # "idle" /\ pc'[t] \notin {"idle", "spawned"}

LEMMA NoticeIsNoWord == <<Notice>> \notin Seq(Word) /\ <<Notice>> # <<>>
<1>1. SUFFICES ASSUME <<Notice>> \in Seq(Word) PROVE FALSE
  OBVIOUS
<1>2. <<Notice>>[1] \in Word
  BY <1>1, ElementOfSeq
<1> QED BY <1>2, NoticeAssumption

LEMMA AddingOne ==
  ASSUME Inductive, NEW t \in Task, NEW e \in Events, posted' = Append(posted, e)
  PROVE  Added(<<e>>) /\ \A i \in DOMAIN <<e>> : <<e>>[i] = e
<1>1. posted \in Seq(Events)
  BY DEF Inductive, TypeOK
<1>2. posted' = posted \o <<e>>
  BY <1>1, AppendIsConcat
<1>3. <<e>> \in Seq(Events)
  BY SingletonTypes
<1> QED BY <1>2, <1>3 DEF Added

LEMMA StepAdds ==
  ASSUME Inductive, [Next]_vars
  PROVE  posted' = posted \/ \E t \in Task : \E more : Adding(t, more)
<1> USE DEF Inductive
<1>1. CASE Cancel \/ Close \/ UNCHANGED vars
  BY <1>1 DEF Cancel, Close, vars
<1>2. ASSUME NEW t \in Task, NEW p \in Prompt, Submit(t, p)
      PROVE  posted' = posted
  BY <1>2 DEF Submit
<1>3. ASSUME NEW t \in Task, Start(t)
      PROVE  posted' = posted \/ \E more : Adding(t, more)
  <2>1. pc[t] = "spawned"
    BY <1>3, StartsSpawned
  <2>2. CASE Refuse(t)
    <3>1. Added(<<Final(t)>>) /\ \A i \in DOMAIN <<Final(t)>> : <<Final(t)>>[i] = Final(t)
      BY <2>2, AddingOne, EventTypes DEF Refuse
    <3>2. pc'[t] = "done"
      BY <2>2 DEF Refuse, TypeOK
    <3>3. Final(t).task = t /\ Final(t).text = <<>>
      BY DEF Final
    <3>4. Adding(t, <<Final(t)>>)
      BY <2>1, <3>1, <3>2, <3>3 DEF Adding
    <3> QED BY <3>4
  <2>3. CASE Replay(t)
    <3> DEFINE text == table[CacheKey[prompt[t]]]
               more == <<Token(t, text), Final(t)>>
    <3>1. text \in Seq(Word) /\ Token(t, text) \in Events /\ Final(t) \in Events
      BY <2>3, EventTypes DEF Replay, TypeOK
    <3>2. posted' = Append(Append(posted, Token(t, text)), Final(t)) /\ posted \in Seq(Events)
      BY <2>3 DEF Replay, TypeOK
    <3> HIDE DEF text
    <3>3. Added(more)
      BY <3>1, <3>2 DEF Added
    <3>4. pc'[t] = "done"
      BY <2>3 DEF Replay, TypeOK
    <3>5. \A i \in DOMAIN more : more[i] = Token(t, text) \/ more[i] = Final(t)
      OBVIOUS
    <3>6. /\ Final(t).task = t /\ Final(t).text = <<>>
          /\ Token(t, text).task = t /\ Token(t, text).text = text
      BY DEF Final, Token
    <3> HIDE DEF more
    <3>7. Adding(t, more)
      BY <2>1, <2>3, <3>1, <3>3, <3>4, <3>5, <3>6 DEF Adding, text
    <3> QED BY <3>7
  <2>4. CASE Begin(t)
    BY <2>4 DEF Begin
  <2> QED BY <1>3, <2>2, <2>3, <2>4 DEF Start
<1>4. ASSUME NEW t \in Task, Await(t)
      PROVE  posted' = posted \/ \E more : Adding(t, more)
  <2>1. CASE posted' = posted
    BY <2>1
  <2>2. CASE posted' # posted
    <3>1. posted' = Append(posted, Final(t)) /\ pc' = [pc EXCEPT ![t] = "done"] /\ pc[t] = "resolving"
      BY <1>4, <2>2 DEF Await, Resolve, Connect, Write, ReadHeader, ReadSome, Resume
    <3>2. Added(<<Final(t)>>) /\ \A i \in DOMAIN <<Final(t)>> : <<Final(t)>>[i] = Final(t)
      BY <3>1, AddingOne, EventTypes
    <3>3. pc'[t] = "done"
      BY <3>1 DEF TypeOK
    <3>4. Final(t).task = t /\ Final(t).text = <<>>
      BY DEF Final
    <3>5. Adding(t, <<Final(t)>>)
      BY <3>1, <3>2, <3>3, <3>4 DEF Adding
    <3> QED BY <3>5
  <2> QED BY <2>1, <2>2
<1>5. ASSUME NEW t \in Task, Compute(t)
      PROVE  posted' = posted \/ \E more : Adding(t, more)
  <2>1. CASE posted' = posted
    BY <2>1
  <2>2. CASE ParseLine(t) /\ posted' # posted
    <3>1. PICK end \in DOMAIN residual :
            /\ posted' = Append(posted, Token(t, Content(SubSeq(residual, 1, end))))
            /\ accumulation' =
                 [accumulation EXCEPT ![t] = @ \o Content(SubSeq(residual, 1, end))]
      BY <2>2 DEF ParseLine
    <3> DEFINE text == Content(SubSeq(residual, 1, end))
               e == Token(t, text)
    <3>2. text \in Seq(Word)
      BY ContentType
    <3> HIDE DEF text
    <3>3. e \in Events /\ e.task = t /\ e.text = text
      BY <3>2, EventTypes DEF Token
    <3>4. posted' = Append(posted, e) /\ accumulation'[t] = accumulation[t] \o text
      BY <3>1 DEF text, TypeOK
    <3> HIDE DEF e
    <3>5. Added(<<e>>) /\ \A i \in DOMAIN <<e>> : <<e>>[i] = e
      BY <3>3, <3>4, AddingOne
    <3>6. pc[t] = "parsing" /\ pc'[t] = "parsing"
      BY <2>2 DEF ParseLine
    <3>7. Adding(t, <<e>>)
      BY <3>2, <3>3, <3>4, <3>5, <3>6 DEF Adding
    <3> QED BY <3>7
  <2>3. CASE End(t) \/ Interrupt(t)
    <3>1. PICK closing \in {<<>>, <<Token(t, <<Notice>>)>>} :
            /\ pc[t] = "testing" /\ Finish(t, closing)
            /\ closing = <<>> \/ cancelRequested
      BY <2>3 DEF End, Interrupt
    <3> DEFINE more == closing \o <<Final(t)>>
    <3>2. Token(t, <<Notice>>) \in Events /\ Final(t) \in Events
      BY EventTypes
    <3>3. closing \in Seq(Events) /\ <<Final(t)>> \in Seq(Events) /\ posted \in Seq(Events)
      BY <3>2, EmptyTypes, SingletonTypes DEF TypeOK
    <3>4. more \in Seq(Events) /\ posted' = posted \o more
      BY <3>1, <3>3, ConcatProperties, ConcatAssociative DEF Finish
    <3>5. pc'[t] = "done"
      BY <3>1 DEF Finish, TypeOK
    <3>6. \A i \in DOMAIN more :
            more[i] = Final(t) \/ (more[i] = Token(t, <<Notice>>) /\ cancelRequested)
      <4>1. CASE closing = <<>>
        BY <4>1
      <4>2. CASE closing = <<Token(t, <<Notice>>)>> /\ cancelRequested
        BY <4>2
      <4> QED BY <3>1, <4>1, <4>2
    <3>7. /\ Final(t).task = t /\ Final(t).text = <<>>
          /\ Token(t, <<Notice>>).task = t /\ Token(t, <<Notice>>).text = <<Notice>>
      BY DEF Final, Token
    <3> HIDE DEF more
    <3>8. Adding(t, more)
      BY <3>1, <3>4, <3>5, <3>6, <3>7 DEF Adding, Added
    <3> QED BY <3>8
  <2> QED BY <1>5, <2>1, <2>2, <2>3 DEF Compute, ParseEnd, ReadOn
<1> QED BY <1>1, <1>2, <1>3, <1>4, <1>5 DEF Next

\* A step leaves alone the prompt, the text and the end of a task that is done,
\* and it starts no task with events.
LEMMA DoneTasksStay ==
  ASSUME Inductive, [Next]_vars, NEW t \in Task, pc[t] = "done"
  PROVE  pc'[t] = "done" /\ prompt'[t] = prompt[t] /\ accumulation'[t] = accumulation[t]
<1> USE DEF Inductive
<1>1. ASSUME NEW u \in Task, Start(u)
      PROVE  pc[u] = "spawned"
  BY <1>1, StartsSpawned
<1>2. ASSUME NEW u \in Task, Start(u)
      PROVE  /\ prompt' = prompt /\ accumulation' = accumulation
             /\ \A v \in Task : v # u => pc'[v] = pc[v]
  BY <1>2 DEF Start, Refuse, Replay, Begin, TypeOK
<1>3. ASSUME NEW u \in Task, Await(u) \/ Compute(u)
      PROVE  /\ pc[u] # "done" /\ prompt' = prompt
             /\ \A v \in Task : v # u => pc'[v] = pc[v] /\ accumulation'[v] = accumulation[v]
  BY <1>3 DEF Await, Compute, Resolve, Connect, Write, ReadHeader, ReadSome, Resume,
              ParseLine, ParseEnd, End, Interrupt, ReadOn, Finish, TypeOK
<1>4. ASSUME NEW u \in Task, NEW p \in Prompt, Submit(u, p)
      PROVE  /\ pc[u] # "done" /\ accumulation' = accumulation
             /\ \A v \in Task : v # u => pc'[v] = pc[v] /\ prompt'[v] = prompt[v]
  BY <1>4 DEF Submit, TypeOK
<1>5. CASE Cancel \/ Close \/ UNCHANGED vars
  BY <1>5 DEF Cancel, Close, vars, task
<1> QED BY <1>1, <1>2, <1>3, <1>4, <1>5 DEF Next

\* Tasks only leave "idle" and "spawned", and what a task has said only grows.
LEMMA TasksAdvance ==
  ASSUME Inductive, [Next]_vars, NEW t \in Task
  PROVE  /\ pc[t] \notin {"idle", "spawned"} =>
              pc'[t] \notin {"idle", "spawned"} /\ prompt'[t] = prompt[t]
         /\ accumulation'[t] = <<>> => accumulation[t] = <<>>
<1> USE DEF Inductive
<1>1. ASSUME NEW u \in Task, Start(u)
      PROVE  /\ prompt' = prompt /\ accumulation' = accumulation
             /\ pc'[u] \in {"done", "resolving"} /\ \A v \in Task : v # u => pc'[v] = pc[v]
  BY <1>1 DEF Start, Refuse, Replay, Begin, TypeOK
<1>2. ASSUME NEW u \in Task, Await(u) \/ Compute(u)
      PROVE  /\ prompt' = prompt /\ pc'[u] \notin {"idle", "spawned"}
             /\ \A v \in Task : v # u => pc'[v] = pc[v] /\ accumulation'[v] = accumulation[v]
  BY <1>2 DEF Await, Compute, Resolve, Connect, Write, ReadHeader, ReadSome, Resume,
              ParseLine, ParseEnd, End, Interrupt, ReadOn, Finish, TypeOK
<1>3. ASSUME NEW u \in Task, Await(u) \/ Compute(u)
      PROVE  accumulation'[u] = <<>> => accumulation[u] = <<>>
  <2>1. CASE accumulation' = accumulation
    BY <2>1
  <2>2. CASE accumulation' # accumulation
    <3>1. ParseLine(u)
      BY <1>3, <2>2 DEF Await, Compute, Resolve, Connect, Write, ReadHeader, ReadSome,
                        ParseEnd, End, Interrupt, ReadOn, Finish
    <3>2. PICK end \in DOMAIN residual :
            accumulation' = [accumulation EXCEPT ![u] = @ \o Content(SubSeq(residual, 1, end))]
      BY <2>2, <3>1 DEF ParseLine
    <3> DEFINE text == Content(SubSeq(residual, 1, end))
    <3>3. text \in Seq(Word) /\ accumulation[u] \in Seq(Word)
      BY ContentType DEF TypeOK
    <3>4. accumulation'[u] = accumulation[u] \o text
      BY <3>2 DEF TypeOK
    <3> HIDE DEF text
    <3>5. accumulation[u] \o text = <<>> => accumulation[u] = <<>>
      BY <3>3, ConcatProperties, EmptySeq, LenProperties
    <3> QED BY <3>4, <3>5
  <2> QED BY <2>1, <2>2
<1>4. ASSUME NEW u \in Task, NEW p \in Prompt, Submit(u, p)
      PROVE  /\ accumulation' = accumulation /\ pc[u] = "idle"
             /\ \A v \in Task : v # u => pc'[v] = pc[v] /\ prompt'[v] = prompt[v]
  BY <1>4 DEF Submit, TypeOK
<1>5. CASE Cancel \/ Close \/ UNCHANGED vars
  BY <1>5 DEF Cancel, Close, vars, task
<1>6. CASE \E u \in Task : Start(u)
  BY <1>1, <1>6
<1>7. CASE \E u \in Task : Await(u) \/ Compute(u)
  BY <1>2, <1>3, <1>7
<1>8. CASE \E u \in Task, p \in Prompt : Submit(u, p)
  BY <1>4, <1>8
<1> QED BY <1>5, <1>6, <1>7, <1>8 DEF Next

LEMMA PostedTasks ==
  ASSUME Inductive
  PROVE  \A i \in DOMAIN posted : posted[i].task \in Task
<1>1. posted \in Seq(Events)
  BY DEF Inductive, TypeOK
<1>2. \A i \in DOMAIN posted : posted[i] \in Events
  BY <1>1, LenProperties, ElementOfSeq
<1> QED BY <1>2 DEF Events

LEMMA QuietStep ==
  ASSUME Inductive, NothingBeforeStart, NoticeEnds, [Next]_vars
  PROVE  NothingBeforeStart' /\ NoticeEnds'
<1>1. CASE posted' = posted
  <2>1. \A i \in DOMAIN posted : posted[i].task \in Task
    BY PostedTasks
  <2>2. NothingBeforeStart'
    BY <1>1, <2>1, TasksAdvance DEF NothingBeforeStart
  <2>3. ASSUME NEW t \in Task, Stopped(t)' PROVE pc'[t] = "done"
    BY <1>1, <2>3, DoneTasksStay DEF NoticeEnds, Stopped
  <2> QED BY <2>2, <2>3 DEF NoticeEnds
<1>2. ASSUME NEW t \in Task, NEW more, Adding(t, more)
      PROVE  NothingBeforeStart' /\ NoticeEnds'
  <2>1. /\ posted' \in Seq(Events)
        /\ \A i \in DOMAIN posted : i \in DOMAIN posted' /\ posted'[i] = posted[i]
        /\ \A i \in DOMAIN posted' :
              i \in DOMAIN posted \/ \E j \in DOMAIN more : posted'[i] = more[j]
    BY <1>2, AddedEvents DEF Adding
  <2>2. \A i \in DOMAIN posted : posted[i].task \in Task
    BY PostedTasks
  <2>3. ASSUME NEW i \in DOMAIN posted' PROVE pc'[posted'[i].task] \notin {"idle", "spawned"}
    <3>1. CASE i \in DOMAIN posted
      BY <2>1, <2>2, <3>1, TasksAdvance DEF NothingBeforeStart
    <3>2. CASE \E j \in DOMAIN more : posted'[i] = more[j]
      <4>1. PICK j \in DOMAIN more : posted'[i] = more[j]
        BY <3>2
      <4>2. DOMAIN <<>> = {}
        OBVIOUS
      <4>3. more # <<>>
        BY <4>2
      <4>4. posted'[i].task = t
        BY <1>2, <4>1 DEF Adding
      <4> QED BY <1>2, <4>3, <4>4 DEF Adding
    <3> QED BY <2>1, <3>1, <3>2
  <2>4. ASSUME NEW u \in Task, Stopped(u)' PROVE pc'[u] = "done"
    <3>1. PICK i \in DOMAIN posted' : posted'[i].task = u /\ posted'[i].text = <<Notice>>
      BY <2>4 DEF Stopped
    <3>2. CASE i \in DOMAIN posted
      <4>1. Stopped(u)
        BY <2>1, <3>1, <3>2 DEF Stopped
      <4> QED BY <4>1, DoneTasksStay DEF NoticeEnds
    <3>3. CASE \E j \in DOMAIN more : posted'[i] = more[j]
      <4>1. PICK j \in DOMAIN more : more[j].task = u /\ more[j].text = <<Notice>>
        BY <3>1, <3>3
      <4> DEFINE e == more[j]
      <4>2. /\ e.task = t
            /\ e.text = <<>> \/ e.text \in Seq(Word) \/ pc'[t] = "done"
        BY <1>2 DEF Adding
      <4> HIDE DEF e
      <4>3. u = t /\ pc'[t] = "done"
        BY <4>1, <4>2, NoticeIsNoWord DEF e
      <4> QED BY <4>3
    <3> QED BY <2>1, <3>2, <3>3
  <2> QED BY <2>3, <2>4 DEF NothingBeforeStart, NoticeEnds
<1> QED BY <1>1, <1>2, StepAdds

\* A task that has finished stays finished with the same text.
LEMMA FinishedStays ==
  ASSUME Inductive, [Next]_vars, NEW t \in Task, NEW text, Finished(t, text)
  PROVE  Finished(t, text)' /\ prompt'[t] = prompt[t]
<1>1. pc'[t] = "done" /\ prompt'[t] = prompt[t] /\ accumulation'[t] = text
  BY DoneTasksStay DEF Finished
<1>2. ~Stopped(t)'
  <2>1. CASE posted' = posted
    BY <2>1 DEF Finished, Stopped
  <2>2. ASSUME NEW u \in Task, NEW more, Adding(u, more)
        PROVE  ~Stopped(t)'
    <3>1. SUFFICES ASSUME NEW i \in DOMAIN posted',
                          posted'[i].task = t, posted'[i].text = <<Notice>>
                   PROVE  FALSE
      BY DEF Stopped
    <3>2. i \in DOMAIN posted \/ \E j \in DOMAIN more : posted'[i] = more[j]
      BY <2>2, AddedEvents DEF Adding
    <3>3. i \notin DOMAIN posted
      <4>1. i \in DOMAIN posted => posted'[i] = posted[i]
        BY <2>2, AddedEvents DEF Adding
      <4> QED BY <3>1, <4>1 DEF Finished, Stopped
    <3>4. PICK j \in DOMAIN more : more[j].task = t /\ more[j].text = <<Notice>>
      BY <3>1, <3>2, <3>3
    <3> DEFINE e == more[j]
    <3>5. /\ e.task = u
          /\ e.text = <<>> \/ e.text \in Seq(Word) \/ pc[u] = "testing"
      BY <2>2 DEF Adding
    <3> HIDE DEF e
    <3>6. u = t /\ pc[t] = "testing"
      BY <3>4, <3>5, NoticeIsNoWord DEF e
    <3> QED BY <3>6 DEF Finished
  <2> QED BY <2>1, <2>2, StepAdds
<1> QED BY <1>1, <1>2 DEF Finished

LEMMA GenuineStep ==
  ASSUME Inductive, Remembered, [Next]_vars
  PROVE  CacheGenuine'
<1> USE DEF Inductive
<1>1. ASSUME NEW t \in Task, NEW text, Finished(t, text),
             NEW k, CacheKey[prompt[t]] = k
      PROVE  CacheKey[prompt'[t]] = k /\ Finished(t, text)'
  BY <1>1, FinishedStays
<1>2. CASE UNCHANGED cache
  <2>1. SUFFICES ASSUME NEW k \in DOMAIN table
                 PROVE  \E t \in Task : CacheKey[prompt'[t]] = k /\ Finished(t, table[k])'
    BY <1>2 DEF cache, CacheGenuine, Remembered
  <2>2. PICK t \in Task : CacheKey[prompt[t]] = k /\ Finished(t, table[k])
    BY DEF CacheGenuine, Remembered
  <2>3. table' = table
    BY <1>2 DEF cache
  <2>4. CacheKey[prompt'[t]] = k /\ Finished(t, table[k])'
    BY <2>2, <2>3, FinishedStays DEF Finished
  <2> QED BY <2>4
<1>3. ASSUME NEW u \in Task, NEW closing, pc[u] = "testing", Finish(u, closing),
             closing = <<>> \/ cancelRequested, ~UNCHANGED cache
      PROVE  CacheGenuine'
  <2> DEFINE key == CacheKey[prompt[u]]
  <2>1. /\ accumulation[u] # <<>> /\ closing = <<>> /\ UpdateCache(key, accumulation[u])
        /\ pc' = [pc EXCEPT ![u] = "done"] /\ prompt' = prompt /\ accumulation' = accumulation
        /\ posted' = (posted \o closing) \o <<Final(u)>>
    BY <1>3 DEF Finish
  <2>2. Finished(u, accumulation[u])'
    <3>1. posted \in Seq(Events) /\ Final(u) \in Events
      BY EventTypes DEF TypeOK
    <3>2. posted' = Append(posted, Final(u))
      BY <2>1, <3>1, AppendIsConcat, ConcatEmptySeq
    <3>3. Added(<<Final(u)>>) /\ \A i \in DOMAIN <<Final(u)>> : <<Final(u)>>[i] = Final(u)
      BY <3>1, <3>2, AddingOne
    <3>4. ~Stopped(u)
      BY <1>3 DEF Remembered, NoticeEnds
    <3>5. ~Stopped(u)'
      <4>1. \A i \in DOMAIN posted' : \/ i \in DOMAIN posted /\ posted'[i] = posted[i]
                                      \/ posted'[i] = Final(u)
        BY <3>3, AddedEvents
      <4>2. Final(u).text # <<Notice>>
        BY NoticeIsNoWord DEF Final
      <4> QED BY <3>4, <4>1, <4>2 DEF Stopped
    <3>6. pc'[u] = "done"
      BY <2>1 DEF TypeOK
    <3> QED BY <2>1, <3>5, <3>6 DEF Finished
  <2>3. ASSUME NEW k \in DOMAIN table'
        PROVE  table'[k] # <<>> /\ \E t \in Task : CacheKey[prompt'[t]] = k /\ Finished(t, table[k])'
    <3>1. CASE k = key
      <4>1. table'[k] = accumulation[u]
        BY <2>1, <3>1 DEF UpdateCache
      <4>2. Finished(u, table[k])'
        BY <2>1, <2>2, <4>1 DEF Finished
      <4> QED BY <2>1, <3>1, <4>1, <4>2
    <3>2. CASE k # key
      <4>1. k \in DOMAIN table /\ table'[k] = table[k]
        BY <2>1, <3>2 DEF UpdateCache
      <4>2. PICK t \in Task : CacheKey[prompt[t]] = k /\ Finished(t, table[k])
        BY <4>1 DEF CacheGenuine, Remembered
      <4>3. pc'[t] = "done" /\ prompt'[t] = prompt[t] /\ accumulation'[t] = table'[k] /\ ~Stopped(t)'
        BY <4>1, <4>2, FinishedStays DEF Finished
      <4>4. table'[k] # <<>>
        BY <4>1 DEF CacheGenuine, Remembered
      <4> QED BY <4>2, <4>3, <4>4 DEF Finished
    <3> QED BY <3>1, <3>2
  <2> QED BY <2>3 DEF CacheGenuine
<1>4. \/ UNCHANGED cache
      \/ \E t \in Task : \E closing : /\ pc[t] = "testing" /\ Finish(t, closing)
                                      /\ closing = <<>> \/ cancelRequested
  BY DEF Next, Cancel, Close, Submit, Start, Refuse, Replay, Begin, Await, Compute, Resolve,
         Connect, Write, ReadHeader, ReadSome, ParseLine, ParseEnd, End, Interrupt, ReadOn,
         vars
<1> QED BY <1>2, <1>3, <1>4

\* Requests that differ get different keys.
KeysTellRequestsApart == \A p, q \in Prompt : CacheKey[p] = CacheKey[q] => p = q

\* A replayed text belongs to a finished stream of the same request.
LEMMA ReplayedIsFinished ==
  ASSUME KeysTellRequestsApart, Inductive, CacheGenuine, NEW t \in Task, Replay(t)
  PROVE  \E u \in Task : prompt[u] = prompt[t] /\ Finished(u, table[CacheKey[prompt[t]]])
<1> DEFINE k == CacheKey[prompt[t]]
<1>1. k \in DOMAIN table
  BY DEF Replay
<1>2. PICK u \in Task : CacheKey[prompt[u]] = k /\ Finished(u, table[k])
  BY <1>1 DEF CacheGenuine
<1>3. pc[t] # "idle" /\ pc[u] # "idle"
  <2>1. pc[t] = "spawned"
    BY StartsSpawned DEF Start
  <2> QED BY <1>2, <2>1 DEF Finished
<1>4. prompt[t] \in Prompt /\ prompt[u] \in Prompt
  BY <1>3 DEF Inductive, Prompted
<1>5. prompt[u] = prompt[t]
  BY <1>2, <1>4 DEF KeysTellRequestsApart
<1> QED BY <1>2, <1>5

LEMMA ReplayStep ==
  ASSUME KeysTellRequestsApart, Inductive, Remembered, ReplayAnswersSameRequest, [Next]_vars
  PROVE  ReplayAnswersSameRequest'
<1>1. SUFFICES ASSUME NEW i \in DOMAIN posted',
                      accumulation'[posted'[i].task] = <<>>,
                      posted'[i].text \notin {<<>>, <<Notice>>}
               PROVE  \E u \in Task : /\ prompt'[u] = prompt'[posted'[i].task]
                                    /\ pc'[u] = "done" /\ ~Stopped(u)'
                                    /\ accumulation'[u] = posted'[i].text
  BY DEF ReplayAnswersSameRequest, Finished
<1> DEFINE e == posted'[i]
<1>2. CASE i \in DOMAIN posted /\ posted'[i] = posted[i]
  <2>1. e.task \in Task /\ pc[e.task] \notin {"idle", "spawned"}
    BY <1>2, PostedTasks DEF Remembered, NothingBeforeStart
  <2>2. accumulation[e.task] = <<>> /\ prompt'[e.task] = prompt[e.task]
    BY <1>1, <2>1, TasksAdvance
  <2>3. PICK u \in Task : prompt[u] = prompt[e.task] /\ Finished(u, e.text)
    BY <1>1, <1>2, <2>2 DEF ReplayAnswersSameRequest
  <2> HIDE DEF e
  <2>4. pc[u] = "done" /\ accumulation[u] = e.text
    BY <2>3 DEF Finished
  <2>5. pc'[u] = "done" /\ prompt'[u] = prompt[u] /\ accumulation'[u] = e.text
    BY <2>4, DoneTasksStay
  <2>6. ~Stopped(u)'
    BY <2>3, FinishedStays DEF Finished
  <2> QED BY <2>2, <2>3, <2>5, <2>6 DEF e
<1>3. ASSUME NEW t \in Task, NEW more, Adding(t, more), NEW j \in DOMAIN more, e = more[j]
      PROVE  \E u \in Task : /\ prompt'[u] = prompt'[e.task]
                           /\ pc'[u] = "done" /\ ~Stopped(u)' /\ accumulation'[u] = e.text
  <2>1. /\ e.task = t
        /\ \/ e.text \in {<<>>, <<Notice>>}
           \/ Replay(t) /\ e.text = table[CacheKey[prompt[t]]]
           \/ e.text \in Seq(Word) /\ accumulation'[t] = accumulation[t] \o e.text
    <3> DEFINE d == more[j]
    <3>1. /\ d.task = t
          /\ \/ d.text \in {<<>>, <<Notice>>}
             \/ Replay(t) /\ d.text = table[CacheKey[prompt[t]]]
             \/ d.text \in Seq(Word) /\ accumulation'[t] = accumulation[t] \o d.text
      BY <1>3 DEF Adding
    <3> HIDE DEF d, e
    <3> QED BY <1>3, <3>1 DEF d
  <2>2. CASE Replay(t) /\ e.text = table[CacheKey[prompt[t]]]
    <3>1. PICK u \in Task : prompt[u] = prompt[t] /\ Finished(u, e.text)
      BY <2>2, ReplayedIsFinished DEF Remembered
    <3>2. pc[u] = "done" /\ accumulation[u] = e.text
      BY <3>1 DEF Finished
    <3>3. pc'[u] = "done" /\ prompt'[u] = prompt[u] /\ accumulation'[u] = e.text
      BY <3>2, DoneTasksStay
    <3>4. ~Stopped(u)'
      BY <3>1, FinishedStays DEF Finished
    <3>5. prompt' = prompt
      BY <2>2 DEF Replay
    <3> QED BY <2>1, <3>1, <3>3, <3>4, <3>5
  <2>3. CASE e.text \in Seq(Word) /\ accumulation'[t] = accumulation[t] \o e.text
    <3>1. accumulation[t] \in Seq(Word)
      BY DEF Inductive, TypeOK
    <3> DEFINE text == e.text
    <3>2. text \in Seq(Word) /\ text # <<>> /\ accumulation[t] \o text = <<>>
      BY <1>1, <2>1, <2>3
    <3> HIDE DEF text
    <3>3. FALSE
      BY <3>1, <3>2, ConcatProperties, EmptySeq, LenProperties
    <3> QED BY <3>3
  <2> QED BY <1>1, <2>1, <2>2, <2>3
<1>4. ASSUME NEW t \in Task, NEW more, Adding(t, more)
      PROVE  \/ i \in DOMAIN posted /\ posted'[i] = posted[i]
             \/ \E j \in DOMAIN more : e = more[j]
  BY <1>4, AddedEvents DEF Adding
<1>5. posted' = posted => i \in DOMAIN posted /\ posted'[i] = posted[i]
  OBVIOUS
<1> QED BY <1>2, <1>3, <1>4, <1>5, StepAdds

LEMMA RememberedInit == Init => Remembered /\ ReplayAnswersSameRequest
<1> SUFFICES ASSUME Init PROVE Remembered /\ ReplayAnswersSameRequest
  OBVIOUS
<1>1. DOMAIN posted = {} /\ DOMAIN table = {}
  BY DEF Init
<1> QED BY <1>1 DEF Remembered, NothingBeforeStart, NoticeEnds, Stopped, CacheGenuine,
                    ReplayAnswersSameRequest

\* The cache never holds the text of a stopped stream, nor that of two streams:
\* each entry is the whole text of one finished stream of a request with its key.
THEOREM CacheStaysGenuine == Spec => []CacheGenuine
<1>1. Inductive /\ Remembered /\ [Next]_vars => Remembered'
  BY QuietStep, GenuineStep DEF Remembered
<1>2. Init => Remembered
  BY RememberedInit
<1>3. Remembered => CacheGenuine
  BY DEF Remembered
<1> QED BY <1>1, <1>2, <1>3, InductiveInvariant, PTL DEF Spec

\* As long as requests that differ have different keys, an answer that is replayed
\* was given, whole and unstopped, to the very request it now answers.
THEOREM ReplaysAnswerTheirRequest ==
  KeysTellRequestsApart => (Spec => []ReplayAnswersSameRequest)
<1> SUFFICES ASSUME KeysTellRequestsApart PROVE Spec => []ReplayAnswersSameRequest
  OBVIOUS
<1> DEFINE Both == Remembered /\ ReplayAnswersSameRequest
<1>1. Inductive /\ Both /\ [Next]_vars => Both'
  BY QuietStep, GenuineStep, ReplayStep DEF Remembered
<1>2. Init => Both
  BY RememberedInit
<1>3. Both => ReplayAnswersSameRequest
  OBVIOUS
<1> HIDE DEF Both
<1> QED BY <1>1, <1>2, <1>3, InductiveInvariant, PTL DEF Spec
-----------------------------------------------------------------------------
(* The bytes of an answer, line by line. *)

\* A body is texts and newlines in turn, each newline that of the text before it.
Alternating(bytes) ==
  \A i \in 1..Len(bytes) :
     /\ i % 2 = 1 => ~bytes[i].newline
     /\ i % 2 = 0 => bytes[i].newline /\ bytes[i].line = bytes[i - 1].line

\* Nothing of an answer has reached task t.
Untouched(t) ==
  /\ body[t] = <<>> /\ received[t] = 0
  /\ accumulation[t] = <<>> /\ ~complete[t]

\* Task t has parsed the first k bytes of its answer, and the accumulator holds the rest
\* of what it has read.
ParsedUpTo(t, k) ==
  /\ k = 0 \/ body[t][k].newline
  /\ residual = SubSeq(body[t], k + 1, received[t])
  /\ accumulation[t] = WordsOf(body[t], k)

\* Where a task is with its answer at each point of its program.
Reading(t) ==
  /\ Alternating(body[t])
  /\ pc[t] \in {"idle", "spawned", "resolving", "connecting", "writing", "header"} => Untouched(t)
  /\ pc[t] \in {"resolving", "connecting", "writing", "header"} => residual = <<>>
  /\ pc[t] \in {"testing", "reading", "parsing"} =>
       /\ received[t] <= Len(body[t])
       /\ complete[t] => received[t] = Len(body[t])
       /\ pc[t] # "parsing" => ~HasLine(residual)
       /\ \E k \in 0..received[t] : ParsedUpTo(t, k)
  /\ pc[t] = "done" /\ complete[t] => accumulation[t] = WordsOf(body[t], Len(body[t]))

AllReading == \A t \in Task : Reading(t)

LEMMA BytesAlternate ==
  ASSUME NEW a \in Answer
  PROVE  Alternating(Bytes(a))
<1> DEFINE n == IF a.terminated \/ a.lines = <<>> THEN 2 * Len(a.lines)
                                                  ELSE 2 * Len(a.lines) - 1
           b == [i \in 1..n |-> [line |-> a.lines[(i + 1) \div 2], newline |-> i % 2 = 0]]
<1>1. a.lines \in Seq(Line) /\ a.terminated \in BOOLEAN
  BY AnswerAssumption
<1>2. Len(a.lines) \in Nat /\ (a.lines # <<>> => Len(a.lines) > 0)
  BY <1>1
<1>3. n \in Nat
  BY <1>2
<1> HIDE DEF n
<1>4. Len(b) = n
  BY <1>3
<1>5. ASSUME NEW i \in 1..n
      PROVE  /\ i % 2 = 1 => ~b[i].newline
             /\ i % 2 = 0 => b[i].newline /\ b[i].line = b[i - 1].line
  <2>1. \A k \in 1..n : b[k].newline = (k % 2 = 0) /\ b[k].line = a.lines[(k + 1) \div 2]
    OBVIOUS
  <2>2. i % 2 = 0 => i - 1 \in 1..n /\ (i + 1) \div 2 = ((i - 1) + 1) \div 2
    BY <1>3
  <2>3. i % 2 = 1 => ~(i % 2 = 0)
    OBVIOUS
  <2> HIDE DEF b
  <2> QED BY <2>1, <2>2, <2>3
<1> QED BY <1>4, <1>5 DEF Alternating, Bytes, n

\* No more words are complete if no newline was added.
LEMMA WordsWithoutNewline ==
  ASSUME NEW bytes, NEW m \in Nat, NEW n \in Nat, m <= n,
         \A i \in (m + 1)..n : ~bytes[i].newline
  PROVE  WordsOf(bytes, n) = WordsOf(bytes, m)
<1> DEFINE Ends(k) == {i \in 1..k : bytes[i].newline /\ bytes[i].line \in Word}
           Words(E) == [k \in 1..Cardinality(E) |->
                          bytes[CHOOSE i \in E : Cardinality({j \in E : j <= i}) = k].line]
<1>1. Ends(n) = Ends(m)
  <2>1. \A i \in 1..n : i \in 1..m \/ i \in (m + 1)..n
    OBVIOUS
  <2> QED BY <2>1
<1>2. WordsOf(bytes, n) = Words(Ends(n)) /\ WordsOf(bytes, m) = Words(Ends(m))
  BY DEF WordsOf
<1> HIDE DEF Ends, Words
<1> QED BY <1>1, <1>2

\* A newline completes the word of its line and moves no other.
LEMMA WordsAfterNewline ==
  ASSUME NEW bytes, NEW n \in Nat, bytes[n + 1].newline
  PROVE  /\ bytes[n + 1].line \in Word =>
              WordsOf(bytes, n + 1) = Append(WordsOf(bytes, n), bytes[n + 1].line)
         /\ bytes[n + 1].line \notin Word => WordsOf(bytes, n + 1) = WordsOf(bytes, n)
<1> DEFINE Ends(k) == {i \in 1..k : bytes[i].newline /\ bytes[i].line \in Word}
           Rank(i, k) == Cardinality({j \in Ends(k) : j <= i})
           At(r, k) == CHOOSE i \in Ends(k) : Rank(i, k) = r
           Words(E) == [k \in 1..Cardinality(E) |->
                          bytes[CHOOSE i \in E : Cardinality({j \in E : j <= i}) = k].line]
<1>w. \A k : WordsOf(bytes, k) = [r \in 1..Cardinality(Ends(k)) |-> bytes[At(r, k)].line]
  BY DEF WordsOf
<1>1. CASE bytes[n + 1].line \notin Word
  <2>1. Ends(n + 1) = Ends(n)
    BY <1>1
  <2>2. WordsOf(bytes, n + 1) = Words(Ends(n + 1)) /\ WordsOf(bytes, n) = Words(Ends(n))
    BY DEF WordsOf
  <2> HIDE DEF Ends, Words
  <2> QED BY <1>1, <2>1, <2>2
<1>2. CASE bytes[n + 1].line \in Word
  <2>1. Ends(n + 1) = Ends(n) \cup {n + 1} /\ n + 1 \notin Ends(n)
    BY <1>2
  <2>f. IsFiniteSet(Ends(n)) /\ \A i : IsFiniteSet({j \in Ends(n) : j <= i})
    <3>1. IsFiniteSet(1..n)
      BY FS_Interval
    <3> QED BY <3>1, FS_Subset
  <2>2. PICK c \in Nat : c = Cardinality(Ends(n))
    BY <2>f, FS_CardinalityType
  <2>3. Cardinality(Ends(n + 1)) = c + 1
    BY <2>1, <2>2, <2>f, FS_AddElement
  <2>4. \A i \in Ends(n) : Rank(i, n + 1) = Rank(i, n)
    <3> TAKE i \in Ends(n)
    <3>1. i \in 1..n
      OBVIOUS
    <3>2. {j \in Ends(n + 1) : j <= i} = {j \in Ends(n) : j <= i}
      BY <2>1, <3>1
    <3> QED BY <3>2
  <2>5. Rank(n + 1, n + 1) = c + 1
    <3>1. {j \in Ends(n + 1) : j <= n + 1} = Ends(n + 1)
      OBVIOUS
    <3> QED BY <2>3, <3>1
  <2>6. \A i \in Ends(n) : Rank(i, n) \in Nat /\ Rank(i, n) <= c
    <3> TAKE i \in Ends(n)
    <3>1. {j \in Ends(n) : j <= i} \in SUBSET Ends(n)
      OBVIOUS
    <3> QED BY <2>2, <2>f, <3>1, FS_Subset, FS_CardinalityType
  <2> HIDE DEF Ends, Rank
  <2>7. ASSUME NEW r \in 1..c
        PROVE  At(r, n + 1) = At(r, n)
    <3>1. \A i : i \in Ends(n + 1) /\ Rank(i, n + 1) = r <=> i \in Ends(n) /\ Rank(i, n) = r
      BY <2>1, <2>2, <2>4, <2>5
    <3>2. (CHOOSE i : i \in Ends(n + 1) /\ Rank(i, n + 1) = r)
            = (CHOOSE i : i \in Ends(n) /\ Rank(i, n) = r)
      BY <3>1, Zenon
    <3> QED BY <3>2
  <2>8. At(c + 1, n + 1) = n + 1
    <3>1. \A i \in Ends(n + 1) : Rank(i, n + 1) = c + 1 <=> i = n + 1
      BY <2>1, <2>4, <2>5, <2>6
    <3> QED BY <2>1, <3>1
  <2> HIDE DEF At
  <2> DEFINE w == bytes[n + 1].line
             S == {bytes[At(r, n)].line : r \in 1..c} \cup {w}
  <2>9. PICK q : q = WordsOf(bytes, n)
    OBVIOUS
  <2>10. q = [r \in 1..c |-> bytes[At(r, n)].line]
    BY <1>w, <2>2, <2>9
  <2>11. q \in Seq(S) /\ Len(q) = c /\ w \in S
    BY <2>10
  <2> HIDE DEF S, w
  <2>12. /\ Append(q, w) \in Seq(S) /\ Len(Append(q, w)) = c + 1
         /\ \A r \in 1..c : Append(q, w)[r] = q[r]
         /\ Append(q, w)[c + 1] = w
    BY <2>11, AppendProperties
  <2>13. Append(q, w) \in [1..(c + 1) -> S]
    BY <2>12, LenProperties
  <2>14. \A r \in 1..(c + 1) : r = c + 1 \/ r \in 1..c
    OBVIOUS
  <2>15. WordsOf(bytes, n + 1) = [r \in 1..(c + 1) |-> bytes[At(r, n + 1)].line]
    BY <1>w, <2>3
  <2>16. \A r \in 1..(c + 1) : bytes[At(r, n + 1)].line = Append(q, w)[r]
    BY <2>7, <2>8, <2>10, <2>12, <2>14 DEF w
  <2>17. WordsOf(bytes, n + 1) = Append(q, w)
    BY <2>13, <2>15, <2>16
  <2> QED BY <1>2, <2>9, <2>17 DEF w
<1> QED BY <1>1, <1>2
\* A task whose own part of the state stays as it is keeps its place in its answer.
LEMMA OtherReads ==
  ASSUME TypeOK, NEW u \in Task, Reading(u),
         /\ pc'[u] = pc[u] /\ body'[u] = body[u] /\ received'[u] = received[u]
         /\ accumulation'[u] = accumulation[u] /\ complete'[u] = complete[u],
         residual' = residual \/ pc[u] \notin OpenStates
  PROVE  Reading(u)'
<1>1. CASE residual' = residual
  BY <1>1 DEF Reading, Untouched, ParsedUpTo, HasLine
<1>2. CASE pc[u] \notin OpenStates
  <2>1. pc[u] \notin {"resolving", "connecting", "writing", "header", "testing", "reading", "parsing"}
    BY <1>2 DEF OpenStates, AwaitStates, BusyStates
  <2> QED BY <2>1 DEF Reading, Untouched
<1> QED BY <1>1, <1>2

\* What a step of task t leaves alone.
LEMMA OthersUntouched ==
  ASSUME Inductive, NEW t \in Task, Start(t) \/ Await(t) \/ Compute(t),
         NEW u \in Task, u # t
  PROVE  /\ pc'[u] = pc[u] /\ body'[u] = body[u] /\ received'[u] = received[u]
         /\ accumulation'[u] = accumulation[u] /\ complete'[u] = complete[u]
         /\ residual' = residual \/ pc[u] \notin OpenStates
<1>1. CASE Start(t)
  <2>1. residual' = residual \/ ~streaming
    BY <1>1 DEF Start, Refuse, Replay, Begin
  <2>2. ~streaming => pc[u] \notin OpenStates
    BY DEF Inductive, StreamOwnership
  <2> QED BY <1>1, <2>1, <2>2 DEF Start, Refuse, Replay, Begin, Inductive, TypeOK
<1>2. CASE Await(t)
  <2>1. pc[t] \in OpenStates
    BY <1>2 DEF Await, Resolve, Connect, Write, ReadHeader, ReadSome, Resume,
                OpenStates, AwaitStates
  <2>2. pc[u] \notin OpenStates
    BY <2>1 DEF Inductive, StreamOwnership
  <2> QED
    BY <1>2, <2>2 DEF Await, Resolve, Connect, Write, ReadHeader, ReadSome, Inductive, TypeOK
<1>3. CASE Compute(t)
  <2>1. pc[t] \in OpenStates
    BY <1>3 DEF Compute, ParseLine, ParseEnd, End, Interrupt, ReadOn, OpenStates, BusyStates
  <2>2. pc[u] \notin OpenStates
    BY <2>1 DEF Inductive, StreamOwnership
  <2> QED
    BY <1>3, <2>2 DEF Compute, ParseLine, ParseEnd, End, Interrupt, ReadOn, Finish,
                      Inductive, TypeOK
<1> QED BY <1>1, <1>2, <1>3

\* Before the first byte nothing has been parsed.
LEMMA NothingParsed ==
  ASSUME NEW bytes
  PROVE  WordsOf(bytes, 0) = <<>>
<1>1. {i \in 1..0 : bytes[i].newline /\ bytes[i].line \in Word} = {} /\ Cardinality({}) = 0
  BY FS_EmptySet
<1>2. DOMAIN WordsOf(bytes, 0) = {}
  BY <1>1 DEF WordsOf
<1>3. WordsOf(bytes, 0) = [i \in {} |-> <<>>]
  BY <1>2 DEF WordsOf
<1> QED BY <1>3

\* From the start of a task to the header of its answer, nothing has been read.
LEMMA ReadingBeforeBody ==
  ASSUME Inductive, NEW t \in Task, Reading(t),
         Start(t) \/ Resolve(t) \/ Connect(t) \/ Write(t)
  PROVE  Reading(t)'
<1> USE DEF Inductive
<1>1. pc[t] \in {"spawned", "resolving", "connecting", "writing"}
  BY StartsSpawned DEF Resolve, Connect, Write, Resume
<1>2. UNCHANGED <<body, received, accumulation, complete>>
  BY DEF Start, Refuse, Replay, Begin, Resolve, Connect, Write
<1>3. pc'[t] \in {"resolving", "connecting", "writing", "header", "done"}
  BY DEF TypeOK, Start, Refuse, Replay, Begin, Resolve, Connect, Write
<1>4. pc'[t] # "done" => residual' = <<>>
  BY <1>1 DEF TypeOK, Reading, Start, Refuse, Replay, Begin, Resolve, Connect, Write, Resume
<1> QED BY <1>1, <1>2, <1>3, <1>4 DEF Reading, Untouched

\* The header brings a body of which nothing has been read.
LEMMA ReadingHeader ==
  ASSUME Inductive, NEW t \in Task, Reading(t), ReadHeader(t)
  PROVE  Reading(t)'
<1> USE DEF Inductive
<1>1. Untouched(t) /\ residual = <<>> /\ residual' = residual
  BY DEF ReadHeader, Resume, Reading
<1>2. /\ pc'[t] = "testing" /\ received'[t] = 0 /\ accumulation'[t] = <<>>
  BY <1>1 DEF TypeOK, ReadHeader, Untouched
<1>3. /\ Alternating(body'[t]) /\ body'[t] \in Seq(Byte)
      /\ complete'[t] => Len(body'[t]) = 0
  <2>1. CASE UNCHANGED <<body, complete>>
    BY <1>1, <2>1 DEF Reading, Untouched, TypeOK
  <2>2. ASSUME NEW a \in Answer, body' = [body EXCEPT ![t] = Bytes(a)],
               NEW ended \in {FALSE, Bytes(a) = <<>>}, complete' = [complete EXCEPT ![t] = ended]
        PROVE  /\ Alternating(body'[t]) /\ body'[t] \in Seq(Byte)
               /\ complete'[t] => Len(body'[t]) = 0
    <3>1. body'[t] = Bytes(a) /\ complete'[t] = ended
      BY <2>2 DEF TypeOK
    <3>2. Len(<<>>) = 0
      OBVIOUS
    <3> QED BY <3>1, <3>2, BytesType, BytesAlternate
  <2> QED BY <2>1, <2>2 DEF ReadHeader
<1>4. ParsedUpTo(t, 0)'
  <2>1. SubSeq(body'[t], 0 + 1, 0) = <<>>
    BY SubSeqEmpty
  <2> QED BY <1>1, <1>2, <2>1, NothingParsed DEF ParsedUpTo
<1>5. ~HasLine(residual)'
  BY <1>1 DEF HasLine
<1>6. Len(body'[t]) \in Nat /\ 0 \in 0..received'[t]
  BY <1>2, <1>3, LenProperties
<1> QED BY <1>2, <1>3, <1>4, <1>5, <1>6 DEF Reading

\* A read adds the next bytes of the task's own body to the accumulator.
LEMMA ReadingMore ==
  ASSUME Inductive, NEW t \in Task, Reading(t), ReadSome(t)
  PROVE  Reading(t)'
<1> USE DEF Inductive
<1>1. PICK n \in 0..(Len(body[t]) - received[t]) :
        /\ received' = [received EXCEPT ![t] = @ + n]
        /\ residual' = residual \o SubSeq(body[t], received[t] + 1, received[t] + n)
        /\ pc' = [pc EXCEPT ![t] = IF n > 0 THEN "parsing" ELSE "testing"]
        /\ complete'[t] => n = Len(body[t]) - received[t]
  <2>1. complete[t] => received[t] = Len(body[t])
    BY DEF ReadSome, Resume, Reading
  <2>2. received[t] \in Nat /\ Len(body[t]) \in Nat
    BY LenProperties DEF TypeOK
  <2>3. PICK n \in 0..(Len(body[t]) - received[t]) :
          /\ received' = [received EXCEPT ![t] = @ + n]
          /\ residual' = residual \o SubSeq(body[t], received[t] + 1, received[t] + n)
          /\ pc' = [pc EXCEPT ![t] = IF n > 0 THEN "parsing" ELSE "testing"]
          /\ \/ \E ended \in {FALSE, n = Len(body[t]) - received[t]} :
                   complete' = [complete EXCEPT ![t] = ended]
             \/ UNCHANGED complete
    BY DEF ReadSome
  <2>4. complete'[t] => n = Len(body[t]) - received[t]
    <3>1. CASE UNCHANGED complete
      BY <2>1, <2>2, <3>1
    <3>2. ASSUME NEW ended \in {FALSE, n = Len(body[t]) - received[t]},
                 complete' = [complete EXCEPT ![t] = ended]
          PROVE  complete'[t] => n = Len(body[t]) - received[t]
      <4>1. complete'[t] = ended
        BY <3>2 DEF TypeOK
      <4> QED BY <4>1
    <3> QED BY <2>3, <3>1, <3>2
  <2> QED BY <2>3, <2>4
<1>2. UNCHANGED <<body, accumulation>>
  BY DEF ReadSome
<1>3. /\ body[t] \in Seq(Byte) /\ received[t] \in Nat /\ Len(body[t]) \in Nat
      /\ received[t] <= Len(body[t]) /\ n \in Nat /\ received[t] + n <= Len(body[t])
  <2>1. received[t] <= Len(body[t])
    BY DEF ReadSome, Resume, Reading
  <2> QED BY <2>1, LenProperties DEF TypeOK
<1>4. PICK k \in 0..received[t] : ParsedUpTo(t, k)
  BY DEF ReadSome, Resume, Reading
<1>5. received'[t] = received[t] + n
  BY <1>1 DEF TypeOK
<1>6. residual' = SubSeq(body[t], k + 1, received[t] + n)
  <2>1. /\ k + 1 \in 1..(Len(body[t]) + 1)
        /\ received[t] \in (k + 1) - 1 .. Len(body[t])
        /\ received[t] + n \in received[t]..Len(body[t])
    BY <1>3
  <2>2. SubSeq(body[t], k + 1, received[t]) \o SubSeq(body[t], received[t] + 1, received[t] + n)
          = SubSeq(body[t], k + 1, received[t] + n)
    BY <1>3, <2>1, ConcatAdjacentSubSeq
  <2> QED BY <1>1, <1>4, <2>2 DEF ParsedUpTo
<1>7. ParsedUpTo(t, k)' /\ k \in 0..received'[t]
  BY <1>2, <1>3, <1>4, <1>5, <1>6 DEF ParsedUpTo
<1>8. pc'[t] = (IF n > 0 THEN "parsing" ELSE "testing")
  BY <1>1 DEF TypeOK
<1>9. pc'[t] # "parsing" => ~HasLine(residual)'
  <2>1. ~HasLine(residual)
    BY DEF ReadSome, Resume, Reading
  <2>2. n = 0 => residual' = residual
    BY <1>3, <1>4, <1>6 DEF ParsedUpTo
  <2> QED BY <1>3, <1>8, <2>1, <2>2 DEF HasLine
<1>10. complete'[t] => received'[t] = Len(body'[t])
  BY <1>1, <1>2, <1>3, <1>5
<1>11. Alternating(body'[t])
  BY <1>2 DEF Reading
<1>12. received'[t] <= Len(body'[t])
  BY <1>2, <1>3, <1>5
<1> QED BY <1>7, <1>8, <1>9, <1>10, <1>11, <1>12 DEF Reading

\* With a line in the accumulator, the line is the next two bytes of the task's own body.
LEMMA NextLine ==
  ASSUME Inductive, NEW t \in Task, Reading(t), pc[t] = "parsing",
         NEW k \in 0..received[t], ParsedUpTo(t, k),
         NEW end \in DOMAIN residual, FirstNewline(residual, end)
  PROVE  /\ end = 2 /\ k + 2 <= received[t] /\ k + 2 \in 1..Len(body[t])
         /\ body[t][k + 2].newline /\ ~body[t][k + 1].newline
         /\ body[t][k + 1].line = body[t][k + 2].line /\ body[t][k + 2].line \in Line
         /\ Len(residual) = received[t] - k
         /\ residual[1] = body[t][k + 1] /\ residual[2] = body[t][k + 2]
<1>1. /\ body[t] \in Seq(Byte) /\ received[t] \in Nat /\ Len(body[t]) \in Nat
      /\ received[t] <= Len(body[t]) /\ Alternating(body[t]) /\ k \in Nat /\ k <= received[t]
  BY LenProperties DEF Inductive, TypeOK, Reading
<1>2. residual = SubSeq(body[t], k + 1, received[t])
  BY DEF ParsedUpTo
<1>3. \A i \in k + 1 .. received[t] : body[t][i] \in Byte
  BY <1>1, ElementOfSeq
<1>4. /\ residual \in Seq(Byte) /\ Len(residual) = received[t] - k
      /\ \A i \in 1..(received[t] - k) : residual[i] = body[t][k + i]
  <2>1. k + 1 \in Int /\ received[t] \in Int /\ received[t] - (k + 1) + 1 = received[t] - k
    BY <1>1
  <2>2. /\ SubSeq(body[t], k + 1, received[t]) \in Seq(Byte)
        /\ Len(SubSeq(body[t], k + 1, received[t]))
             = IF k + 1 <= received[t] THEN received[t] - (k + 1) + 1 ELSE 0
        /\ \A i \in 1..(received[t] - (k + 1) + 1) :
              SubSeq(body[t], k + 1, received[t])[i] = body[t][k + 1 + i - 1]
    BY <1>3, <2>1, SubSeqProperties
  <2>3. \A i \in 1..(received[t] - k) : k + 1 + i - 1 = k + i
    BY <1>1
  <2> QED BY <1>1, <1>2, <2>1, <2>2, <2>3
<1>5. end \in 1..(received[t] - k) /\ body[t][k + end].newline
      /\ \A i \in 1..(end - 1) : ~body[t][k + i].newline
  <2>1. end \in 1..(received[t] - k)
    BY <1>1, <1>4, LenProperties
  <2>2. \A i \in 1..(end - 1) : i \in 1..(received[t] - k)
    BY <1>1, <2>1
  <2> QED BY <1>4, <2>1, <2>2 DEF FirstNewline
<1>6. k % 2 = 0
  <2>1. k # 0 => body[t][k].newline
    BY DEF ParsedUpTo
  <2>2. k % 2 = 0 \/ k % 2 = 1
    BY <1>1
  <2>3. 0 % 2 = 0
    OBVIOUS
  <2>4. k # 0 => k \in 1..Len(body[t])
    BY <1>1
  <2>5. \A i \in 1..Len(body[t]) : i % 2 = 1 => ~body[t][i].newline
    BY <1>1 DEF Alternating
  <2> QED BY <2>1, <2>2, <2>3, <2>4, <2>5
<1>7. k + 1 \in 1..Len(body[t]) /\ (k + 1) % 2 = 1 /\ ~body[t][k + 1].newline
  <2>1. k + 1 \in 1..Len(body[t]) /\ (k + 1) % 2 = 1
    <3>1. k + 1 \in 1..Len(body[t])
      BY <1>1, <1>5
    <3>2. (k + 1) % 2 = 1
      BY <1>1, <1>6
    <3> QED BY <3>1, <3>2
  <2> QED BY <1>1, <2>1 DEF Alternating
<1>8. end # 1
  BY <1>5, <1>7
<1>9. k + 2 \in 1..Len(body[t]) /\ k + 2 <= received[t] /\ (k + 2) % 2 = 0
  BY <1>1, <1>5, <1>6, <1>8
<1>10. body[t][k + 2].newline /\ body[t][k + 2].line = body[t][k + 1].line
  <2>1. (k + 2) - 1 = k + 1
    BY <1>1
  <2> QED BY <1>1, <1>9, <2>1 DEF Alternating
<1>11. end = 2
  <2>1. end > 2 => 2 \in 1..(end - 1)
    BY <1>5
  <2> QED BY <1>5, <1>8, <1>10, <2>1
<1>12. body[t][k + 2].line \in Line
  <2>1. body[t][k + 2] \in Byte
    BY <1>1, <1>9, ElementOfSeq
  <2> QED BY <2>1 DEF Byte
<1>13. 1 \in 1..(received[t] - k) /\ 2 \in 1..(received[t] - k)
  BY <1>1, <1>9
<1> QED BY <1>4, <1>7, <1>9, <1>10, <1>11, <1>12, <1>13

\* A turn of the parser consumes the next line and says its word, if it has one.
LEMMA ReadingLine ==
  ASSUME Inductive, NEW t \in Task, Reading(t), ParseLine(t)
  PROVE  Reading(t)'
<1> USE DEF Inductive
<1>1. PICK k \in 0..received[t] : ParsedUpTo(t, k)
  BY DEF ParseLine, Reading
<1>2. PICK end \in DOMAIN residual :
        /\ FirstNewline(residual, end)
        /\ IF ParsesAsChunk(SubSeq(residual, 1, end))
             THEN accumulation' = [accumulation EXCEPT ![t] = @ \o Content(SubSeq(residual, 1, end))]
             ELSE UNCHANGED accumulation
        /\ residual' = SubSeq(residual, end + 1, Len(residual))
  BY DEF ParseLine
<1>3. /\ end = 2 /\ k + 2 <= received[t] /\ k + 2 \in 1..Len(body[t])
      /\ body[t][k + 2].newline /\ ~body[t][k + 1].newline
      /\ body[t][k + 1].line = body[t][k + 2].line /\ body[t][k + 2].line \in Line
      /\ Len(residual) = received[t] - k
      /\ residual[1] = body[t][k + 1] /\ residual[2] = body[t][k + 2]
  BY <1>1, <1>2, NextLine DEF ParseLine
<1> DEFINE w == body[t][k + 2].line
<1>4. UNCHANGED <<body, received, complete, pc>>
  BY DEF ParseLine
<1>5. /\ body[t] \in Seq(Byte) /\ received[t] \in Nat /\ residual \in Seq(Byte) /\ k \in Nat
      /\ accumulation[t] \in Seq(Word) /\ Len(residual) \in Nat /\ Len(body[t]) \in Nat
      /\ received[t] <= Len(body[t])
  BY LenProperties DEF TypeOK, ParseLine, Reading
<1>6. PICK view \in Seq(Byte) : /\ view = SubSeq(residual, 1, end) /\ Len(view) = 2
                                /\ view[1] = body[t][k + 1] /\ view[2] = body[t][k + 2]
  <2>1. \A i \in 1..2 : residual[i] \in Byte
    BY <1>3, <1>5, ElementOfSeq
  <2>2. /\ SubSeq(residual, 1, 2) \in Seq(Byte) /\ Len(SubSeq(residual, 1, 2)) = 2
        /\ SubSeq(residual, 1, 2)[1] = residual[1] /\ SubSeq(residual, 1, 2)[2] = residual[2]
    BY <2>1, SubSeqProperties
  <2> QED BY <1>3, <2>2
<1>7. ParsesAsChunk(view) <=> w \notin Junk
  BY <1>3, <1>6 DEF ParsesAsChunk
<1>8. Content(view) = IF w \in Word THEN <<w>> ELSE <<>>
  BY <1>3, <1>6 DEF Content
<1>9. w \in Word => w \notin Junk
  BY LineAssumption
<1>10. accumulation'[t] = WordsOf(body[t], k + 2)
  <2>1. WordsOf(body[t], k + 1) = WordsOf(body[t], k)
    <3>1. \A i \in (k + 1)..(k + 1) : ~body[t][i].newline
      BY <1>3, <1>5
    <3> QED BY <1>5, <3>1, WordsWithoutNewline
  <2>2. /\ w \in Word => WordsOf(body[t], k + 2) = Append(WordsOf(body[t], k), w)
        /\ w \notin Word => WordsOf(body[t], k + 2) = WordsOf(body[t], k)
    <3>1. (k + 1) + 1 = k + 2 /\ k + 1 \in Nat
      BY <1>5
    <3> QED BY <1>3, <2>1, <3>1, WordsAfterNewline
  <2>3. accumulation[t] = WordsOf(body[t], k)
    BY <1>1 DEF ParsedUpTo
  <2> HIDE DEF w
  <2>4. CASE w \in Word
    <3>1. accumulation'[t] = accumulation[t] \o <<w>>
      BY <1>2, <1>6, <1>7, <1>8, <1>9, <2>4 DEF TypeOK
    <3>2. accumulation[t] \o <<w>> = Append(accumulation[t], w)
      BY <1>5, <2>4
    <3> QED BY <2>2, <2>3, <2>4, <3>1, <3>2
  <2>5. CASE w \notin Word
    <3>1. accumulation'[t] = accumulation[t]
      <4>1. accumulation[t] \o <<>> = accumulation[t]
        BY <1>5
      <4> QED BY <1>2, <1>6, <1>7, <1>8, <2>5, <4>1 DEF TypeOK
    <3> QED BY <2>2, <2>3, <2>5, <3>1
  <2> QED BY <2>4, <2>5
<1>11. residual' = SubSeq(body[t], k + 3, received[t])
  <2>1. residual = SubSeq(body[t], k + 1, received[t])
    BY <1>1 DEF ParsedUpTo
  <2>2. PICK r \in Nat, l \in Nat : r = received[t] /\ l = Len(body[t])
    BY <1>5
  <2>3. k + 2 <= r /\ r <= l /\ Len(residual) = r - k
    BY <1>3, <1>5, <2>2
  <2>4. residual' = SubSeq(residual, 3, r - k)
    BY <1>2, <1>3, <2>3
  <2>5. CASE k + 2 = r
    <3>1. SubSeq(residual, 3, r - k) = <<>>
      BY <2>5, SubSeqEmpty
    <3>2. SubSeq(body[t], k + 3, r) = <<>>
      BY <2>5, SubSeqEmpty
    <3> QED BY <2>2, <2>4, <3>1, <3>2
  <2>6. CASE k + 2 < r
    <3>1. k + 1 \in 1..l /\ r \in 1..l
      BY <1>5, <2>3
    <3>2. 3 \in 1..(r - (k + 1) + 1) /\ r - k \in 1..(r - (k + 1) + 1)
      BY <1>5, <2>6
    <3>3. (k + 1) + 3 - 1 = k + 3 /\ (k + 1) + (r - k) - 1 = r
      BY <1>5
    <3>4. PICK b \in Seq(Byte) : b = body[t] /\ Len(b) = l
      BY <1>5, <2>2
    <3>5. SubSeq(SubSeq(b, k + 1, r), 3, r - k) = SubSeq(b, (k + 1) + 3 - 1, (k + 1) + (r - k) - 1)
      <4>1. \A i, j \in 1..Len(b) : \A m, n \in 1..(j - i + 1) :
               SubSeq(SubSeq(b, i, j), m, n) = SubSeq(b, i + m - 1, i + n - 1)
        BY <3>4, SubSeqOfSubSeq
      <4> QED BY <3>1, <3>2, <3>4, <4>1
    <3> QED BY <2>1, <2>2, <2>4, <3>3, <3>4, <3>5
  <2> QED BY <2>3, <2>5, <2>6
<1>12. ParsedUpTo(t, k + 2)' /\ k + 2 \in 0..received'[t]
  <2>1. (k + 2) + 1 = k + 3
    BY <1>5
  <2> QED BY <1>3, <1>4, <1>5, <1>10, <1>11, <2>1 DEF ParsedUpTo
<1>13. pc'[t] = "parsing"
  BY <1>4 DEF ParseLine
<1> QED BY <1>4, <1>12, <1>13 DEF Reading
\* The accumulator without a whole line: at most one byte, that of the unfinished line.
LEMMA Unfinished ==
  ASSUME Inductive, NEW t \in Task, Reading(t), pc[t] \in {"testing", "reading"}
  PROVE  /\ residual = IF received[t] = 0 \/ body[t][received[t]].newline
                         THEN <<>> ELSE <<body[t][received[t]]>>
         /\ accumulation[t] = WordsOf(body[t], received[t])
<1>1. PICK k \in 0..received[t] : ParsedUpTo(t, k)
  BY DEF Reading
<1>2. /\ body[t] \in Seq(Byte) /\ received[t] \in Nat /\ Len(body[t]) \in Nat
      /\ received[t] <= Len(body[t]) /\ k \in Nat /\ k <= received[t]
  BY LenProperties DEF Inductive, TypeOK, Reading
<1>3. residual = SubSeq(body[t], k + 1, received[t]) /\ (k # 0 => body[t][k].newline)
      /\ accumulation[t] = WordsOf(body[t], k)
  BY <1>1 DEF ParsedUpTo
<1>4. \A i \in k + 1 .. received[t] : body[t][i] \in Byte
  BY <1>2, ElementOfSeq
<1>5. /\ Len(residual) = received[t] - k
      /\ \A i \in 1..(received[t] - k) : residual[i] = body[t][k + i]
  <2>1. k + 1 \in Int /\ received[t] \in Int /\ received[t] - (k + 1) + 1 = received[t] - k
    BY <1>2
  <2>2. /\ Len(SubSeq(body[t], k + 1, received[t]))
             = IF k + 1 <= received[t] THEN received[t] - (k + 1) + 1 ELSE 0
        /\ \A i \in 1..(received[t] - (k + 1) + 1) :
              SubSeq(body[t], k + 1, received[t])[i] = body[t][k + 1 + i - 1]
    BY <1>4, <2>1, SubSeqProperties
  <2>3. \A i \in 1..(received[t] - k) : k + 1 + i - 1 = k + i
    BY <1>2
  <2> QED BY <1>2, <1>3, <2>1, <2>2, <2>3
<1>6. residual \in Seq(Byte) /\ ~HasLine(residual)
  BY DEF Inductive, TypeOK, Reading
<1>7. \A i \in 1..(received[t] - k) : ~body[t][k + i].newline
  <2>1. DOMAIN residual = 1..(received[t] - k)
    BY <1>5, <1>6, LenProperties
  <2> QED BY <1>5, <1>6, <2>1 DEF HasLine
<1>8. \A i \in (k + 1)..received[t] : ~body[t][i].newline
  <2> TAKE i \in (k + 1)..received[t]
  <2>1. i - k \in 1..(received[t] - k) /\ k + (i - k) = i
    BY <1>2
  <2>2. ~body[t][k + (i - k)].newline
    BY <1>7, <2>1
  <2> QED BY <2>1, <2>2
<1>9. accumulation[t] = WordsOf(body[t], received[t])
  BY <1>2, <1>3, <1>8, WordsWithoutNewline
<1>10. CASE k = received[t]
  <2>1. residual = <<>>
    BY <1>2, <1>3, <1>10, SubSeqEmpty
  <2> QED BY <1>3, <1>9, <1>10, <2>1
<1>11. CASE k < received[t]
  <2>1. k % 2 = 0 \/ k % 2 = 1
    BY <1>2
  <2>2. \A i \in 1..Len(body[t]) : /\ i % 2 = 1 => ~body[t][i].newline
                                   /\ i % 2 = 0 => body[t][i].newline
    BY DEF Reading, Alternating
  <2>3. k # 0 => k \in 1..Len(body[t])
    BY <1>2
  <2>4. k % 2 = 0
    <3>1. 0 % 2 = 0
      OBVIOUS
    <3> QED BY <1>3, <2>1, <2>2, <2>3, <3>1
  <2>5. received[t] = k + 1
    <3>1. SUFFICES ASSUME k + 2 <= received[t] PROVE FALSE
      BY <1>2, <1>11
    <3>2. k + 2 \in 1..Len(body[t]) /\ k + 2 \in (k + 1)..received[t]
      BY <1>2, <3>1
    <3>3. (k + 2) % 2 = 0
      BY <1>2, <2>4
    <3> QED BY <1>8, <2>2, <3>2, <3>3
  <2>6. received[t] # 0 /\ ~body[t][received[t]].newline
    BY <1>2, <1>8, <2>5
  <2>7. Len(residual) = 1 /\ residual[1] = body[t][received[t]]
    BY <1>2, <1>5, <2>5
  <2>8. residual = <<residual[1]>>
    BY <1>6, <2>7
  <2> QED BY <1>9, <2>6, <2>7, <2>8
<1> QED BY <1>2, <1>10, <1>11

\* The steps of the loop that read and parse nothing.
LEMMA ReadingLoop ==
  ASSUME Inductive, NEW t \in Task, Reading(t),
         ParseEnd(t) \/ ReadOn(t) \/ End(t) \/ Interrupt(t)
  PROVE  Reading(t)'
<1> USE DEF Inductive
<1>1. UNCHANGED <<body, received, accumulation, complete, residual>>
  BY DEF ParseEnd, ReadOn, End, Interrupt, Finish
<1>2. CASE ParseEnd(t) \/ ReadOn(t)
  <2>1. /\ pc[t] \in {"parsing", "testing"} /\ pc'[t] \in {"testing", "reading"}
        /\ ~HasLine(residual)
    BY <1>2 DEF ParseEnd, ReadOn, TypeOK, Reading
  <2> QED BY <1>1, <2>1 DEF Reading, ParsedUpTo, HasLine
<1>3. CASE End(t) \/ Interrupt(t)
  <2>1. pc[t] = "testing" /\ pc'[t] = "done"
    BY <1>3 DEF End, Interrupt, Finish, TypeOK
  <2>2. complete[t] => accumulation[t] = WordsOf(body[t], Len(body[t]))
    BY <2>1, Unfinished DEF Reading
  <2> QED BY <1>1, <2>1, <2>2 DEF Reading
<1> QED BY <1>2, <1>3

LEMMA ReadingStep ==
  ASSUME Inductive, AllReading, [Next]_vars
  PROVE  AllReading'
<1> USE DEF Inductive
<1>1. ASSUME NEW t \in Task, Start(t) \/ Await(t) \/ Compute(t)
      PROVE  AllReading'
  <2>1. Reading(t)'
    <3>1. CASE Start(t) \/ Resolve(t) \/ Connect(t) \/ Write(t)
      BY <3>1, ReadingBeforeBody DEF AllReading
    <3>2. CASE ReadHeader(t)
      BY <3>2, ReadingHeader DEF AllReading
    <3>3. CASE ReadSome(t)
      BY <3>3, ReadingMore DEF AllReading
    <3>4. CASE ParseLine(t)
      BY <3>4, ReadingLine DEF AllReading
    <3>5. CASE ParseEnd(t) \/ ReadOn(t) \/ End(t) \/ Interrupt(t)
      BY <3>5, ReadingLoop DEF AllReading
    <3> QED BY <1>1, <3>1, <3>2, <3>3, <3>4, <3>5 DEF Await, Compute
  <2>2. ASSUME NEW u \in Task, u # t
        PROVE  Reading(u)'
    <3>1. /\ pc'[u] = pc[u] /\ body'[u] = body[u] /\ received'[u] = received[u]
          /\ accumulation'[u] = accumulation[u] /\ complete'[u] = complete[u]
          /\ residual' = residual \/ pc[u] \notin OpenStates
      BY <1>1, <2>2, OthersUntouched
    <3>2. Reading(u)
      BY DEF AllReading
    <3> QED BY <3>1, <3>2, OtherReads
  <2> QED BY <2>1, <2>2 DEF AllReading
<1>2. ASSUME NEW t \in Task, NEW p \in Prompt, Submit(t, p)
      PROVE  AllReading'
  <2>1. UNCHANGED <<body, received, accumulation, complete, residual>>
    BY <1>2 DEF Submit
  <2>2. pc[t] = "idle" /\ pc'[t] = "spawned" /\ \A u \in Task : u # t => pc'[u] = pc[u]
    BY <1>2 DEF Submit, TypeOK
  <2>3. Reading(t)'
    BY <2>1, <2>2 DEF AllReading, Reading, Untouched
  <2>4. \A u \in Task : u # t => Reading(u)'
    BY <2>1, <2>2, OtherReads DEF AllReading
  <2> QED BY <2>3, <2>4 DEF AllReading
<1>3. CASE Cancel \/ Close \/ UNCHANGED vars
  <2>1. UNCHANGED <<pc, body, received, accumulation, complete, residual>>
    BY <1>3 DEF Cancel, Close, vars, task
  <2> QED BY <2>1, OtherReads DEF AllReading
<1> QED BY <1>1, <1>2, <1>3 DEF Next

LEMMA ReadingInit == Init => AllReading
<1> SUFFICES ASSUME Init, NEW t \in Task PROVE Reading(t)
  BY DEF AllReading
<1>1. /\ pc[t] = "idle" /\ body[t] = <<>> /\ received[t] = 0
      /\ accumulation[t] = <<>> /\ complete[t] = FALSE
  BY DEF Init
<1>2. Len(<<>>) = 0
  OBVIOUS
<1>3. 1..0 = {}
  OBVIOUS
<1> QED BY <1>1, <1>2, <1>3 DEF Reading, Untouched, Alternating

\* However reads cut the answers, and whatever other tasks do, the accumulator holds only
\* the unfinished line of the open stream, and a stream that has read its answer to the end
\* has said exactly its words.
THEOREM ResidualIsTheStreams == Spec => []ResidualBelongsToStream
<1>1. Inductive /\ AllReading /\ [Next]_vars => AllReading'
  BY ReadingStep
<1>2. Inductive /\ AllReading => ResidualBelongsToStream
  <2> SUFFICES ASSUME Inductive, AllReading, NEW t \in Task
               PROVE  /\ pc[t] \in {"reading", "testing"} =>
                           /\ residual = IF received[t] = 0 \/ body[t][received[t]].newline
                                           THEN <<>> ELSE <<body[t][received[t]]>>
                           /\ accumulation[t] = WordsOf(body[t], received[t])
                      /\ pc[t] = "done" /\ complete[t] =>
                           accumulation[t] = WordsOf(body[t], Len(body[t]))
    BY DEF ResidualBelongsToStream
  <2>1. Reading(t)
    BY DEF AllReading
  <2>2. pc[t] = "done" /\ complete[t] => accumulation[t] = WordsOf(body[t], Len(body[t]))
    BY <2>1 DEF Reading
  <2> QED BY <2>1, <2>2, Unfinished
<1> QED BY <1>1, <1>2, ReadingInit, InductiveInvariant, PTL DEF Spec
=============================================================================
