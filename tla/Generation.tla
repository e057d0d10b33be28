------------------------------ MODULE Generation ------------------------------
(***************************************************************************)
(* What the network layer promises to the desktop about generations, with  *)
(* the sockets, the HTTP parser and the response cache taken away.         *)
(*                                                                         *)
(* Every prompt handed to StreamWorker::InitializeGeneration becomes a     *)
(* task.  A task waits until the worker thread picks it up, and is then    *)
(* refused (another stream is open), replayed (its answer is remembered)   *)
(* or streamed.  All it ever says travels through one queue of events, and *)
(* its last event is the final one.                                        *)
(***************************************************************************)
EXTENDS Naturals, Sequences

CONSTANTS Task,       \* the coroutines that can be spawned
          Prompt,     \* requests: everything InitializeGeneration is given
          CacheKey,   \* [Prompt -> keys]: what a remembered answer is found by
          Word,       \* the non-empty token texts a model can produce
          Notice,     \* the text posted when the user stopped a stream
          NoPrompt    \* prompt of a task that was never spawned

VARIABLES phase,      \* where each task is
          prompt,     \* what each task was asked
          said,       \* the answer text each task has streamed so far
          posted,     \* every token event, in the order wxTheApp gets them
          remembered  \* answers that may be replayed, with their keys

vars == <<phase, prompt, said, posted, remembered>>

Phases == {"idle", "waiting", "streaming", "settled"}

Text == Seq(Word \cup {Notice})

Token(t, text) == [task |-> t, text |-> text, final |-> FALSE]
Final(t)       == [task |-> t, text |-> <<>>, final |-> TRUE]

Events == [task : Task, text : Text, final : BOOLEAN]

TypeOK ==
  /\ phase \in [Task -> Phases]
  /\ prompt \in [Task -> Prompt \cup {NoPrompt}]
  /\ said \in [Task -> Seq(Word)]
  /\ posted \in Seq(Events)
  /\ remembered \subseteq [key : {CacheKey[p] : p \in Prompt}, text : Seq(Word)]

Init ==
  /\ phase = [t \in Task |-> "idle"]
  /\ prompt = [t \in Task |-> NoPrompt]
  /\ said = [t \in Task |-> <<>>]
  /\ posted = <<>>
  /\ remembered = {}

StreamOpen == \E t \in Task : phase[t] = "streaming"

\* InitializeGeneration: spawn a task for a prompt.
Submit(t, p) ==
  /\ phase[t] = "idle"
  /\ phase' = [phase EXCEPT ![t] = "waiting"]
  /\ prompt' = [prompt EXCEPT ![t] = p]
  /\ UNCHANGED <<said, posted, remembered>>

\* A task that finds a stream open ends at once, with nothing but its final event.
Refuse(t) ==
  /\ phase[t] = "waiting" /\ StreamOpen
  /\ phase' = [phase EXCEPT ![t] = "settled"]
  /\ posted' = Append(posted, Final(t))
  /\ UNCHANGED <<prompt, said, remembered>>

\* A remembered answer is replayed as one token.
Replay(t) ==
  /\ phase[t] = "waiting" /\ ~StreamOpen
  /\ \E r \in remembered :
        /\ r.key = CacheKey[prompt[t]]
        /\ posted' = Append(Append(posted, Token(t, r.text)), Final(t))
  /\ phase' = [phase EXCEPT ![t] = "settled"]
  /\ UNCHANGED <<prompt, said, remembered>>

Begin(t) ==
  /\ phase[t] = "waiting" /\ ~StreamOpen
  /\ phase' = [phase EXCEPT ![t] = "streaming"]
  /\ UNCHANGED <<prompt, said, posted, remembered>>

\* One parsed line of the answer; its text may be empty.
Emit(t, text) ==
  /\ phase[t] = "streaming"
  /\ said' = [said EXCEPT ![t] = @ \o text]
  /\ posted' = Append(posted, Token(t, text))
  /\ UNCHANGED <<phase, prompt, remembered>>

\* The stream ends, by itself (closing = <<>>) or because the user asked for it
\* (closing is the notice).  Its answer may be remembered, if it has one, and
\* older ones may be forgotten.
Settle(t) ==
  /\ phase[t] = "streaming"
  /\ phase' = [phase EXCEPT ![t] = "settled"]
  /\ \E closing \in {<<>>, <<Token(t, <<Notice>>)>>} :
        posted' = (posted \o closing) \o <<Final(t)>>
  /\ \E kept \in SUBSET remembered :
        \/ remembered' = kept
        \/ /\ said[t] # <<>>
           /\ remembered' = kept \cup {[key |-> CacheKey[prompt[t]], text |-> said[t]]}
  /\ UNCHANGED <<prompt, said>>

\* What the worker thread does for task t.
Work(t) ==
  \/ Refuse(t) \/ Replay(t) \/ Begin(t) \/ Settle(t)
  \/ \E text \in {<<>>} \cup {<<w>> : w \in Word} : Emit(t, text)

Next == \E t \in Task : Work(t) \/ \E p \in Prompt : Submit(t, p)

Spec == Init /\ [][Next]_vars

-----------------------------------------------------------------------------
\* At most one generation streams at any time.
OneStream ==
  \A t, u \in Task : phase[t] = "streaming" /\ phase[u] = "streaming" => t = u

\* The final event of a task is the last event it ever posts.
FinalIsLast ==
  \A i, j \in DOMAIN posted :
     i < j /\ posted[i].task = posted[j].task => ~posted[i].final

\* A final event is there exactly when the task has settled.
FinalIffSettled ==
  \A t \in Task :
     phase[t] = "settled" <=> \E i \in DOMAIN posted :
                                 posted[i].task = t /\ posted[i].final
=============================================================================
