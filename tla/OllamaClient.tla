----------------------------- MODULE OllamaClient -----------------------------
(***************************************************************************)
(* OllamaClient and the StreamWorker task that drives it                   *)
(* (network/ollama_client.cpp, network/stream_worker.cpp).                 *)
(*                                                                         *)
(* One worker thread runs the io_context.  A prompt becomes a coroutine on *)
(* it; coroutines take turns only where one of them awaits the network, so *)
(* pc[t] names the await (or the synchronous loop) task t is at.  The      *)
(* members of the client are shared by all tasks: the streaming flag, the  *)
(* cancellation flag, the residual line accumulator and the cache.  The UI *)
(* thread submits, may request a cancellation, and closes the client.      *)
(*                                                                         *)
(* A line of the answer's body is two bytes here, its text and its         *)
(* newline, so that a read may end inside a line, between lines or after   *)
(* several of them.                                                        *)
(***************************************************************************)
EXTENDS Naturals, Sequences, FiniteSets, SequencesExt

CONSTANTS Task,        \* coroutines, one for each prompt submitted
          Prompt,      \* requests: [text, images], see CacheKey
          NoPrompt,    \* prompt of a task that was never spawned
          Word,        \* lines that carry a non-empty message content
          Blank,       \* lines that parse and carry none (the "done" line, an error object)
          Junk,        \* lines that do not parse as a response chunk
          Notice,      \* "[Prompt generation stopped by the user.]"
          Answer,      \* bodies a server may send: [lines, terminated]
          MaxEntries,  \* max_cache_entries
          MaxCancels   \* bound: cancellations requested in a behaviour

Line == Word \cup Blank \cup Junk

ASSUME NoPromptAssumption == NoPrompt \notin Prompt
ASSUME NoticeAssumption == Notice \notin Word
ASSUME LineAssumption == (Word \cap Blank) \cup (Word \cap Junk) \cup (Blank \cap Junk) = {}
ASSUME AnswerAssumption == Answer \subseteq [lines : Seq(Line), terminated : BOOLEAN]
ASSUME MaxEntriesAssumption == MaxEntries \in Nat \ {0}
ASSUME MaxCancelsAssumption == MaxCancels \in Nat

VARIABLES
  alive,            \* the io_context runs: the destructor has not stopped it
  spawned,          \* tasks posted to the io_context that have not started
  pc,               \* where each task is
  prompt,           \* what each task was asked
  link,             \* the task's socket still works
  body,             \* the answer the server gave the task
  received,         \* how many bytes of it the task has read
  complete,         \* response_parser.is_done()
  broken,           \* the last read reported an error
  accumulation,     \* complete_stream_accumulation
  posted,           \* token events queued for wxTheApp, oldest first
  streaming,        \* m_is_streaming
  cancelRequested,  \* m_cancellation_requested
  residual,         \* m_residual_line_accumulator
  table,            \* m_cache_store.m_lookup_table
  order,            \* m_cache_store.m_access_order
  cancels           \* cancellations requested so far

task   == <<pc, prompt, link, body, received, complete, broken, accumulation>>
cache  == <<table, order>>
vars   == <<alive, spawned, task, posted, streaming, cancelRequested, residual, cache, cancels>>

-----------------------------------------------------------------------------
\* The cache key spells out the model, the prompt, the parameters and a hash of
\* the history (here: text), but of the images only their number.
CacheKey == [p \in Prompt |-> [text |-> p.text, images |-> Len(p.images)]]
Key == {CacheKey[p] : p \in Prompt}

Byte == [line : Line, newline : BOOLEAN]

\* The body of an answer as it travels; only its last line may lack the newline.
Bytes(a) ==
  [i \in 1..(IF a.terminated \/ a.lines = <<>> THEN 2 * Len(a.lines)
                                               ELSE 2 * Len(a.lines) - 1) |->
      [line |-> a.lines[(i + 1) \div 2], newline |-> i % 2 = 0]]

Text == Seq(Word \cup {Notice})
Token(t, text) == [task |-> t, text |-> text, final |-> FALSE]
Final(t)       == [task |-> t, text |-> <<>>, final |-> TRUE]
Events == [task : Task, text : Text, final : BOOLEAN]

\* States in which ExecuteStreamTask holds the streaming flag.
AwaitStates == {"resolving", "connecting", "writing", "header", "reading"}
BusyStates  == {"parsing", "testing"}
OpenStates  == AwaitStates \cup BusyStates
PcStates    == OpenStates \cup {"idle", "spawned", "done"}

\* The thread is inside a synchronous stretch of some task.
ThreadBusy == \E t \in Task : pc[t] \in BusyStates

\* Task t is resumed from the await it is at.
Resume(t, at) == alive /\ ~ThreadBusy /\ pc[t] = at

TypeOK ==
  /\ alive \in BOOLEAN
  /\ spawned \in Seq(Task)
  /\ pc \in [Task -> PcStates]
  /\ prompt \in [Task -> Prompt \cup {NoPrompt}]
  /\ link \in [Task -> BOOLEAN]
  /\ body \in [Task -> Seq(Byte)]
  /\ received \in [Task -> Nat]
  /\ complete \in [Task -> BOOLEAN]
  /\ broken \in [Task -> BOOLEAN]
  /\ accumulation \in [Task -> Seq(Word)]
  /\ posted \in Seq(Events)
  /\ streaming \in BOOLEAN
  /\ cancelRequested \in BOOLEAN
  /\ residual \in Seq(Byte)
  /\ DOMAIN table \subseteq Key
  /\ \A k \in DOMAIN table : table[k] \in Seq(Word)
  /\ order \in Seq(Key)
  /\ cancels \in 0..MaxCancels

Init ==
  /\ alive = TRUE
  /\ spawned = <<>>
  /\ pc = [t \in Task |-> "idle"]
  /\ prompt = [t \in Task |-> NoPrompt]
  /\ link = [t \in Task |-> FALSE]
  /\ body = [t \in Task |-> <<>>]
  /\ received = [t \in Task |-> 0]
  /\ complete = [t \in Task |-> FALSE]
  /\ broken = [t \in Task |-> FALSE]
  /\ accumulation = [t \in Task |-> <<>>]
  /\ posted = <<>>
  /\ streaming = FALSE
  /\ cancelRequested = FALSE
  /\ residual = <<>>
  /\ table = [k \in {} |-> <<>>]
  /\ order = <<>>
  /\ cancels = 0

-----------------------------------------------------------------------------
(* The UI thread.                                                          *)

\* InitializeGeneration: move the staged images into the request and spawn the task.
Submit(t, p) ==
  /\ alive /\ pc[t] = "idle"
  /\ pc' = [pc EXCEPT ![t] = "spawned"]
  /\ prompt' = [prompt EXCEPT ![t] = p]
  /\ spawned' = Append(spawned, t)
  /\ UNCHANGED <<alive, link, body, received, complete, broken, accumulation, posted,
                 streaming, cancelRequested, residual, cache, cancels>>

\* TriggerActiveGenerationCancellation.  The socket it closes, m_socket, is not
\* the one any task reads from.
Cancel ==
  /\ alive /\ cancels < MaxCancels
  /\ cancels' = cancels + 1
  /\ cancelRequested' = TRUE
  /\ UNCHANGED <<alive, spawned, task, posted, streaming, residual, cache>>

\* ~OllamaClient: stop the io_context.  A handler that is running ends first;
\* a task that awaits is never resumed.
Close ==
  /\ alive
  /\ alive' = FALSE
  /\ UNCHANGED <<spawned, task, posted, streaming, cancelRequested, residual, cache, cancels>>

-----------------------------------------------------------------------------
(* The worker thread starts the oldest task: the head of ExecuteStreamTask *)
(* up to its first await, and for a task that ends there the final event   *)
(* RunCobaltTask posts after it.                                           *)

Starts(t) ==
  /\ alive /\ ~ThreadBusy /\ spawned # <<>> /\ t = Head(spawned)
  /\ spawned' = Tail(spawned)

Refuse(t) ==
  /\ Starts(t) /\ streaming
  /\ pc' = [pc EXCEPT ![t] = "done"]
  /\ posted' = Append(posted, Final(t))
  /\ UNCHANGED <<alive, prompt, link, body, received, complete, broken, accumulation,
                 streaming, cancelRequested, residual, cache, cancels>>

Replay(t) ==
  LET k == CacheKey[prompt[t]] IN
  /\ Starts(t) /\ ~streaming /\ k \in DOMAIN table
  /\ cancelRequested' = FALSE
  /\ residual' = <<>>
  /\ pc' = [pc EXCEPT ![t] = "done"]
  /\ posted' = Append(Append(posted, Token(t, table[k])), Final(t))
  /\ UNCHANGED <<alive, prompt, link, body, received, complete, broken, accumulation,
                 streaming, cache, cancels>>

\* Mutant: no gate.
BeginUngated(t) ==
  /\ Starts(t) /\ CacheKey[prompt[t]] \notin DOMAIN table
  /\ cancelRequested' = FALSE
  /\ residual' = <<>>
  /\ streaming' = TRUE
  /\ pc' = [pc EXCEPT ![t] = "resolving"]
  /\ UNCHANGED <<alive, prompt, link, body, received, complete, broken, accumulation,
                 posted, cache, cancels>>

Begin(t) ==
  /\ Starts(t) /\ ~streaming /\ CacheKey[prompt[t]] \notin DOMAIN table
  /\ cancelRequested' = FALSE
  /\ residual' = <<>>
  /\ streaming' = TRUE
  /\ pc' = [pc EXCEPT ![t] = "resolving"]
  /\ UNCHANGED <<alive, prompt, link, body, received, complete, broken, accumulation,
                 posted, cache, cancels>>

-----------------------------------------------------------------------------
(* The awaits of ExecuteStreamTask.                                        *)

\* Mutant: a lookup that fails leaves the streaming flag up.
ResolveKeepingFlag(t) ==
  /\ Resume(t, "resolving")
  /\ \/ pc' = [pc EXCEPT ![t] = "connecting"] /\ UNCHANGED posted
     \/ pc' = [pc EXCEPT ![t] = "done"] /\ posted' = Append(posted, Final(t))
  /\ UNCHANGED <<alive, spawned, prompt, link, body, received, complete, broken, streaming,
                 accumulation, cancelRequested, residual, cache, cancels>>

\* async_resolve answers; a host that cannot be resolved ends the task.
Resolve(t) ==
  /\ Resume(t, "resolving")
  /\ \/ /\ pc' = [pc EXCEPT ![t] = "connecting"]
        /\ UNCHANGED <<streaming, posted>>
     \/ /\ pc' = [pc EXCEPT ![t] = "done"]
        /\ streaming' = FALSE
        /\ posted' = Append(posted, Final(t))
  /\ UNCHANGED <<alive, spawned, prompt, link, body, received, complete, broken,
                 accumulation, cancelRequested, residual, cache, cancels>>

\* async_connect answers; its error is dropped, so the task goes on either way.
Connect(t) ==
  /\ Resume(t, "connecting")
  /\ pc' = [pc EXCEPT ![t] = "writing"]
  /\ \E up \in BOOLEAN : link' = [link EXCEPT ![t] = up]
  /\ UNCHANGED <<alive, spawned, prompt, body, received, complete, broken, accumulation,
                 posted, streaming, cancelRequested, residual, cache, cancels>>

\* async_write answers; its error is dropped as well.
Write(t) ==
  /\ Resume(t, "writing")
  /\ pc' = [pc EXCEPT ![t] = "header"]
  /\ \E up \in {FALSE, link[t]} : link' = [link EXCEPT ![t] = up]
  /\ UNCHANGED <<alive, spawned, prompt, body, received, complete, broken, accumulation,
                 posted, streaming, cancelRequested, residual, cache, cancels>>

\* async_read_header answers: the server has an answer (possibly an empty one,
\* which the parser sees as done), or the socket fails and the error is dropped.
ReadHeader(t) ==
  /\ Resume(t, "header")
  /\ pc' = [pc EXCEPT ![t] = "testing"]
  /\ \/ /\ link[t]
        /\ \E a \in Answer :
              /\ body' = [body EXCEPT ![t] = Bytes(a)]
              /\ \E ended \in {FALSE, Bytes(a) = <<>>} :
                    complete' = [complete EXCEPT ![t] = ended]
        /\ UNCHANGED link
     \/ /\ link' = [link EXCEPT ![t] = FALSE]
        /\ UNCHANGED <<body, complete>>
  /\ UNCHANGED <<alive, spawned, prompt, received, broken, accumulation, posted,
                 streaming, cancelRequested, residual, cache, cancels>>

\* async_read_some answers with some of the bytes that are left, or says that the
\* body is complete, or both; or it fails, possibly after some bytes.  Reads that
\* bring framing only and change nothing are not steps of their own.
ReadSome(t) ==
  LET left == Len(body[t]) - received[t] IN
  /\ Resume(t, "reading")
  /\ \E n \in 0..left :
        /\ \/ /\ link[t]
              /\ \E ended \in {FALSE, n = left} :
                    /\ n > 0 \/ ended
                    /\ complete' = [complete EXCEPT ![t] = ended]
              /\ UNCHANGED <<link, broken>>
           \/ /\ link[t] \/ n = 0
              /\ link' = [link EXCEPT ![t] = FALSE]
              /\ broken' = [broken EXCEPT ![t] = TRUE]
              /\ UNCHANGED complete
        /\ received' = [received EXCEPT ![t] = @ + n]
        /\ residual' = residual \o SubSeq(body[t], received[t] + 1, received[t] + n)
        /\ pc' = [pc EXCEPT ![t] = IF n > 0 THEN "parsing" ELSE "testing"]
  /\ UNCHANGED <<alive, spawned, prompt, body, accumulation, posted, streaming,
                 cancelRequested, cache, cancels>>

-----------------------------------------------------------------------------
(* ParseStreamAccumulator, one turn of its loop at a time: the UI thread   *)
(* may take an event between two turns, the worker thread may not leave.   *)

HasLine(s) == \E i \in DOMAIN s : s[i].newline

\* Mutant: rfind instead of find.
LastNewline(s, i) == s[i].newline /\ \A j \in (i + 1)..Len(s) : ~s[j].newline

\* The first newline of s is at i: what find('\n') returns.
FirstNewline(s, i) == s[i].newline /\ \A j \in 1..(i - 1) : ~s[j].newline

\* The line starts with '{' and reads as a response chunk: it is whole, and no junk.
ParsesAsChunk(view) ==
  /\ Len(view) = 2 /\ ~view[1].newline
  /\ view[1].line = view[2].line /\ view[1].line \notin Junk

\* Mutant: a chunk without content passes for one with content.
ContentUnchecked(view) == <<view[1].line>>

\* The message content of a chunk.
Content(view) == IF view[1].line \in Word THEN <<view[1].line>> ELSE <<>>

ParseLine(t) ==
  /\ pc[t] = "parsing"
  /\ \E end \in DOMAIN residual :
        LET view == SubSeq(residual, 1, end) IN
        /\ FirstNewline(residual, end)
        /\ IF ParsesAsChunk(view)
             THEN /\ posted' = Append(posted, Token(t, Content(view)))
                  /\ accumulation' = [accumulation EXCEPT ![t] = @ \o Content(view)]
             ELSE UNCHANGED <<posted, accumulation>>
        /\ residual' = SubSeq(residual, end + 1, Len(residual))
  /\ UNCHANGED <<alive, spawned, pc, prompt, link, body, received, complete, broken,
                 streaming, cancelRequested, cache, cancels>>

ParseEnd(t) ==
  /\ pc[t] = "parsing" /\ ~HasLine(residual)
  /\ pc' = [pc EXCEPT ![t] = "testing"]
  /\ UNCHANGED <<alive, spawned, prompt, link, body, received, complete, broken,
                 accumulation, posted, streaming, cancelRequested, residual, cache, cancels>>

-----------------------------------------------------------------------------
(* The loop of ExecuteStreamTask between two reads, and its end.           *)

\* Mutant: the oldest key leaves the table, not the order.
UpdateCacheKeepingOrder(k, answer) ==
  LET full == Cardinality(DOMAIN table) >= MaxEntries
      kept == IF full THEN DOMAIN table \ {Head(order)} ELSE DOMAIN table IN
  /\ table' = [x \in kept \cup {k} |-> IF x = k THEN answer ELSE table[x]]
  /\ order' = Append(order, k)

\* UpdateCache: when the table is full the oldest key goes, then the answer is
\* stored and its key put last.
UpdateCache(k, answer) ==
  LET full == Cardinality(DOMAIN table) >= MaxEntries
      kept == IF full THEN DOMAIN table \ {Head(order)} ELSE DOMAIN table IN
  /\ table' = [x \in kept \cup {k} |-> IF x = k THEN answer ELSE table[x]]
  /\ order' = Append(IF full THEN Tail(order) ELSE order, k)

\* Mutant: the text of a stopped stream is cached as well.
FinishCachingStopped(t, closing) ==
  /\ IF accumulation[t] # <<>>
       THEN UpdateCache(CacheKey[prompt[t]], accumulation[t])
       ELSE UNCHANGED cache
  /\ streaming' = FALSE
  /\ pc' = [pc EXCEPT ![t] = "done"]
  /\ posted' = (posted \o closing) \o <<Final(t)>>
  /\ UNCHANGED <<alive, spawned, prompt, body, received, complete, broken, accumulation,
                 cancelRequested, residual, cancels>>

\* What follows the loop, up to the final event RunCobaltTask posts.
Finish(t, closing) ==
  /\ IF accumulation[t] # <<>> /\ ~cancelRequested
       THEN UpdateCache(CacheKey[prompt[t]], accumulation[t])
       ELSE UNCHANGED cache
  /\ streaming' = FALSE
  /\ pc' = [pc EXCEPT ![t] = "done"]
  /\ posted' = (posted \o closing) \o <<Final(t)>>
  /\ UNCHANGED <<alive, spawned, prompt, body, received, complete, broken, accumulation,
                 cancelRequested, residual, cancels>>

\* Mutant: a failed read does not end the loop.
EndWhenComplete(t) ==
  /\ pc[t] = "testing" /\ complete[t]
  /\ Finish(t, <<>>)
  /\ UNCHANGED link

\* The last read failed, or the parser is done.
End(t) ==
  /\ pc[t] = "testing" /\ (broken[t] \/ complete[t])
  /\ Finish(t, <<>>)
  /\ UNCHANGED link

\* The cancellation flag is seen: post the notice and close the stream.
Interrupt(t) ==
  /\ pc[t] = "testing" /\ ~broken[t] /\ ~complete[t] /\ cancelRequested
  /\ link' = [link EXCEPT ![t] = FALSE]
  /\ Finish(t, <<Token(t, <<Notice>>)>>)

ReadOn(t) ==
  /\ pc[t] = "testing" /\ ~broken[t] /\ ~complete[t] /\ ~cancelRequested
  /\ pc' = [pc EXCEPT ![t] = "reading"]
  /\ UNCHANGED <<alive, spawned, prompt, link, body, received, complete, broken,
                 accumulation, posted, streaming, cancelRequested, residual, cache, cancels>>

-----------------------------------------------------------------------------
Start(t) == Refuse(t) \/ Replay(t) \/ Begin(t)
Compute(t) == ParseLine(t) \/ ParseEnd(t) \/ End(t) \/ Interrupt(t) \/ ReadOn(t)
Await(t) == Resolve(t) \/ Connect(t) \/ Write(t) \/ ReadHeader(t) \/ ReadSome(t)

Next ==
  \/ Cancel \/ Close
  \/ \E t \in Task :
        \/ \E p \in Prompt : Submit(t, p)
        \/ Start(t) \/ Compute(t) \/ Await(t)

Spec == Init /\ [][Next]_vars

\* The worker thread runs whatever is ready on its io_context.
WorkerFairness == \A t \in Task : WF_vars(Start(t)) /\ WF_vars(Compute(t))

\* The operating system ends a lookup, a connection attempt and a write, and fails
\* a read of a connection it knows to be lost.
SystemFairness ==
  \A t \in Task :
     /\ WF_vars(Resolve(t) \/ Connect(t) \/ Write(t))
     /\ WF_vars(~link[t] /\ (ReadHeader(t) \/ ReadSome(t)))

\* The server, or the loss of the connection, ends every read.  Nothing in the
\* client does: no timeout is armed for any await.
ServerFairness == \A t \in Task : WF_vars(ReadHeader(t) \/ ReadSome(t))

LiveSpec == Spec /\ WorkerFairness /\ SystemFairness /\ ServerFairness

-----------------------------------------------------------------------------
(* Properties.                                                             *)

\* The streaming flag is up exactly while one task is between its gate and its
\* end, and never two tasks are: the gate at the head of ExecuteStreamTask is
\* what keeps the accumulator, the cancellation flag and the cache to one task.
StreamOwnership ==
  /\ streaming <=> \E t \in Task : pc[t] \in OpenStates
  /\ \A t, u \in Task : pc[t] \in OpenStates /\ pc[u] \in OpenStates => t = u

\* The words of an answer's whole lines among the first n bytes of its body.
WordsOf(bytes, n) ==
  LET ends == {i \in 1..n : bytes[i].newline /\ bytes[i].line \in Word} IN
  [k \in 1..Cardinality(ends) |->
      bytes[CHOOSE i \in ends : Cardinality({j \in ends : j <= i}) = k].line]

\* Between two reads the accumulator holds exactly the unfinished line of the
\* open stream's own body, and the stream has said exactly the words of the
\* finished ones: however reads cut the body, no word is lost, repeated or mixed
\* with those of another task.  A stream whose body was read to its end has said
\* all of its words, so that an answer cut short (which the client remembers like
\* any other) is always one whose connection was lost or that was stopped.
ResidualBelongsToStream ==
  \A t \in Task :
     /\ pc[t] \in {"reading", "testing"} =>
          /\ residual = IF received[t] = 0 \/ body[t][received[t]].newline
                          THEN <<>> ELSE <<body[t][received[t]]>>
          /\ accumulation[t] = WordsOf(body[t], received[t])
     /\ pc[t] = "done" /\ complete[t] => accumulation[t] = WordsOf(body[t], Len(body[t]))

\* m_lookup_table and m_access_order describe the same keys, each once, and never
\* more than max_cache_entries of them.  UpdateCache does not test whether its key
\* is there already: it relies on the miss its task saw before it first awaited.
CacheConsistent ==
  /\ Range(order) = DOMAIN table
  /\ IsInjective(order)
  /\ Len(order) <= MaxEntries

\* The notice of a stop was posted for task t.
Stopped(t) == \E i \in DOMAIN posted : posted[i].task = t /\ posted[i].text = <<Notice>>

\* Task t's stream ended without being stopped, and what it said was text.
Finished(t, text) == pc[t] = "done" /\ accumulation[t] = text /\ ~Stopped(t)

\* What the cache holds is what a finished stream of a prompt with that key has
\* said: never a cancelled stream's text, never that of two streams.
CacheGenuine ==
  \A k \in DOMAIN table :
     /\ table[k] # <<>>
     /\ \E t \in Task : CacheKey[prompt[t]] = k /\ Finished(t, table[k])

\* Every task that is submitted posts its final event, unless the client is
\* closed first: the spinner stops and the answer can be saved.
EverySubmissionSettles ==
  \A t \in Task : pc[t] = "spawned" ~> pc[t] = "done" \/ ~alive

\* A text that a task posts without having streamed it is the whole answer that a
\* stream of the very same request gave, one that was not stopped and has ended,
\* whatever was streamed, evicted, cancelled or stored in between.  Requests that
\* differ in the content of their images only share a key (see CacheKey), and
\* among those it does not hold.
ReplayAnswersSameRequest ==
  \A i \in DOMAIN posted :
     LET t == posted[i].task
         text == posted[i].text IN
     accumulation[t] = <<>> /\ text \notin {<<>>, <<Notice>>} =>
        \E u \in Task : prompt[u] = prompt[t] /\ Finished(u, text)

-----------------------------------------------------------------------------
(* The abstract contract, and how this client implements it.               *)

PhaseOf(state) ==
  IF state = "idle" THEN "idle"
  ELSE IF state = "spawned" THEN "waiting"
  ELSE IF state = "done" THEN "settled" ELSE "streaming"

phaseBar      == [t \in Task |-> PhaseOf(pc[t])]
rememberedBar == {[key |-> k, text |-> table[k]] : k \in DOMAIN table}

Contract == INSTANCE Generation
              WITH phase <- phaseBar, said <- accumulation, remembered <- rememberedBar

\* Every step of the client is a step the desktop's contract allows.
ContractSpec == Contract!Spec
=============================================================================
