------------------------------ MODULE StreamWorker ------------------------------
(***************************************************************************)
(* StreamWorker (network/stream_worker.cpp): the way of the tokens from    *)
(* OllamaClient, whose contract is Generation, to the callback of the      *)
(* desktop, through the filter of <think> blocks.                          *)
(*                                                                         *)
(* Whether a generation is filtered is read from the configuration when it *)
(* is spawned, on the UI thread.  The filter runs on the worker thread, as *)
(* the callback of ExecuteStreamTask: what it has to remember from one     *)
(* token to the next is whether it is inside of a block.                   *)
(*                                                                         *)
(* A text is a sequence of atoms, and a tag is two of them, so that it may *)
(* be split over two tokens.                                               *)
(***************************************************************************)
EXTENDS Naturals, Sequences, SequencesExt, FiniteSets

CONSTANTS Task, Prompt, CacheKey, Word, Notice, NoPrompt,  \* as in Generation
          Spelling,    \* [Word and Notice -> texts]: the atoms of a token
          OpenTag, CloseTag,
          MaxPosted,   \* bound: events of the client
          MaxToggles   \* bound: changes of the setting

ASSUME SpellingAssumption == \A w \in Word \cup {Notice} : Spelling[w] \in Seq(Range(Spelling[w]))

\* "<think>" and "</think>": the one does not end in what the other begins with.
ASSUME TagAssumption ==
  /\ OpenTag \in Seq(Range(OpenTag)) /\ CloseTag \in Seq(Range(CloseTag))
  /\ Len(OpenTag) = 2 /\ Len(CloseTag) = 2 /\ OpenTag # CloseTag
  /\ OpenTag[2] # CloseTag[1]
ASSUME BoundAssumption == {MaxPosted, MaxToggles} \subseteq Nat

VARIABLES
  phase, prompt, said, posted, remembered,  \* OllamaClient, see Generation
  thinking,  \* m_thinking_enabled in the configuration
  toggles,   \* how often it was changed
  enabled,   \* thinking_enabled of each task
  asOf,      \* how often the setting had been changed when each task was submitted
  inside,    \* is_inside_thinking_block of each task
  passed     \* what the callback of the desktop was called with, in order

client == <<phase, prompt, said, posted, remembered>>
filter == <<enabled, asOf, inside, passed>>
vars == <<client, thinking, toggles, filter>>

Client == INSTANCE Generation

Atom == (UNION {Range(Spelling[w]) : w \in Word \cup {Notice}})
          \cup Range(OpenTag) \cup Range(CloseTag)

TypeOK ==
  /\ Client!TypeOK
  /\ thinking \in BOOLEAN /\ toggles \in 0..MaxToggles
  /\ enabled \in [Task -> BOOLEAN] /\ inside \in [Task -> BOOLEAN]
  /\ asOf \in [Task -> 0..MaxToggles]
  /\ \A t \in Task : inside[t] => ~enabled[t] /\ phase[t] # "waiting"
  /\ passed \in Seq([task : Task, text : Seq(Atom), final : BOOLEAN])

Init ==
  /\ Client!Init
  /\ thinking \in BOOLEAN /\ toggles = 0
  /\ enabled = [t \in Task |-> FALSE] /\ inside = [t \in Task |-> FALSE]
  /\ asOf = [t \in Task |-> 0]
  /\ passed = <<>>

-----------------------------------------------------------------------------
(* The filter.                                                             *)

\* The atoms of a token, which may be a whole answer that is replayed.
Spelled(words) == FlattenSeq([i \in DOMAIN words |-> Spelling[words[i]]])

\* Where a tag stands in a text.
Places(tag, text) == {i \in 1..Len(text) - 1 : SubSeq(text, i, i + 1) = tag}

Found(tag, text) == Places(tag, text) # {}
First(tag, text) == CHOOSE i \in Places(tag, text) : \A j \in Places(tag, text) : i <= j
Before(tag, text) == SubSeq(text, 1, First(tag, text) - 1)
After(tag, text) == SubSeq(text, First(tag, text) + 2, Len(text))

\* The callback is not called with an empty text.
Call(text) == IF text = <<>> THEN <<>> ELSE <<text>>

\* Mutant: an open block is forgotten at the end of its token.
FilterForgetting(within, token) ==
  LET opens  == Found(OpenTag, token)
      before == IF opens THEN Call(Before(OpenTag, token)) ELSE <<>>
      rest   == IF opens THEN After(OpenTag, token) ELSE token
      closes == Found(CloseTag, rest)
  IN  [inside |-> FALSE,
       shown  |-> before \o (IF ~opens THEN Call(rest)
                             ELSE IF closes THEN Call(After(CloseTag, rest)) ELSE <<>>)]

\* One token, with the block open (within) or not: the texts that are passed on, and
\* whether the block is open afterwards.
Filter(within, token) ==
  LET opens  == Found(OpenTag, token)
      before == IF opens THEN Call(Before(OpenTag, token)) ELSE <<>>
      rest   == IF opens THEN After(OpenTag, token) ELSE token
      block  == within \/ opens
      closes == Found(CloseTag, rest)
  IN  [inside |-> block /\ ~closes,
       shown  |-> before \o (IF ~block THEN Call(rest)
                             ELSE IF closes THEN Call(After(CloseTag, rest)) ELSE <<>>)]

\* The token callback of RunCobaltTask
Relayed(t, within, token) ==
  IF enabled[t] THEN [inside |-> within, shown |-> <<token>>] ELSE Filter(within, token)

\* What the callback is called with for one event of the client; the final event is a
\* call of its own.
Callback(t, r, event) ==
  IF event.final THEN [r EXCEPT !.calls = Append(@, [task |-> t, text |-> <<>>, final |-> TRUE])]
  ELSE LET f == Relayed(t, r.inside, Spelled(event.text)) IN
       [inside |-> f.inside,
        calls  |-> r.calls \o [i \in DOMAIN f.shown |->
                                 [task |-> t, text |-> f.shown[i], final |-> FALSE]]]

\* What it is called with for some events, one after the other, and whether a block is
\* open after them.
Callbacks(t, events) ==
  FoldLeft(LAMBDA r, e : Callback(t, r, e), [inside |-> inside[t], calls |-> <<>>], events)

-----------------------------------------------------------------------------
\* InitializeGeneration
Submit(t, p) ==
  /\ Client!Submit(t, p)
  /\ enabled' = [enabled EXCEPT ![t] = thinking]
  /\ asOf' = [asOf EXCEPT ![t] = toggles]
  /\ UNCHANGED <<thinking, toggles, inside, passed>>

\* A step of the coroutine, with the callbacks it runs.
Work(t) ==
  /\ Client!Work(t)
  /\ Len(posted') <= MaxPosted
  /\ LET r == Callbacks(t, SubSeq(posted', Len(posted) + 1, Len(posted')))
     IN  /\ inside' = [inside EXCEPT ![t] = r.inside]
         /\ passed' = passed \o r.calls
  /\ UNCHANGED <<thinking, toggles, enabled, asOf>>

\* The settings dialog saves the other value.
Toggle ==
  /\ toggles < MaxToggles
  /\ toggles' = toggles + 1
  /\ thinking' = ~thinking
  /\ UNCHANGED <<client, filter>>

Next == Toggle \/ \E t \in Task : Work(t) \/ \E p \in Prompt : Submit(t, p)

Spec == Init /\ [][Next]_vars

-----------------------------------------------------------------------------
(* Properties.                                                             *)

\* What the client posted for t, token by token, and what the callback was given for t.
Tokens(t) ==
  FlattenSeq([i \in DOMAIN posted |-> IF posted[i].task = t /\ ~posted[i].final
                                      THEN <<Spelled(posted[i].text)>> ELSE <<>>])

Shown(t) ==
  FlattenSeq([i \in DOMAIN passed |-> IF passed[i].task = t THEN passed[i].text ELSE <<>>])

\* A block extends from a tag that opens it to the next one that closes it, or to the end.
InBlock(text, i) ==
  \E o \in Places(OpenTag, text) :
     o <= i /\ \A c \in Places(CloseTag, text) : o < c => i <= c + 1

Visible(text) ==
  FlattenSeq([i \in DOMAIN text |-> IF InBlock(text, i) THEN <<>> ELSE <<text[i]>>])

\* The answers the filter can follow: no tag is split over two tokens, no token opens two
\* blocks, and none opens one in which it is already.
Regular(tokens) ==
  \A k \in DOMAIN tokens :
     LET before == FlattenSeq(SubSeq(tokens, 1, k - 1))
         after  == before \o tokens[k]
         Moved(places) == {Len(before) + i : i \in places} IN
     /\ \A tag \in {OpenTag, CloseTag} :
           Places(tag, after) = Places(tag, before) \cup Moved(Places(tag, tokens[k]))
     /\ Cardinality(Places(OpenTag, tokens[k])) <= 1
     /\ Found(OpenTag, tokens[k]) => ~InBlock(before, Len(before) + 1)

\* An answer during which the setting was not changed is shown as the setting is, whatever
\* becomes of other generations and of the stream: with its blocks, or with nothing of
\* them and all of the rest, whether it is streamed, stopped or replayed.
ShownAsSet ==
  \A t \in Task : phase[t] # "idle" /\ asOf[t] = toggles /\ Regular(Tokens(t)) =>
     Shown(t) = IF thinking THEN FlattenSeq(Tokens(t)) ELSE Visible(FlattenSeq(Tokens(t)))

\* "The setting is applied to active response streams without requiring an application
\* restart" (README.md:543): what is passed on of an answer the filter can follow opens
\* no block while blocks are to be filtered.
FilterOfActiveStreams ==
  [][\A t \in Task : ~thinking /\ Regular(Tokens(t))' =>
        \A i \in Len(passed) + 1..Len(passed') :
           passed'[i].task = t => ~Found(OpenTag, passed'[i].text)]_vars
=============================================================================
