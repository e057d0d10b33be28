# Malama in TLA+

Malama is a desktop chat client for a local Ollama server: a wxWidgets window,
one network thread that runs C++ coroutines, and an SQLite file.  These modules
model the parts of it that keep state which several actors share, TLC checks
them on small instances, and TLAPS proves what matters most for every instance.

Source paths below are relative to the repository; `PROJECT.json` maps every
definition to the lines it stands for, lists the runs, the findings and the
hazards of the code, and names the theorems.

## 1. The system

Two threads run.  The **UI thread** runs one wxWidgets handler at a time; a
popup menu or a modal dialog runs a nested event loop inside a handler.  The
**worker thread** runs the `io_context` of `OllamaClient`; coroutines on it take
turns only at their awaits.  The two meet in three places: `InitializeGeneration`
posts a coroutine to the worker, the worker queues token events for `wxTheApp`,
and the static `ImageTransit` slot is written and emptied.

| Component | State it keeps | Operations | Talks to |
|---|---|---|---|
| `OllamaClient` (`network/ollama_client`) | busy flag, cancellation flag, residual line, answer cache with its eviction list | a generation (`ExecuteStreamTask`), cancel, destroy | server (sockets); callbacks into `StreamWorker` |
| `StreamWorker` (`network/stream_worker`) | the token callback | `InitializeGeneration`, `RunCobaltTask`, filter of `<think>` blocks | client, `ImageTransit`, configuration, event queue of `wxTheApp` |
| `ImageTransit` (`network/base64.hpp`) | one static list of images | set, move out | chat panel, worker |
| `HistoryManager` (`engine/storage`) | SQLite handle; tables `sessions`, `messages`; a mutex | create, delete, rename, parameters, pin, append, star, list, load | frame, sidebar |
| `AttachmentManager` (`engine/storage`) | pending attachments | analyse, remove, clear | chat panel, document parsers |
| `ChatPanel` (`ui`) | open session, streaming answer, last prompt, tray, spinner | send, attach, append token, append prompt, load | frame (events), attachments, transit |
| `SidebarPanel` (`ui`) | copy of the session list, selected row | list, select, new chat, context menu (pin, rename, delete) | history, frame (events) |
| `MainFrame` and `main.cpp` | current session, current parameters | route prompts, tokens, final events, sessions; startup | everything |
| `ConfigManager`, `SettingsDialog` | configuration and its file, observers, a mutex; controls and a local copy | load, save, update, observe; fill, edit, refresh | read by worker, `main.cpp`, frame, rendering |
| `TokenEstimator`, budget bar, error banner | displayed numbers and alerts | estimate, show, hide | chat panel |
| Session parameters dialog | sliders | edit parameters | frame, panel, history |
| Markdown pipeline (`engine/markdown`) | two static caches of decorated fragments; nine grammars | `process`: split, arrange, decorate; the links of a block of code | called by the chat panel for every token |
| Parsers, export, icon lookup, validator | none | pure conversions and file I/O | |

What is hard in this code, and what makes each part correct:

* **Client.**  Prompts can be submitted while an answer streams, and nothing but
  an atomic flag keeps two coroutines from sharing the residual line and the
  cancellation flag.  Reads cut lines anywhere, connections fail at each of five
  awaits, and the cache relies on a miss seen many awaits earlier.  The client has a
  method with which another thread can cancel a generation (`ollama_client.cpp:49`);
  nothing calls it.  It is correct if one task streams at a time, no text
  is lost or crosses from one answer to another, the cache is consistent and
  replays only whole answers to the same request, and each prompt gets one final
  event.
* **Worker.**  Think blocks are filtered token by token, across tokens that are
  streamed, cut off or replayed in one piece, with a setting that the user may
  change meanwhile.  It is correct if an answer is shown as the setting is: with its
  blocks, or without any part of them and with all of the rest.
* **History.**  Calls run several statements without a transaction and drop every
  result code; a load that fails halfway gives what it has read.  It is correct if a
  transcript only grows at its end, what is loaded is a beginning of it, whatever
  fails, and the startup opens what was used last.
* **Desktop.**  The open session is kept twice, the list of sessions is copied
  into the sidebar, token events carry no session, events are handled while
  a menu or dialog is open, and the window goes on as if every statement of the
  history had succeeded.  It is correct if these copies agree, each token is
  shown once, and what is stored is what was shown.
* **Attachments.**  A prompt and its images go different ways; chips capture
  indices; files change on disk.  It is correct if the limits hold, a chip
  removes the file it names, and images go to the model once, with the prompt
  they were attached to.
* **Budget.**  The bar and the banner are numbers that a dozen handlers have to
  update by hand, and what is sent is put together otherwise than what is
  counted.  It is correct if the bar shows what the panel holds, the banner
  follows the bar, and a request carries no more than the bar counted.
* **Rendering.**  The whole transcript is one text that is split, arranged and
  decorated again after every token, and tokens break lines and fences anywhere.
  Fragments are found again in caches that outlive changes of colours.  A block of
  code is scanned with regular expressions that overlap and may match nothing, what
  is found is escaped and laid out by replacing one text by another, and the code
  itself travels in the links that copy and save it.  It is correct if the page is
  what the text and the colours say, no text is lost, code keeps its lines and its
  language, what is finished stays, a conversation looks the same when it is loaded
  again, and a block of code is shown as it is, coloured by whole strings and
  comments, and copied byte by byte.
* **Settings and parameters.**  Parameters exist in five places (database, frame,
  panel, dialog, the request), settings in four (file, configuration, dialog,
  whoever copied them), and prompts are handled while a dialog is open.  It is
  correct if the copies agree, saving changes what was edited and nothing else,
  and a failed or damaged file costs at most what it held.

## 2. Modules

    Generation  <--implements--  OllamaClient        (network contract, client)
    Transcripts <--implements--  HistoryManager      (history contract, database)
    Desktop     uses Generation and Transcripts as its environment
    StreamWorker uses Generation as its environment   (filter of think blocks)
    Attachments stands alone (shares only InitializeGeneration with Desktop)
    Budget      stands alone (the panel of Desktop, as far as it is counted)
    Rendering   EXTENDS Markdown                     (panel text and caches; splitter)
    CodeBlock   stands alone                         (what a code fragment is made into)
    Settings    stands alone (shares sessions and prompts with Desktop)

The desktop is checked over the two contracts, not over the client and the
database themselves; the refinements say that both keep their contract.  The
contracts are where the layers meet, and are what keeps the state spaces apart.

**`OllamaClient`** - the coroutine of `stream_worker.cpp` and `ollama_client.cpp`.
`pc[t]` names the await, or the synchronous loop, at which task `t` is; an action is
what the worker thread does from one await to the next (`Refuse`, `Replay`, `Begin`,
`Resolve`, `Connect`, `Write`, `ReadHeader`, `ReadSome`, and the two loops
`ParseLine`/`ParseEnd` and `Interrupt`/`End`/`ReadOn`, which are split so that the
other thread can run in between: `m_cancellation_requested` is read there).
`Submit`, `Cancel` and `Close` are the UI thread; `Cancel` is what
`TriggerActiveGenerationCancellation` does whoever calls it, although the window, as
it is, never does.  A line of the body is two bytes, its text and its newline, so
that a read can end in the middle of a line.  `Connect`, `Write` and `ReadHeader`
ignore their errors, as the code does: a failed connection is a task whose later
operations fail (`link[t]`).  `Cancel` closes a socket no task uses (`m_socket`, not
the `tcp_stream` of the task), so it only sets the flag.

**`Generation`** - the contract: a submitted task waits; it is refused, replayed
or begun; at most one streams; it says words, says the notice, or remembers what
it said; it settles with one final event.

**`StreamWorker`** - between the contract `Generation` and the callback of the
desktop: every step of the client is a step here, and the events it posts go
through `Callback`, where each task keeps whether it is inside of a think block.
A token is spelled as a sequence of atoms and a tag is two of them, so that a tag
can be split over two tokens or stand in the middle of one.  `Submit` reads the
setting, `Toggle` is the settings dialog that changes it at any time; `asOf`, a
history variable, is how often it had been changed when a prompt was submitted.

**`HistoryManager`** - one action per operation; `AppendMessage` runs two statements
and is two actions, `AppendMessage` and `TouchSession`, because the process may be
killed in between (`calling` keeps the mutex).  `Statement(ok)` is where a statement
fails unnoticed.  `DeleteSession` leaves message rows, as SQLite does without
`PRAGMA foreign_keys`.  `UpdateSessionTitle` and `UpdateSessionParameters` differ
only in columns that are left out and are one action.  `LoadSession` orders by whole
seconds with ties in order of insertion: a message stands at the place that counts
the rows `Earlier` than its own.  It gives `NullOpt` of a session without a row, or
with a database that cannot be used; if a statement of it fails it gives nothing, or
the messages read so far.

**`Transcripts`** - the contract: sessions appear empty under new identifiers,
grow by one message at the end, and are deleted whole.

**`Attachments`** - `AnalyzeAndAdd` (as `Acceptable`, `Queue`, one `Analyze` per
file of the dialog), the tray with the index each chip captured, `Send`, the
event queue, the static image slot and `InitializeGeneration`.  Files change
between being attached and being sent (`Change`).  Images on their way are a
`Gallery`: a function from the place each had in the tray to what was read, so
that an image that is lost, repeated or moved shows.

**`Desktop`** - one action per handler: `Send`, `NewChat`, `SelectSession`,
`CancelGeneration` (which takes a label off the window, as the code does, and stops
nothing), the menu (`OpenMenu`, `Dismiss`, `TogglePin`, `Rename`,
`DeleteChat`), the queued events (`HandlePrompt`, `DropPrompt`, `HandleToken`,
`HandleFinal`), the network (`Work`) and `Restart`.  While a menu or its dialog
is open the window does not react but queued events are handled; that is what
makes the captured row stale.  A text is a sequence of atoms, so that "begins
with" - the test by which `append_user_message` recognises a repeated prompt -
is the prefix relation.  Times of last use are the relation `later` between
sessions: `Touch` makes a session later than all others but those that were used
within the same second, and sessions that are not ordered come in any order, as
`std::sort` leaves them.  `meant` is a history variable, the session an open menu
was opened on.  The statements a handler runs may fail (`Statements`): a session whose
row was not inserted may be the open one (`unsaved`), a row of a message may be lost, a
menu's choice may have no effect, a load may give a part (`LoadSession`) or nothing
(`LoadNothing`), which leaves the frame with the new session and the panel with the old
one, or with none at startup; `loaded.failed` remembers it.  It is assumed that the
list of sessions can be read and that the database was opened.

**`Budget`** - the numbers of the bar and the banner, against the panel's messages,
open answer, typed text, attachments and parameters.  The size of a text is the
length of a sequence of atoms.  Each handler of the panel and of the frame that
changes what is estimated is an action with the update it makes, or does not make,
and `OpenAttach` and `FinishAttach` are the two sides of a dialog in which tokens
and prompts are handled; opening it hides the banner, and `CancelAttach` returns
without an update, so that a banner which was shown stays away until the next one.
`RequestTokens` is what `main.cpp` sends.

**`Markdown`** - `tokenize` and `emit` as functions of a text.  A text is a
sequence of *pieces*: the marks the splitter looks for (fence, heading, dashes,
bullet, number, pipe), the end of a line, the blank that joins lines, and words.
A property of the splitter can only depend on where marks and line ends are, so
words are values.  The tokenizer's state is a record (`tokens`, `buffer`,
`language`, `inside`) folded over the lines, as in the code; the six levels of
headings are one mark, the two bullets too.

**`Rendering`** - the chat panel's text (`append_token`, `append_user_message`,
`load_history`), `render_chat_stream`, and the two `FragmentCache`s with their
table and order list.  A fragment is what it is made from, so that a wrong hit
shows.  The 64-bit hash is modelled as its input, the sequence of what is hashed
without separators: two keys collide when their inputs do, while collisions of
the hash function itself are left out.  The two greetings of a panel, that of a fresh
one and that of one which was loaded, are two words.  `Histories` are any sessions,
those that end with a prompt too.  `Stored` has the heading of a message of the system,
although the application stores none.

**`CodeBlock`** - `decorate_code_block` with the nine grammars of
`syntax_registry.cpp`, and the links of a block of code.  A grammar is data: rules,
each a set of alternatives, an alternative a sequence of *parts*, a part the items of
its regular expression and what the format string puts for it (the group between two
marks, the text itself, one blank, or nothing).  Atoms are characters or whole words,
so that `\b` is the edge of an atom; the words of a keyword rule are a constant, and
the operators among the keywords, which match only where two words meet, change a
colour and nothing else and are left out.  `Highlight` is one turn of the scan,
`Format` the replacements that escape the text, lay it out and turn marks into tags,
`Encode` and `TakeCode` the two ends of a link.

**`Settings`** - the configuration with its file (`WriteFile` may fail halfway,
`Damage` is another program), the settings dialog with its controls, its local
copy and its deferred end (saving writes colours and numbers back in the form the
controls have, which is that of the configuration: `settings_dialog.cpp:383-400`, the
identity here), the parameters dialog, the copies of the parameters in
frame, panel and table, and the prompts in the event queue.  A user edits each
control once per dialog.  The database works here; `HistoryManager` has its
faults.  Parameters are one number, the temperature in hundredths, because it is
the one whose conversion to and from its slider is not the identity.

Modules named `MC...` give the constants their values for TLC, modules named
`...Proofs` hold the theorems.  Definitions commented as *mutant* are plausible
mistakes in the definition that follows them; no specification uses them.  Each
shows that a property can fail.

## 3. Runs

| Run | Shows | Bounds |
|---|---|---|
| `client` | one stream, residual line, cache, replays, the contract `Generation`; every submission settles unless the client is closed | 2 tasks, 2 prompts, cache of 1, answers of 1 or 2 lines in 3 shapes, 2 cancellations, closed at any point, fair worker, network and server; about 243,000 states |
| `worker` | an answer is shown as the setting is, if that was not changed meanwhile | 2 tasks, 6 tokens with and without whole and half tags, 5 events, 1 change of the setting; about 863,000 states |
| `worker_active_streams` (violated) | a change of the setting does not reach running answers | as above |
| `history` | loads and the contract `Transcripts` under failures and crashes | 2 sessions, 3 messages, 2 seconds, 1 fault; about 110,000 states |
| `attachments` | limits, chips, images whole and unmixed | an image and a document, 4 contents, 2 prompts, 2 per tray, 1 outside change; about 186,000 states |
| `desktop` | copies of the session agree, list in step, tokens shown once and in order | 2 tasks, 2 sessions, 2 sends with a document or images alone, 2 token events, 1 restart, 1 fault; about 909,000 states |
| `desktop_considerate` | saved = shown, context = transcript, answers in place | 3 sends, 4 token events, 1 crash; the user waits for each answer; about 2,267,000 states |
| `budget` | the bar in step, the banner with the bar, requests within what was counted | 3 prompts (one begins another, one is empty), an image and a document, 1 per tray, 2 prompts queued, 3 messages, 3 sets of parameters; about 709,000 states |
| `rendering` | page, caches, lists, text, code, reloading, stability | 2 themes, caches of 2, 2 tokens since loading, 3 messages, sessions that end with an answer and with prompts; about 11,700 states |
| `code_blocks` | code shown whole, literals whole, code copied whole, the scan ends | all texts of up to 4 atoms over 5 to 9 atoms for each of 10 languages, and longer ones written out; about 191,000 states |
| `settings` | copies of the parameters, edits, file | 2 endpoints, models, looks and sessions, 2 dialogs, 2 prompts, 1 fault; about 673,000 states |
| `settings_endpoint` (violated) | a saved endpoint is not used | as above |

Why the bounds are enough.  Client: two tasks are one that streams and one that is
refused, that waits, or that finds the cache as the first left it; more of them the
theorems cover, there being one for each property of the run but the liveness; a
cache of one entry evicts at the second answer; two lines make reads that end inside
a line, between lines and after both, and a line that never ends stays behind.
History: three messages fill one session, or two of them the one whose rows survive
deletion and one the other; one fault hits each statement, each opening and each gap
between two statements once, and the properties that speak of fault-free behaviours
speak of all of them; two seconds give equal and different timestamps.  Attachments:
two per tray make the index of a chip shift, two prompts make the slot be
overwritten.  Desktop: two sessions are needed to be in the wrong one; of two tasks
one can be refused while the other streams; one fault hits each statement of each
handler once, and the theorems say the same of any number; the view of the run
leaves out `asked`, which is only recorded.  Budget: one prompt begins another, so
that a repetition is met with and without an open answer; two queued prompts are one
whose text was counted and one that finds the panel changed; the three limits are
one that is never, one that is soon reached and the one assumed for none.  Worker:
five events open a block in one token, leave it in another, and replay the whole in
the second task; the two half tags make answers that the property excludes, with the
other task's, which it does not.  Rendering: the tokens and prompts of `MCRendering`
are chosen to end in the middle of a line, a fence, a list and a table; three
messages are a prompt, its answer and the next prompt; with caches of two each page
evicts.  Each stored session has code and headings enough to fill both caches, so
that what was in them before is gone.  Code: four atoms are a literal that opens,
what stands in it and what closes it, or two of them that overlap; rules that need
more (an include, a scope, a class, three quotes) are met by the texts written out.
Settings: two of everything that can be changed; two dialogs are one of each kind,
or one after the other's effect; one fault hits each write, or the file between two
runs of the program.  Each bound on a counter is a named constant (`MaxCancels`,
`MaxClock`, `MaxFaults`, `MaxSelected`, `MaxEdits`, `MaxSends`, `MaxPosted`,
`MaxRestarts`, `MaxReceived`, `MaxMessages`, `MaxDialogs`, `MaxPrompts`,
`MaxToggles`, `MaxSubmitted`, `MaxStream`); `MaxEntries`, `MaxCount`, `MaxTokens`,
`MaxPending` and the size limits are the code's own.

Symmetry is used where the identifiers are interchangeable and the properties are
safety properties or step properties over symmetric operators; the run `client`,
which has the liveness, uses none.

Deadlock is checked for the history, the rendering, the settings and the budget,
where something can always happen (the process can be closed and opened, colours
can be changed, a session can be opened).  The other systems come to rest: once
their tasks, prompts and sends are used up, or the block of code was taken, nothing
has to happen.

### What `desktop_considerate` assumes

`Considerate` restricts the *user*: nothing is clicked, sent or selected until no
prompt, task or token event is left, and no prompt begins the one before it. Its
drafts carry no attachments, and no statement fails.  The three properties of that
run fail without this restriction, in the ways the hazards list: an answer is stored
in the session that is open when it ends, a refused prompt's final event stores half
of the running answer, a repeated prompt is dropped from the panel but stored.  The
run says that the bookkeeping is right when nothing overlaps, including crashes at
any point and sessions created, selected, pinned, renamed and deleted in between.

### Fairness

`LiveSpec` assumes three things.  *Worker*: a thread in `io_context::run` starts
posted coroutines and does not stop inside synchronous code.  *System*: lookups,
connection attempts and writes end, by the operating system's own limits, and a
read on a connection known to be lost fails.  *Server*: a read on a working
connection ends, because the server sends or closes.  The third is no property
of this program: `constants.hpp:67-71` declares timeouts, but none is armed, so
that without it a generation, its spinner and the busy flag can hang for ever.

### What `ReplayAnswersSameRequest` assumes

The cache key hashes model, prompt and history, but of the images only their
number.  The run's requests carry no images, and the theorem about it assumes that
different requests have different keys.  Requests that differ in their images
alone break it, as the next section lists.

### What `SessionsAgree` leaves open

When `LoadSession` gives nothing, `main_frame.cpp:258-263` and `:360-367` have set the
frame's session already, and the panel keeps the one before: prompts then go to one
session while another is shown.  When `CreateSession` fails, frame and panel agree on
a session without a row, whose messages are rows that no load ever returns.
`SessionsAgree` states what holds nevertheless, with both cases as its exceptions; it
would be false without them, and the run reaches them.

### What `ShownAsSet` assumes

An answer during which the setting was changed is judged by nothing: what becomes of
it is the finding `worker_active_streams`.  Of the others the property speaks if they
are `Regular`: each tag is whole in one token, no token opens two blocks, and
none opens one inside of another.  The run contains the other answers too; for
them the property says nothing, and the next section lists what happens.  Of the
tags the theorem assumes that they differ and that the first does not end in what
the second begins with (`TagAssumption`), as `<think>` and `</think>` do not: a tag
that begins within another one would be found in what is left of the token.

### Findings

Two of the runs are counterexamples to a statement in the repository; each quotes
it in `PROJECT.json`.  In short:

* requests go to the endpoint that was configured when the program started, until the
  next start (`settings_endpoint`);
* a setting of the think blocks does not reach the answers that are streaming
  (`worker_active_streams`).

The models show further disagreements for which no run is kept:

* `README.md:143` and the alert at `chat_panel.cpp:344` name a limit of 4 MB for images
  and documents; the limit of a PDF is 6 MB (`attachment_manager.cpp:26`, `:78`), so
  that one of 5 MB is attached (`Attachments`, `Acceptable`; `MaxPdfSize` is the limit
  of the code).
* Images sent without a text are staged in the static slot (`chat_panel.cpp:475`) while
  their prompt is dropped as empty (`main_frame.cpp:543-545`): they go with the next
  prompt, although the tooltip (`chat_panel.cpp:126`) attaches them to the current one
  (`Attachments`, `Send` and `HandlePrompt`; `ImagesOfOnePrompt` says that they stay
  whole and unmixed).
* The spinner's tooltip (`chat_panel.cpp:129`) and the notification after a click on it
  (`:308`) say that the generation is interrupted; the click clears a label
  (`main_frame.cpp:351-356`), and the answer goes on (`Desktop`, `CancelGeneration`).
* A block of code in HTML is shown empty: the first pattern of its grammar is `()`,
  despite the comment on it (`syntax_registry.cpp:199-200`), matches nothing at every
  place, and for such a match the scan steps over a character without appending it
  (`pipeline.cpp:498`; `CodeBlock`, `Html` and `Advanced`).  Its links still copy it.
* If the list of sessions cannot be read while a menu is open, the list shrinks under
  the row that the menu captured (`sidebar_panel.cpp:239`).
* Opening the parameters dialog and confirming it without a change lowers some
  temperatures by a hundredth (`session_params_dlg.cpp:56`; `Settings`, `Position`).
* `ollama_client.cpp:177` speaks of hashing the full conversation, but the key
  counts images instead of identifying them (`:184-187`): a request with other
  images, but as many, is answered from the cache.
* The sidebar's menu captures an index (`sidebar_panel.cpp:239`); when an answer
  ends while the menu or its dialog is open, the list is rebuilt in another order,
  and "delete this session" (`:278-283`) is about another one.
* A tag split over two tokens passes the filter of think blocks, of two blocks in
  one token (an answer that is replayed is one token) the second is shown, and the
  notice of a stop inside of a block is swallowed with it.
* The alert of a rejected or unreadable file is hidden by the update at the end of
  the handler that shows it (`chat_panel.cpp:376`, `:486`).
* The bar counts neither images nor, before sending, the second copy of a prompt
  with a document, which the panel enters twice; it shows a limit of 4096 until
  the first update; and a repeated prompt leaves it behind by the overhead of one
  message (`chat_panel.cpp:257`).
* The patterns of calls and of classes drop the white space they match, so that a line
  break before a bracket, or between `class` and its name, is not shown
  (`CodeBlock`, `Call`, `Definition`; the properties of the runs compare what is left
  without white space).
* The banner that a dialog hides stays away if the dialog is cancelled, although the
  budget is still overrun (`chat_panel.cpp:313`, `:323-325`; `Budget`, `CancelAttach`).
* The declared timeouts are never armed (above).
* The schema declares a cascade that no connection enables, so that messages
  outlive their session (`HistoryManager`, `DeleteSession`).
* The answer is stored in whatever session is open when it ends (`Desktop`,
  `HandleFinal`).
* Dividers are recognized and never emitted, the tokenizer's buffer being empty
  then (`Markdown`, `PushBuffer`).
* The page keeps its colours until something is rendered (`main_frame.cpp:399`;
  `Rendering`, `SaveAppearance`).

## 4. Theorems

All proofs are for arbitrary values of the constants under the modules' named
assumptions.

**`OllamaClientProofs`**.  The invariant `Inductive` is `TypeOK`, `Prompted` (a
spawned task has a prompt), `QueueMatches` (the executor's queue holds each
unstarted task once), `StreamOwnership`, `StreamMissed` and `CacheConsistent`.
`StreamMissed` is the reason `CacheConsistent` is inductive: `UpdateCache`
appends its key to the eviction list without looking, and that is right only
because the key was missed before the first await and *no other task can have
added it since* - which needs `StreamOwnership`.  `QueueMatches` is needed so
that a task which starts is one that has not run.
From it: `TypeCorrect`, `OneStreamAtATime`, `CacheStaysConsistent`, and, action
by action, `ClientImplementsContract`: `Spec => Contract!Spec`, where a task's
phase is read off its `pc` and the remembered answers off the cache.

A second invariant, `Remembered`, is proved on top of it: nothing is posted for a
task before it starts, a stop is announced by the step that ends the stream, and
`CacheGenuine`, what is cached was said by a stream that ended unstopped.  The
second part is what makes the third inductive: the step that caches is the one
that ends the stream, so no stop can be announced afterwards.  From it:
`CacheStaysGenuine` and, if keys tell requests apart, `ReplaysAnswerTheirRequest`.

A third one is about the bytes: `AllReading` says of each task, at each of its awaits
and in its loops, how the residual line, the answer so far and the lines that wait to
be parsed divide what was received of the body.  It is proved by the number of bytes
received: one byte more either ends a line or makes the unfinished one longer.  From
it: `ResidualIsTheStreams`.

**`StreamWorkerProofs`**.  The first part is about the contract `Generation` alone,
the `Client` of this module: at most one task streams (`ContractOneStream`); a task's
final event is its last, and it is there exactly when the task is settled
(`ContractFinalIsLast`).  With the refinement these hold of the client too.

The second part is about the filter.  Its invariant is `Follows`: the contract, the
types, nothing told of a task that has not begun, and `Followed` of every task,
which says of a regular answer that what was shown is the visible part of what was
posted *and* that `inside` tells whether a block is open behind its last atom.  The
second half is what makes the first inductive.  One more token is dealt with in
three steps.  On the text: where no tag is split, the blocks of the longer text are
those of the text, the one that is open continued up to the first closing tag, and
the one that the token opens (`BlocksOfMore`), so that of the token everything is
visible but one interval (`CutWithoutOpening`, `CutWithOpening`, `VisibleOfMore`).
On the filter: what it passes on is the token without that interval (`FilterShape`,
`FollowedOfMore`).  On the calls: the callback tells of its task these texts, and of
other tasks nothing (`ShownOfTwo`, `ToldOfMore`).  A step of the client posts up to
two events, over which `Callback` is folded: `CallbacksRun` turns the fold into the
sequence of its intermediate results and `WorkTold` follows them event by event.  A
task whose setting is not that of the present was submitted before the last change
(`asOf`).  From it: `TypeCorrect`, `AnswersShownAsSet`.

**`HistoryManagerProofs`**.  `IInv` is `TypeOK`, `RowsGenuine` (rows name generated
sessions and are not from the future), `UsableUnlessFault` (no fault, then the
database is open) and `Abreast` (without a fault only the session whose
`AppendMessage` is between its statements has a message newer than its last use).
`StartupOpensLatest` is not inductive: it speaks of the session that is opened
first, and a deletion or an unpinning makes another one first; `Abreast` says it of
all of them.  From it: `TypeCorrect` and `StartupIsLatest`.  `LoadedStaysBeginning`
rests on the refinement's lemmas: what was a beginning of a transcript remains one,
because a transcript only grows at its end.

`HistoryIsTranscripts` is the refinement `Spec => TranscriptSpec`, action by action.
What it rests on is that a row which is added last has the greatest place
(`TimesAscend`: the clock does not run backwards, and equal seconds keep the order of
insertion), that each place up to the number of rows is taken once
(`EveryPlaceTaken`), and that no operation changes the order of another session's rows
(the places of a session depend on its own rows).  `RowsGenuine` is why a session that
is created starts empty although `DeleteSession` leaves rows: their identifiers were
generated before.

**`SettingsProofs`**.  `IInv` is `TypeOK`, `PromptsCounted` (the queue holds
prompts that were sent), `ParametersInv` (`ParametersAgree`, and the open session
is in the table: without that a confirmed parameter would go nowhere) and
`SettingsInv`: `SettingsSurvive`; `LookInv`, which allows the window to lag only
while the dialog is closing; and `FormGenuine`, which says that the controls that
were not edited show the configuration and that the local copy still has its look,
since a refresh takes the look from there.  From it: `TypeCorrect`,
`ParametersAlwaysAgree`, `SettingsPersist`, `LookFollowsConfig`, and the action
properties `RequestsCarryParameters` and `OnlyEditsAreSaved`.

**`AttachmentsProofs`**.  `Inductive` is `TypeOK`, `BudgetKept`,
`ChipRemovesItsFile`, `StagedUnderItsName` (what was
staged for a prompt bears its name), `TransitUntaken` (the slot is empty, or holds
all that was staged for one prompt and no request has yet) and `ImagesOfOnePrompt`.
`TransitUntaken` is what the slot has to promise to the next request, and
`StagedUnderItsName` is why the images of two prompts are never the same.  From it:
`TypeCorrect`, `BudgetAlwaysKept`, `ChipsRemoveTheirFiles`, `ImagesAreOfOnePrompt`.
The budget is a sum over the tray: lemmas say what `SumFunction` of one file more or
one file less is.

**`DesktopProofs`**.  `Inductive` is `Shape` (as much of the types as the argument
needs), `SessionsAgree`, `SidebarInStep` and `RowNeedsSession`: a row is selected,
and a menu open, only while some session is.  All of it holds whatever statements
fail: a prompt whose session gets no row keeps `SessionsAgree` because the session
is `unsaved`, and the list in step because it is read again from the same table.
The last part is why a prompt that creates a session, and so rebuilds the list with
one more row, never does so under an open menu; an answer that ends under one
rebuilds the list for the same sessions, so that the captured row stays in it -
`PopulateLists` and `ListingLength` count the rows.  From it: `OpenSessionAgreed`,
`SidebarStaysInStep`.

`Telling` is about texts.  It needs the contract of the network layer, that final
events carry no text (`NetworkHolds`, from `StreamWorkerProofs`), the types of what is
stored and shown, and `Told`: the counters of `loaded` lie within the messages and the
events they count, and `NoTokenLostOrRepeated`.  Each handler keeps it because of what
it does to what is *heard*, the closed messages of the assistant followed by the open
stream: closing the stream moves words from one to the other (`FlushTells`), a message
of the user is not heard (`UserMessageTells`), a token is heard last (`TokenTells`),
and a panel that was loaded starts anew.  From it: `TypeCorrect`, `TokensShownOnce`.

`Conversing` is about a user who waits for each answer (`Considerate`) and attaches
nothing (`PlainDrafts`), before any statement has failed; the first two are hypotheses
of its theorems, and parameters of the run `desktop_considerate`, which has both; the
third is a condition of the properties.  The three properties are not inductive,
since they speak of moments at which nothing is under way; `Orderly` says what is under
way otherwise.  The window is at `Rest`, where what is stored is what is shown; or a
prompt is `Queued`, shown but not yet stored; or one task is `Running`, its prompt is
the last message both stored and shown, and the stream holds what it has said as far as
that was delivered.  Only the final event of that task leads back to `Rest`, because a
task that has settled has posted one (`RunningIsBusy`), and it stores the stream, which
by then is the whole answer.  `Accounted` (tasks were asked in sessions that were
created) and `LogsGrow` keep the answers that were stored before.  From it:
`SavedAsShown`, `ContextsAreTranscripts`, `AnswersStayInTheirSessions`.

**`BudgetProofs`**.  `AlertJustified`, the alert is shown only while the bar is at
its limit, is inductive, whatever the estimate computes; with it every step is a
`BannerStep`.  From it: `AlertIsJustified`, `BannerFollowsBar`.  `Inductive` is `TypeOK`
and `BarInStep`, and needs what the estimate is of one message, one token or one
attachment more, the sums being folds.  With it a request that is sent as it is shown
carries no more than the bar counts (`RequestCounted`).  From both: `TypeCorrect`,
`BarStaysInStep`, `OverrunIsAnnounced`.

**`RenderingProofs`**.  `ShowingInvariant` says of the page that it is drawn from the
elements of its text, each fragment as it would be decorated anew, and of each cache
that it is `Sound` and ends with what the page has used last (`Recent`).  `Sound` is
`InOrder` (table and order list hold the same keys, each once, at most `MaxEntries`)
and `Genuine`: each entry is what its key is made from.  `Genuine` is worth something
only because a key tells what it is made from (`KeyTells`), although its parts are
joined without a separator: the text of a block of code ends with the line break of
its last line and a language has none, so that the last line break of a key is where
the code ends (`Separated`).  That this is so for the elements of *every* text is
`ElementsType`, which follows the tokenizer line by line (in a block of code the
buffer holds whole lines: `Reading`) and emit token by token (`Emitting`: at most one
of the two list flags is set, and the list it stands for is the one that is open in
what was emitted); the same lemma says that the lists are balanced.  `Recent` is kept
because the use of a key does the same to the order list as to the list of keys used,
as far as the order list reaches (`Moves`, `Placed`, `RecentKept`).  From it:
`TypeCorrect`, `CachesStayConsistent`, `PagesAreGenuine`, `ListsStayBalanced`.  Keys are
the sequences that are hashed: collisions of the hash itself are left out.

`CodeStaysVerbatim` adds what the tokenizer has read of code after each line
(`CodeRead`): a block is open exactly when the number of fences so far is odd, the
buffer and the language of the state are then those of the block, and the code tokens so
far are the blocks that have ended.  The flags of emit do not matter to it: what is read
off the elements can be read off the tokens they come from (`EmitShows`), provided it
is nothing for the marks of lists, the same for a token and its own element, and for a
table what it is for the rows (`Agree`).

`TextStaysKept` rests on the same lemma and on what of the words has been read
(`InkRead`): after each line, those of the tokens and then those of the buffer are the
words of the lines so far, and a row of a table is in the buffer only inside a block of
code.  For a table, `Agree` needs that its rows are of one length (`Rectangular`), and
for the last line, that no block with a row in it is left open: the two cases `TextKept`
leaves out.  That marks are no words is `MarkAssumption`: `Words` stands for the runs of
characters that have none.

Folds, sums and concatenations are dealt with by induction over the numbers as a
*set*: `Induction` says that a set of numbers which contains zero, and with each number
the next one, contains all of them.  Unlike the induction theorems of the library it has
no operator as a parameter; it follows from the well-ordering of the numbers.

Proved and not model-checked: the type invariants of `Attachments`, `StreamWorker` and
`Budget`, `StartupOpensLatest`, `LookApplied`, and what the theorems say of the
contract and the banner on their own.

Only model-checked: liveness (under fairness, outside the prover's reach); of
`Rendering` what compares a page with another page (`ReloadLooksTheSame`,
`SettledStays`): both compare two runs of the splitter; and `CodeBlock`, whose
grammars are tables: that the scan stays in step with strings and comments is a fact
about each of them, which TLC looks up.

## 5. Not modelled

* HTTP framing below "some bytes of the body arrived".
* Metrics label; painting of the budget bar; export; the clipboard and the file that
  a block of code is copied or saved to, and copying a whole answer.
* The list of sessions that cannot be read (`LoadAllMetadata`), for the desktop; a
  history that cannot be opened, for the desktop (`HistoryManager` has the latter).
* Parameters other than the temperature: what `README.md:128-136` and `:276` promise of
  the size of the context is not covered.
* Alerts of the banner other than the one of the budget: each is hidden again by
  the handler that shows it.  `ContextBar`, which is constructed nowhere.
* Emphasis inside a line, document parsers, base64:
  conversions without state.  `Attachments` takes from a file whether it parses
  and how long its text is.
* The restart of the server that saving another model starts
  (`settings_dialog.cpp:412-419`): for the client it is a connection that fails,
  which `OllamaClient` has.
* Destruction order of the window and the client at exit, wxWidgets itself,
  SQLite below the level of a statement, more than one process on one database
  (other than as statements that fail).
* The clock being set back.

## 6. What is left

In the order of what it would add:

1. A proof that what is settled of a page stays (`SettledStays`).
2. Liveness of `Desktop`: the spinner stops, and every stored prompt is answered or
   the process ends, given the liveness of the client.
3. The size of the context that a request asks for, and its other parameters.
4. The export of a session.
