-------------------------------- MODULE Desktop --------------------------------
(***************************************************************************)
(* The desktop application: MainFrame, ChatPanel and SidebarPanel (ui/),   *)
(* and the glue of main.cpp, over the contracts of the network layer       *)
(* (Generation) and of the chat history (Transcripts).                     *)
(*                                                                         *)
(* The UI thread runs one handler at a time.  Prompts wait in the event    *)
(* queue of the chat panel, token events in that of wxTheApp, and the      *)
(* order between the two queues is open.  A popup menu or a dialog runs an *)
(* event loop of its own: queued events are handled while it is open, but  *)
(* the rest of the window does not react.                                  *)
(*                                                                         *)
(* A text is a sequence of atoms, long enough to tell prefixes apart.  The *)
(* identifiers, stars and timestamps of messages are left out, and of the  *)
(* seconds a session was used in only which one is later is kept.          *)
(*                                                                         *)
(* The statements a handler has the history run may fail, and the handler  *)
(* hears of it only from LoadSession.  LoadAllMetadata, which the list and *)
(* the startup are made from, is taken to succeed, and the database to be  *)
(* usable.                                                                 *)
(***************************************************************************)
EXTENDS Naturals, Sequences, FiniteSets, SequencesExt

CONSTANTS Task, NoPrompt, Word, Notice,  \* as in Generation
          Session,      \* identifiers of sessions
          Nowhere,      \* m_current_session_id is empty
          Draft,        \* what the user may send: [typed, documents, images]
          Extract,      \* the text of attached documents, as an atom
          Indicator,    \* the line that announces attached images, as an atom
          Considerate,  \* TRUE: the user waits, see Waits
          MaxSends,     \* bound: prompts sent
          MaxPosted,    \* bound: token events posted
          MaxRestarts,  \* bound: crashes and restarts
          MaxFaults     \* bound: handlers in which statements fail

ASSUME NowhereAssumption == Nowhere \notin Session
ASSUME DraftAssumption ==
  \A d \in Draft : d.typed \in Seq(Range(d.typed)) /\ {d.documents, d.images} \subseteq BOOLEAN
ASSUME BoundAssumption == {MaxSends, MaxPosted, MaxRestarts, MaxFaults} \subseteq Nat

VARIABLES
  phase, prompt, said, posted, remembered,  \* the network layer, see Generation
  stored,       \* the chat history, see Transcripts
  minted,       \* session identifiers generated so far
  unsaved,      \* those of them whose row could not be inserted
  later,        \* pairs of sessions, the first of which has the later updated_at
  pinned,       \* sessions with is_pinned
  current,      \* MainFrame::m_current_session_id
  panel,        \* ChatPanel: m_active_session, m_active_response_stream, m_last_processed_prompt
  spinner,      \* the spinner is shown
  listed,       \* SidebarPanel::m_active_metadata, in the order of the list
  selected,     \* the selected row of the list, or 0
  menu,         \* the row a popup menu or its dialog was opened for, or 0
  submitted,    \* EVT_USER_PROMPT events, oldest first
  delivered,    \* how many token events have been handled
  asked,        \* what each task was asked: [text, context, session]
  meant,        \* [session, answered]: the session the user opened the menu on, and
                \* whether a final event was handled since
  loaded,       \* when the panel was last loaded: its messages, events delivered;
                \* and whether a session since then could not be loaded
  sends, restarts, faults

network  == <<phase, prompt, said, posted, remembered>>
history  == <<stored, minted, unsaved, later, pinned>>
sidebar  == <<listed, selected>>
dialog   == <<menu, meant>>
counters == <<sends, restarts, faults>>
vars == <<network, history, current, panel, spinner, sidebar, dialog, submitted, delivered,
          asked, loaded, counters>>

\* Requests differ by their context, so whether an earlier answer is replayed for one,
\* and which, is left open: all requests share one key.
Network == INSTANCE Generation WITH Prompt <- Task, CacheKey <- [t \in Task |-> "any"]

Atom == (UNION {Range(d.typed) : d \in Draft}) \cup {Extract, Indicator} \cup Word \cup {Notice}
Text == Seq(Atom)
Talk == [role : {"user", "assistant"}, content : Text]
UserTalk(text) == [role |-> "user", content |-> text]
AssistantTalk(text) == [role |-> "assistant", content |-> text]

History == INSTANCE Transcripts WITH transcript <- stored, Message <- Talk

Panel == [session : Session \cup {Nowhere}, messages : Seq(Talk), stream : Text, last : Text]
Request == [text : Text, context : Seq(Talk), session : Session \cup {Nowhere}]

NoRequest == [text |-> <<>>, context |-> <<>>, session |-> Nowhere]

TypeOK ==
  /\ Network!TypeOK /\ History!TypeOK
  /\ DOMAIN stored \cup unsaved \subseteq minted /\ minted \subseteq Session
  /\ later \subseteq Session \X Session /\ pinned \subseteq Session
  /\ current \in Session \cup {Nowhere}
  /\ panel \in Panel
  /\ spinner \in BOOLEAN
  /\ listed \in Seq(Session)
  /\ selected \in Nat /\ menu \in Nat
  /\ submitted \in Seq(Text)
  /\ delivered \in 0..Len(posted)
  /\ asked \in [Task -> Request]
  /\ meant \in [session : Session \cup {Nowhere}, answered : BOOLEAN]
  /\ loaded \in [messages : Nat, delivered : Nat, failed : BOOLEAN]
  /\ sends \in 0..MaxSends /\ restarts \in 0..MaxRestarts /\ faults \in 0..MaxFaults

-----------------------------------------------------------------------------
(* ChatPanel, as functions of its state.                                   *)

BlankPanel == [session |-> Nowhere, messages |-> <<>>, stream |-> <<>>, last |-> <<>>]

\* What the user said last.
LastPrompt(log) ==
  LET prompts == {i \in DOMAIN log : log[i].role = "user"} IN
  IF prompts = {} THEN <<>> ELSE log[Max(prompts)].content

\* Mutant: the metadata of the session is not taken over.
LoadedPanelNowhere(s, log) ==
  [session |-> Nowhere, messages |-> log, stream |-> <<>>, last |-> LastPrompt(log)]

\* load_history: the last user message becomes the last processed prompt.
LoadedPanel(s, log) ==
  [session |-> s, messages |-> log, stream |-> <<>>, last |-> LastPrompt(log)]

\* Mutant: the stream is not cleared.
FlushedKeeping(p) ==
  IF p.stream = <<>> THEN p
  ELSE [p EXCEPT !.messages = Append(@, AssistantTalk(p.stream))]

\* The first half of append_user_message: the stream becomes an assistant message.
Flushed(p) ==
  IF p.stream = <<>> THEN p
  ELSE [p EXCEPT !.messages = Append(@, AssistantTalk(p.stream)), !.stream = <<>>]

\* Mutants: the stream is left open; no text is taken for a repetition.
WithUserMessageUnflushed(p, text) ==
  IF IsPrefix(text, p.last) THEN p
  ELSE [p EXCEPT !.messages = Append(@, UserTalk(text)), !.last = text]
WithEveryMessage(p, text) ==
  [Flushed(p) EXCEPT !.messages = Append(@, UserTalk(text)), !.last = text]

\* append_user_message: a text that begins the last processed prompt is taken for a
\* repetition and dropped.
WithUserMessage(p, text) ==
  IF IsPrefix(text, p.last) THEN Flushed(p)
  ELSE [Flushed(p) EXCEPT !.messages = Append(@, UserTalk(text)), !.last = text]

\* Mutant: a token replaces the ones before it.
WithOnlyToken(p, text) == [p EXCEPT !.stream = text]

\* append_token
WithToken(p, text) == [p EXCEPT !.stream = @ \o text]

-----------------------------------------------------------------------------
(* The history and the sidebar.                                            *)

\* The statements a handler runs succeed, or one or more of them fail.
Statements(ok) ==
  IF ok THEN UNCHANGED faults ELSE faults < MaxFaults /\ faults' = faults + 1

\* AppendMessage, first statement: a row of a session that has none itself is never
\* loaded.
Appended(log, s, message, written) ==
  IF written /\ s \in DOMAIN log THEN History!Extended(log, s, message) ELSE log

\* What is left of the order without s.
OrderWithout(s) == {pair \in later : s \notin {pair[1], pair[2]}}

\* updated_at of s becomes the present second: later than that of all others, except
\* of those used in this very second.
Touch(s) ==
  LET others == DOMAIN stored' \ {s}
      latest == {u \in others : ~\E v \in Session : <<v, u>> \in later} IN
  \E tied \in {{}, latest} : later' = OrderWithout(s) \cup ({s} \X (others \ tied))

\* AppendMessage, second statement, for a session whose row may just have been inserted.
Used(s, touched) ==
  IF s \in DOMAIN stored' /\ (touched \/ s \notin DOMAIN stored) THEN Touch(s)
                                                               ELSE UNCHANGED later

\* The order of populate_sidebar and of the startup: pinned sessions first, then those
\* used later.  Sessions used in the same second come in any order.
Precedes(s, u, order, pins) ==
  IF (s \in pins) = (u \in pins) THEN <<s, u>> \in order ELSE s \in pins

Listings(sessions, order, pins) ==
  {list \in BoundedSeq(sessions, Cardinality(sessions)) :
     /\ Range(list) = sessions /\ IsInjective(list)
     /\ \A i, j \in DOMAIN list : i < j => ~Precedes(list[j], list[i], order, pins)}

\* Mutant: wxNOT_FOUND is selected.
RowOrNotFound(list, s) ==
  IF s \in Range(list) THEN CHOOSE i \in DOMAIN list : list[i] = s ELSE 0 - 1

\* The row of s in the list, or 0.
Row(list, s) == IF s \in Range(list) THEN CHOOSE i \in DOMAIN list : list[i] = s ELSE 0

\* populate_sidebar, which leaves no row selected, and then select_session_by_id(s).
Populate(s) ==
  /\ listed' \in Listings(DOMAIN stored', later', pinned')
  /\ selected' = Row(listed', s)

\* No menu is open.
Unmeant == [session |-> Nowhere, answered |-> FALSE]

\* load_history, when `seen` token events have been handled.
Load(newPanel, seen) ==
  /\ panel' = newPanel
  /\ loaded' = [messages |-> Len(newPanel.messages), delivered |-> seen, failed |-> FALSE]

\* HistoryManager::LoadSession gives the messages, or as many of them as were read before
\* a statement failed,
LoadSession(s, seen) ==
  \/ UNCHANGED faults /\ Load(LoadedPanel(s, stored[s]), seen)
  \/ /\ Statements(FALSE)
     /\ \E n \in 0..Len(stored[s]) : Load(LoadedPanel(s, SubSeq(stored[s], 1, n)), seen)

\* or nothing, and a panel p that was loaded as in l stays.
LoadNothing(p, l) ==
  /\ Statements(FALSE)
  /\ panel' = p
  /\ loaded' = [l EXCEPT !.failed = TRUE]

NeverLoaded == [messages |-> 0, delivered |-> 0, failed |-> FALSE]

-----------------------------------------------------------------------------
Init ==
  /\ Network!Init /\ History!Init
  /\ minted = {} /\ unsaved = {} /\ later = {} /\ pinned = {}
  /\ current = Nowhere /\ panel = BlankPanel /\ spinner = FALSE
  /\ listed = <<>> /\ selected = 0
  /\ menu = 0 /\ meant = Unmeant
  /\ submitted = <<>> /\ delivered = 0
  /\ asked = [t \in Task |-> NoRequest]
  /\ loaded = NeverLoaded
  /\ sends = 0 /\ restarts = 0 /\ faults = 0

\* Nothing is under way: no prompt queued, no task open, no token event waiting.
AtRest ==
  /\ submitted = <<>> /\ delivered = Len(posted)
  /\ \A t \in Task : phase[t] \in {"idle", "settled"}

\* A considerate user lets each prompt run its course before doing anything else.
Waits == Considerate => AtRest

\* The window reacts to the user.
Active == menu = 0 /\ Waits

-----------------------------------------------------------------------------
(* The user.                                                               *)

\* on_send_action: the panel shows the typed text and the image indicators at once; the
\* typed text and that of the documents go to the event queue.
Send(d) ==
  LET shown == d.typed \o (IF d.images THEN <<Indicator>> ELSE <<>>)
      sent  == d.typed \o (IF d.documents THEN <<Extract>> ELSE <<>>) IN
  /\ Active /\ sends < MaxSends
  /\ Considerate => ~IsPrefix(shown, panel.last)
  /\ sends' = sends + 1
  /\ panel' = WithUserMessage(panel, shown)
  /\ submitted' = Append(submitted, sent)
  /\ UNCHANGED <<network, history, current, spinner, sidebar, dialog, delivered, asked,
                 loaded, restarts, faults>>

\* Mutant: the row stays selected.
NewChatKeepingRow ==
  /\ Active
  /\ current' = Nowhere
  /\ Load(BlankPanel, delivered)
  /\ UNCHANGED <<network, history, spinner, sidebar, dialog, submitted, delivered, asked, counters>>

\* on_new_chat_click and on_new_chat_action
NewChat ==
  /\ Active
  /\ selected' = 0
  /\ current' = Nowhere
  /\ Load(BlankPanel, delivered)
  /\ UNCHANGED <<network, history, spinner, listed, dialog, submitted, delivered, asked, counters>>

\* on_session_selected and on_load_session, which opens the session before it is loaded.
SelectSession(row) ==
  /\ Active /\ row \in DOMAIN listed
  /\ selected' = row
  /\ current' = listed[row]
  /\ LoadSession(listed[row], delivered) \/ LoadNothing(panel, loaded)
  /\ UNCHANGED <<network, history, spinner, listed, dialog, submitted, delivered, asked,
                 sends, restarts>>

\* on_spinner_mouse_down: the spinner stops; EVT_CANCEL_GENERATION only clears the
\* metrics of the sidebar, and no task hears of it.
CancelGeneration ==
  /\ menu = 0 /\ spinner
  /\ spinner' = FALSE
  /\ UNCHANGED <<network, history, current, panel, sidebar, dialog, submitted, delivered,
                 asked, loaded, counters>>

\* on_context_menu: the row is captured by the handlers of the menu.
OpenMenu ==
  /\ Active /\ selected # 0
  /\ menu' = selected
  /\ meant' = [session |-> listed[selected], answered |-> FALSE]
  /\ UNCHANGED <<network, history, current, panel, spinner, sidebar, submitted, delivered,
                 asked, loaded, counters>>

CloseMenu == menu # 0 /\ menu' = 0 /\ meant' = Unmeant

Dismiss ==
  /\ CloseMenu
  /\ UNCHANGED <<network, history, current, panel, spinner, sidebar, submitted, delivered,
                 asked, loaded, counters>>

TogglePin ==
  LET s == listed[menu] IN
  /\ CloseMenu
  /\ \E ok \in BOOLEAN :
        /\ Statements(ok)
        /\ pinned' = IF ~ok THEN pinned
                     ELSE IF s \in pinned THEN pinned \ {s} ELSE pinned \cup {s}
  /\ UNCHANGED <<stored, later>>
  /\ Populate(Nowhere)
  /\ UNCHANGED <<network, minted, unsaved, current, panel, spinner, submitted, delivered,
                 asked, loaded, sends, restarts>>

\* A new title counts as use of the session.
Rename ==
  /\ CloseMenu
  /\ UNCHANGED <<stored, pinned>>
  /\ \E ok \in BOOLEAN :
        /\ Statements(ok)
        /\ Used(listed[menu], ok)
  /\ Populate(Nowhere)
  /\ UNCHANGED <<network, minted, unsaved, current, panel, spinner, submitted, delivered,
                 asked, loaded, sends, restarts>>

\* Delete the session, list the others, and start a new chat.
DeleteChat ==
  LET s == listed[menu] IN
  /\ CloseMenu
  /\ \E ok \in BOOLEAN :
        /\ Statements(ok)
        /\ IF ok THEN /\ stored' = History!Without(stored, s)
                      /\ later' = OrderWithout(s)
                      /\ pinned' = pinned \ {s}
                 ELSE UNCHANGED <<stored, later, pinned>>
  /\ Populate(Nowhere)
  /\ current' = Nowhere
  /\ Load(BlankPanel, delivered)
  /\ UNCHANGED <<network, minted, unsaved, spinner, submitted, delivered, asked,
                 sends, restarts>>

-----------------------------------------------------------------------------
(* The event loop.                                                         *)

\* on_user_prompt_submitted and the callback of main.cpp: find or create the session,
\* store the prompt, show it, and spawn a task that is given all messages of the panel
\* but the last one.  The session opened is the new one whether it got a row or not.
HandlePrompt(t) ==
  LET text == Head(submitted) IN
  /\ submitted # <<>> /\ text # <<>>
  /\ submitted' = Tail(submitted)
  /\ \E s \in Session, made, written, touched \in BOOLEAN :
        /\ Statements(made /\ written /\ touched)
        /\ IF current = Nowhere
             THEN /\ s \notin minted
                  /\ minted' = minted \cup {s}
                  /\ unsaved' = IF made THEN unsaved ELSE unsaved \cup {s}
                  /\ stored' = Appended(IF made THEN History!With(stored, s) ELSE stored,
                                        s, UserTalk(text), written)
             ELSE /\ s = current /\ made
                  /\ UNCHANGED <<minted, unsaved>>
                  /\ stored' = Appended(stored, s, UserTalk(text), written)
        /\ Used(s, touched)
        /\ UNCHANGED pinned
        /\ IF current = Nowhere THEN Populate(s) ELSE UNCHANGED sidebar
        /\ current' = s
        /\ panel' = WithUserMessage([panel EXCEPT !.session = IF current = Nowhere THEN s ELSE @],
                                    text)
        /\ asked' = [asked EXCEPT ![t] =
                       [text |-> text, session |-> s,
                        context |-> IF panel'.messages = <<>> THEN <<>>
                                    ELSE Front(panel'.messages)]]
  /\ Network!Submit(t, t)
  /\ spinner' = TRUE
  /\ UNCHANGED <<dialog, delivered, loaded, sends, restarts>>

\* An empty prompt ends there.
DropPrompt ==
  /\ submitted # <<>> /\ Head(submitted) = <<>>
  /\ submitted' = Tail(submitted)
  /\ UNCHANGED <<network, history, current, panel, spinner, sidebar, dialog, delivered,
                 asked, loaded, counters>>

\* The messages of a request: the context, and the prompt as the last.
PrepareHttpRequest(request) == Append(request.context, UserTalk(request.text))

NextEvent == posted[delivered + 1]

\* OnTokenReceived: AppendToken.
HandleToken ==
  /\ delivered < Len(posted) /\ ~NextEvent.final
  /\ delivered' = delivered + 1
  /\ panel' = WithToken(panel, NextEvent.text)
  /\ UNCHANGED <<network, history, current, spinner, sidebar, dialog, submitted, asked,
                 loaded, counters>>

\* OnTokenReceived: FinalizeAssistantResponse stores what the panel's stream holds, in
\* the session that is current now; the stream stays.
HandleFinal ==
  /\ delivered < Len(posted) /\ NextEvent.final
  /\ delivered' = delivered + 1
  /\ spinner' = FALSE
  /\ IF current # Nowhere /\ panel.stream # <<>>
       THEN /\ \E written, touched \in BOOLEAN :
                 /\ Statements(written /\ touched)
                 /\ stored' = Appended(stored, current, AssistantTalk(panel.stream), written)
                 /\ Used(current, touched)
            /\ UNCHANGED pinned
            /\ Populate(current)
       ELSE UNCHANGED <<stored, later, pinned, sidebar, faults>>
  /\ meant' = [meant EXCEPT !.answered = menu # 0]
  /\ UNCHANGED <<network, minted, unsaved, current, panel, menu, submitted, asked, loaded,
                 sends, restarts>>

-----------------------------------------------------------------------------
(* The worker thread, and the process.                                     *)

Work ==
  /\ \E t \in Task : Network!Work(t)
  /\ Len(posted') <= MaxPosted
  /\ UNCHANGED <<history, current, panel, spinner, sidebar, dialog, submitted, delivered,
                 asked, loaded, counters>>

\* The process ends, at any point, and is started again: only the history is left, and
\* LoadMostRecentSessionOnStartup opens the first session of the list and then loads it.
Restart ==
  /\ restarts < MaxRestarts
  /\ restarts' = restarts + 1
  /\ phase' = [t \in Task |-> "idle"]
  /\ prompt' = [t \in Task |-> NoPrompt]
  /\ said' = [t \in Task |-> <<>>]
  /\ posted' = <<>>
  /\ remembered' = {}
  /\ listed' \in Listings(DOMAIN stored, later, pinned)
  /\ current' = IF listed' = <<>> THEN Nowhere ELSE Head(listed')
  /\ \/ /\ listed' = <<>> /\ UNCHANGED faults
        /\ Load(BlankPanel, 0) /\ selected' = 0
     \/ /\ listed' # <<>> /\ LoadSession(current', 0)
        /\ selected' = Row(listed', current')
     \/ /\ listed' # <<>> /\ LoadNothing(BlankPanel, NeverLoaded)
        /\ selected' = 0
  /\ spinner' = FALSE
  /\ menu' = 0 /\ meant' = Unmeant
  /\ submitted' = <<>> /\ delivered' = 0
  /\ asked' = [t \in Task |-> NoRequest]
  /\ UNCHANGED <<history, sends>>

Next ==
  \/ NewChat \/ CancelGeneration \/ OpenMenu \/ Dismiss \/ TogglePin \/ Rename \/ DeleteChat
  \/ DropPrompt \/ HandleToken \/ HandleFinal \/ Work \/ Restart
  \/ \E d \in Draft : Send(d)
  \/ \E row \in DOMAIN listed : SelectSession(row)
  \/ \E t \in Task : HandlePrompt(t)

Spec == Init /\ [][Next]_vars

-----------------------------------------------------------------------------
(* Properties.                                                             *)

\* MainFrame and ChatPanel each keep the session that is open, and set it in different
\* handlers.  They agree, whatever statements fail, unless the load of the session opened
\* last gave nothing: then the window takes prompts for one session and shows another.
\* And neither keeps a session that was deleted: a session kept by them that is not in the
\* table is one that never got there.
SessionsAgree ==
  /\ panel.session = current \/ loaded.failed
  /\ {current, panel.session} \ {Nowhere} \subseteq DOMAIN stored \cup unsaved

\* As long as the list can be read, the sidebar has each session that exists once, so every
\* row is that of a session, and the row captured by an open menu stays within the list,
\* however often the list is rebuilt under it.  The only thing that rebuilds it then is the
\* end of an answer: until one has ended, what is chosen from the menu happens to the
\* session it was opened on.
SidebarInStep ==
  /\ Range(listed) = DOMAIN stored /\ IsInjective(listed)
  /\ menu <= Len(listed) /\ selected <= Len(listed)
  /\ menu # 0 /\ ~meant.answered => listed[menu] = meant.session

Words(log) ==
  FlattenSeq([i \in DOMAIN log |->
                IF log[i].role = "assistant" THEN log[i].content ELSE <<>>])
Texts(events) == FlattenSeq([i \in DOMAIN events |-> events[i].text])

\* Whatever is sent while tokens arrive, the panel shows each token that was delivered
\* since it was loaded, once and in order: in the assistant messages it has closed and
\* then in the open stream.
NoTokenLostOrRepeated ==
  Words(SubSeq(panel.messages, loaded.messages + 1, Len(panel.messages))) \o panel.stream
    = Texts(SubSeq(posted, loaded.delivered + 1, delivered))

\* At rest, and if no statement has failed, what is stored of the open session is what the
\* panel shows of it: after answers, refusals, switches, deletions, crashes and restarts.
SavedIsShown ==
  AtRest /\ faults = 0 /\ current # Nowhere => stored[current] = Flushed(panel).messages

\* If no statement has failed, the conversation a request replays to the model is the
\* transcript up to its prompt.
ContextIsTranscript ==
  \A t \in Task : faults = 0 /\ phase[t] # "idle" /\ asked[t].session \in DOMAIN stored =>
     IsPrefix(PrepareHttpRequest(asked[t]), stored[asked[t].session])

\* What task t has said, of these events and of all.
AnswerIn(events, t) ==
  FlattenSeq([i \in DOMAIN events |-> IF events[i].task = t THEN events[i].text ELSE <<>>])
Answer(t) == AnswerIn(posted, t)

\* Selecting a session restores its conversation: if no statement has failed, once a task
\* has had its last event handled, its answer is stored right after its prompt.
AnswerInItsSession ==
  \A t \in Task :
     LET log == stored[asked[t].session] IN
     /\ faults = 0 /\ phase[t] = "settled" /\ asked[t].session \in DOMAIN stored
     /\ Answer(t) # <<>>
     /\ \A i \in DOMAIN posted : posted[i].task = t => i <= delivered
     => \E i \in DOMAIN log \ {1} :
           log[i - 1] = UserTalk(asked[t].text) /\ log[i] = AssistantTalk(Answer(t))
=============================================================================
