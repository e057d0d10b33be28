--------------------------------- MODULE Budget ---------------------------------
(***************************************************************************)
(* The context budget: TokenEstimator (engine/token/token_estimator.cpp),  *)
(* the TokenBudgetBar and the ErrorBanner above the prompt, and every      *)
(* handler of ChatPanel (ui/chat_panel.cpp) and MainFrame that changes     *)
(* what is estimated.                                                      *)
(*                                                                         *)
(* The bar is drawn from numbers given to it by                            *)
(* update_token_budget_display, which the handlers call by hand: it is a   *)
(* cached value of the panel's state.  All of it runs on the UI thread;    *)
(* the file dialog runs an event loop of its own, in which tokens and      *)
(* prompts are handled while the window does not react.                    *)
(*                                                                         *)
(* The size of a text is its length; that frame and panel have the same    *)
(* parameters is shown in Settings.                                        *)
(***************************************************************************)
EXTENDS Naturals, Sequences, SequencesExt

CONSTANTS Atom,           \* what texts are made of
          Prompts,        \* what the user may type
          Files,          \* what the user may attach: [image, text]
          Indicator,      \* the line that announces an attached image
          Tokens,         \* texts of token events
          Chats,          \* sessions that can be loaded: [messages, params]
          Params,         \* the parameters that count: [context, system]
          Default,        \* the ones of a new chat
          CharsPerToken,  \* chars_per_token_ratio
          Overhead,       \* message_overhead_tokens
          Fallback,       \* the 4096 tokens assumed when num_ctx is 0
          MaxPending,     \* max_attachment_count
          MaxSubmitted,   \* bound: prompts in the event queue
          MaxMessages,    \* bound: messages in the panel
          MaxStream       \* bound: atoms in the open stream

Text == Seq(Atom)
NonEmpty == Text \ {<<>>}
Message == [role : {"user", "assistant"}, content : NonEmpty]

ASSUME TextAssumption ==
  /\ Prompts \subseteq Text /\ Tokens \subseteq Text
  /\ Indicator \in NonEmpty
  /\ Files \subseteq [image : BOOLEAN, text : Text]
ASSUME ParamsAssumption ==
  /\ Params \subseteq [context : Nat, system : Text]
  /\ Default \in Params /\ Default.system = <<>>
  /\ Chats \subseteq [messages : Seq(Message), params : Params]
ASSUME NumberAssumption ==
  /\ {CharsPerToken, Fallback} \subseteq Nat \ {0}
  /\ {Overhead, MaxPending, MaxSubmitted, MaxMessages, MaxStream} \subseteq Nat

VARIABLES
  messages,   \* m_active_session.m_messages
  params,     \* m_active_session.m_metadata.m_parameters
  stream,     \* m_active_response_stream
  last,       \* m_last_processed_prompt
  open,       \* a session is open
  typed,      \* the text of the prompt control
  pending,    \* the attachments that wait
  submitted,  \* EVT_USER_PROMPT events, oldest first
  choosing,   \* the file dialog is open
  bar,        \* m_used_tokens and m_max_tokens of the bar
  warned      \* the banner is shown, with the budget alert

panel == <<messages, params, stream, last, open>>
input == <<typed, pending, choosing>>
display == <<bar, warned>>
vars == <<panel, input, submitted, display>>

TypeOK ==
  /\ messages \in Seq(Message)
  /\ params \in Params
  /\ {stream, last, typed} \subseteq Text
  /\ open \in BOOLEAN /\ choosing \in BOOLEAN /\ warned \in BOOLEAN
  /\ pending \in Seq(Files) /\ Len(pending) <= MaxPending
  /\ submitted \in Seq(Text)
  /\ bar \in [used : Nat, limit : Nat \ {0}]

-----------------------------------------------------------------------------
(* The estimate.                                                           *)

\* estimate_text_tokens: rounded down, but at least 1.
EstimateText(text) ==
  IF text = <<>> THEN 0
  ELSE IF Len(text) < CharsPerToken THEN 1 ELSE Len(text) \div CharsPerToken

EstimateMessages(log) ==
  SumFunction([i \in DOMAIN log |-> EstimateText(log[i].content) + Overhead])

\* An image has no text to count.
EstimatePending(files) ==
  SumFunction([i \in DOMAIN files |-> IF files[i].image THEN 0 ELSE EstimateText(files[i].text)])

\* What update_token_budget_display adds up.
Estimate ==
  EstimateMessages(messages) + EstimatePending(pending) + EstimateText(typed)
    + EstimateText(params.system) + EstimateText(stream)

Limit == IF params.context = 0 THEN Fallback ELSE params.context

\* Mutant: an alert that is shown is never hidden again.
UpdateKeepingAlert ==
  /\ bar' = [used |-> Estimate', limit |-> Limit']
  /\ warned' = (warned \/ Estimate' >= Limit')

\* update_token_budget_display, at the end of a handler
Update ==
  /\ bar' = [used |-> Estimate', limit |-> Limit']
  /\ warned' = (Estimate' >= Limit')

-----------------------------------------------------------------------------
(* The transcript.                                                         *)

\* The open answer as a message, if there is one.
Answer == IF stream = <<>> THEN <<>> ELSE <<[role |-> "assistant", content |-> stream]>>

\* starts_with: the beginning of the last prompt, the empty text included, is taken for
\* a repetition of it.
Repeats(text) == IsPrefix(text, last)

\* append_user_message without the display
Enter(text) ==
  /\ Len(messages) + Len(Answer) < MaxMessages
  /\ stream' = <<>>
  /\ IF Repeats(text)
       THEN messages' = messages \o Answer /\ UNCHANGED last
       ELSE /\ messages' = (messages \o Answer) \o <<[role |-> "user", content |-> text]>>
            /\ last' = text

\* What the user said last.
LastPrompt(log) ==
  LET prompts == {i \in DOMAIN log : log[i].role = "user"} IN
  IF prompts = {} THEN <<>> ELSE log[Max(prompts)].content

\* load_history
Load(log) ==
  /\ messages' = log /\ stream' = <<>> /\ last' = LastPrompt(log)
  /\ Update

Init ==
  /\ messages = <<>> /\ params = Default /\ stream = <<>> /\ last = <<>> /\ open = FALSE
  /\ typed = <<>> /\ pending = <<>> /\ choosing = FALSE
  /\ submitted = <<>>
  /\ bar = [used |-> 0, limit |-> Fallback] /\ warned = FALSE

-----------------------------------------------------------------------------
(* The user.                                                               *)

Type(text) ==
  /\ ~choosing /\ text # typed
  /\ typed' = text
  /\ UNCHANGED <<panel, pending, choosing, submitted>>
  /\ Update

\* on_attach_action, up to ShowModal: the banner is hidden, the bar is left alone.
OpenAttach ==
  /\ ~choosing
  /\ choosing' = TRUE /\ warned' = FALSE
  /\ UNCHANGED <<panel, typed, pending, submitted, bar>>

CancelAttach ==
  /\ choosing
  /\ choosing' = FALSE
  /\ UNCHANGED <<panel, typed, pending, submitted, display>>

\* on_attach_action, after ShowModal.  Of the selected files some are accepted, perhaps
\* none; the alert of a rejected one does not outlive the handler.
FinishAttach(accepted) ==
  /\ choosing
  /\ choosing' = FALSE
  /\ pending' = pending \o accepted
  /\ UNCHANGED <<panel, typed, submitted>>
  /\ Update

\* The button of a chip.
RemoveChip(i) ==
  /\ ~choosing
  /\ pending' = RemoveAt(pending, i)
  /\ UNCHANGED <<panel, typed, choosing, submitted>>
  /\ Update

\* on_send_action
Send ==
  LET images    == [i \in DOMAIN pending |-> IF pending[i].image THEN Indicator ELSE <<>>]
      documents == [i \in DOMAIN pending |-> IF pending[i].image THEN <<>> ELSE pending[i].text] IN
  /\ ~choosing
  /\ typed # <<>> \/ pending # <<>>
  /\ Len(submitted) < MaxSubmitted
  /\ typed' = <<>> /\ pending' = <<>>
  /\ Enter(typed \o FlattenSeq(images))
  /\ submitted' = Append(submitted, typed \o FlattenSeq(documents))
  /\ UNCHANGED <<params, open, choosing>>
  /\ Update

\* on_load_session
LoadSession(chat) ==
  /\ ~choosing
  /\ params' = chat.params /\ open' = TRUE
  /\ UNCHANGED <<input, submitted>>
  /\ Load(chat.messages)

\* on_new_chat_action, also after a session was deleted
NewChat ==
  /\ ~choosing
  /\ params' = Default /\ open' = FALSE
  /\ UNCHANGED <<input, submitted>>
  /\ Load(<<>>)

\* on_session_params_action, confirmed
SetParameters(p) ==
  /\ ~choosing
  /\ params' = p
  /\ UNCHANGED <<messages, stream, last, open, input, submitted>>
  /\ Update

\* OnDismissClicked
Dismiss ==
  /\ ~choosing /\ warned
  /\ warned' = FALSE
  /\ UNCHANGED <<panel, input, submitted, bar>>

-----------------------------------------------------------------------------
(* The event loop.                                                         *)

\* Mutant: the display is not updated.
AppendTokenQuietly(text) ==
  /\ Len(stream) + Len(text) <= MaxStream
  /\ stream' = stream \o text
  /\ UNCHANGED <<messages, params, last, open, input, submitted, display>>

\* append_token
AppendToken(text) ==
  /\ Len(stream) + Len(text) <= MaxStream
  /\ stream' = stream \o text
  /\ UNCHANGED <<messages, params, last, open, input, submitted>>
  /\ Update

\* An empty prompt ends there.
DropPrompt ==
  /\ submitted # <<>> /\ Head(submitted) = <<>>
  /\ submitted' = Tail(submitted)
  /\ UNCHANGED <<panel, input, display>>

\* The display is updated before the text is entered if the session is created, and
\* after it unless the text is taken for a repetition.
ShowParameters ==
  IF open THEN UNCHANGED display
  ELSE /\ bar' = [used |-> Estimate, limit |-> Limit]
       /\ warned' = (Estimate >= Limit)

\* on_user_prompt_submitted and the callback of main.cpp, which goes on to send the
\* request: the messages of the panel but the last one, and the prompt.
HandlePrompt ==
  LET text == Head(submitted) IN
  /\ submitted # <<>> /\ text # <<>>
  /\ submitted' = Tail(submitted)
  /\ open' = TRUE
  /\ Enter(text)
  /\ UNCHANGED <<params, input>>
  /\ IF Repeats(text) THEN ShowParameters ELSE Update

Next ==
  \/ OpenAttach \/ CancelAttach \/ Send \/ NewChat \/ Dismiss \/ DropPrompt \/ HandlePrompt
  \/ \E text \in Prompts : Type(text)
  \/ \E accepted \in BoundedSeq(Files, MaxPending - Len(pending)) : FinishAttach(accepted)
  \/ \E i \in DOMAIN pending : RemoveChip(i)
  \/ \E chat \in Chats : LoadSession(chat)
  \/ \E p \in Params : SetParameters(p)
  \/ \E text \in Tokens : AppendToken(text)

Spec == Init /\ [][Next]_vars

-----------------------------------------------------------------------------
(* Properties.                                                             *)

\* Nothing has been shown, loaded, typed or attached yet.
Fresh ==
  /\ bar = [used |-> 0, limit |-> Fallback]
  /\ messages = <<>> /\ stream = <<>> /\ typed = <<>> /\ pending = <<>>

\* A repeated prompt has closed an answer, which now also counts as a message.
AnswerClosed == stream = <<>> /\ messages # <<>> /\ Last(messages).role = "assistant"

\* Whatever is typed, attached, loaded, sent and received, in any order, and although
\* each handler has to see to it, the bar shows what the panel holds against the limit
\* of the session.  Only the overhead of one message may be missing: a prompt taken for a
\* repetition closes the answer before it and returns without an update.
BarInStep ==
  \/ bar.limit = Limit /\ bar.used = Estimate
  \/ bar.limit = Limit /\ AnswerClosed /\ bar.used + Overhead = Estimate
  \/ Fresh

Over == bar.used >= bar.limit

\* The banner comes with the bar that reaches the limit and goes with the one that falls
\* below it; otherwise only the user hides it, by its button or by attaching a file.
BannerStep ==
  /\ warned' => Over'
  /\ Over' /\ ~warned' => bar' = bar /\ (warned => Dismiss \/ OpenAttach)

\* What the request carries that is sent at the end of HandlePrompt, estimated in the
\* same way.
RequestTokens ==
  EstimateMessages(Front(messages')) + EstimateText(Head(submitted)) + Overhead
    + EstimateText(params.system)

\* A request whose prompt is the last thing the transcript shows, and that cuts off no
\* answer, carries no more than the bar counts: documents, which the estimate of the
\* typed text does not know of, and repetitions included.
RequestStep ==
  HandlePrompt /\ stream = <<>> /\ messages' # <<>> /\ Last(messages').role = "user"
    /\ IsPrefix(Head(submitted), Last(messages').content)
  => RequestTokens <= bar'.used

\* The user is told of a context that overruns: the banner follows the bar, and the bar
\* counts what is sent.
OverrunAnnounced == [][BannerStep /\ RequestStep]_vars
=============================================================================
