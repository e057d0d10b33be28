-------------------------------- MODULE Rendering --------------------------------
(***************************************************************************)
(* What the chat panel shows: ChatPanel (ui/chat_panel.cpp) keeps the      *)
(* transcript as one Markdown text and renders all of it again after every *)
(* token; Pipeline (engine/markdown/pipeline.cpp) keeps the fragments it   *)
(* has decorated in two caches shared by all pipelines.                    *)
(*                                                                         *)
(* A token may end anywhere in a line, and the same transcript is put      *)
(* together in two ways: message by message while it grows                 *)
(* (append_user_message, append_token) and at once from the stored session  *)
(* (load_history).                                                         *)
(***************************************************************************)
EXTENDS Markdown

CONSTANTS Tokens,      \* what append_token may receive
          Prompts,     \* what append_user_message may receive
          Histories,   \* sequences of messages load_history may receive
          Themes,      \* the colours theme_fingerprint names, as they may be configured
          MaxEntries,  \* FragmentCache::max_entries
          MaxReceived, \* bound: tokens received since the panel was loaded
          MaxMessages  \* bound: messages of the panel's session

Message == [role : {"user", "assistant", "system"}, content : Text]

ASSUME TextAssumption == Tokens \cup Prompts \subseteq Text
\* The words of the headings, and what the first line says.
ASSUME WordAssumption ==
  {"System Channel", "ready", "synchronized", "User", "malama", "System Context"} \subseteq Words
ASSUME HistoryAssumption == Histories \subseteq Seq(Message)
ASSUME LimitAssumption == MaxEntries \in Nat \ {0} /\ {MaxReceived, MaxMessages} \subseteq Nat

VARIABLES
  raw,         \* m_raw_markdown_history
  stream,      \* m_active_response_stream
  messages,    \* m_active_session.m_messages
  lastPrompt,  \* m_last_processed_prompt
  loaded,      \* how many of the messages the panel was loaded with
  received,    \* tokens received since the panel was loaded, for the bound
  theme,       \* ConfigManager: get_config().m_appearance
  inline,      \* inline_text_cache
  blocks,      \* code_block_cache
  shown        \* the page of the last SetPage, with the text and theme it was made from

panel == <<raw, stream, messages, lastPrompt, loaded, received>>
caches == <<inline, blocks>>
vars == <<panel, theme, caches, shown>>

(***************************************************************************)
(* FragmentCache: html is the table, order the list of its keys, the       *)
(* oldest first.                                                           *)
(***************************************************************************)

EmptyCache == [html |-> <<>>, order |-> <<>>]

\* m_order.erase of the entry of a key
Erase(order, key) == RemoveAt(order, CHOOSE i \in DOMAIN order : order[i] = key)

\* Mutant: a hit leaves the key where it is in the order.
TouchNot(cache, key) == cache

Touch(cache, key) == [cache EXCEPT !.order = Append(Erase(@, key), key)]

EvictOldest(cache) ==
  LET oldest == Head(cache.order)
  IN  [html  |-> [k \in DOMAIN cache.html \ {oldest} |-> cache.html[k]],
       order |-> Tail(cache.order)]

Put(cache, key, html) ==
  IF key \in DOMAIN cache.html THEN cache
  ELSE LET room == IF Cardinality(DOMAIN cache.html) >= MaxEntries
                   THEN EvictOldest(cache) ELSE cache
       IN  [html  |-> [k \in DOMAIN room.html \cup {key} |->
                         IF k = key THEN html ELSE room.html[k]],
            order |-> Append(room.order, key)]

(***************************************************************************)
(* Decoration.  A fragment is what it is made from; a key is the sequence  *)
(* of what is hashed, without a separator.                                 *)
(***************************************************************************)

Fragment(element, colours) ==
  [text |-> element.text, language |-> element.language, colours |-> colours]

\* Mutant: the key of a fragment leaves out the colours.
KeyWithoutColours(element, colours) == element.text \o element.language

\* decorate_inline_text hashes the fingerprint and the text, decorate_code_block the
\* code, its language and the fingerprint.
Key(element, colours) ==
  IF element.tag = "code" THEN element.text \o element.language \o <<colours>>
                          ELSE <<colours>> \o element.text

\* get, and put when it finds nothing
Decorate(cache, element, colours) ==
  LET key == Key(element, colours)
  IN  IF key \in DOMAIN cache.html
      THEN [cache |-> Touch(cache, key), html |-> cache.html[key]]
      ELSE LET html == Fragment(element, colours)
           IN  [cache |-> Put(cache, key, html), html |-> html]

Piecewise(r, element, colours) ==
  IF element.tag \notin Decorated
  THEN [r EXCEPT !.page = Append(@, [tag |-> element.tag])]
  ELSE LET which == IF element.tag = "code" THEN "blocks" ELSE "inline"
           d     == Decorate(r[which], element, colours)
       IN  [r EXCEPT ![which] = d.cache,
                     !.page = Append(@, [tag |-> element.tag, html |-> d.html])]

\* Pipeline::process
Process(text, colours, inlineCache, blockCache) ==
  FoldLeft(LAMBDA r, element : Piecewise(r, element, colours),
           [page |-> <<>>, inline |-> inlineCache, blocks |-> blockCache],
           Elements(text))

(***************************************************************************)
(* The texts ChatPanel puts together                                       *)
(***************************************************************************)

Header(title) == <<Hash, title, Break>>
Gap == <<Break, Break>>
Ruled == <<Break, Break, Rule>>

Banner(greeting) == Header("System Channel") \o <<greeting>> \o Ruled

\* append_user_message, the answer that ends; then the prompt
Answered(text, answer) == text \o <<Break>> \o answer \o Ruled
Asked(text, prompt) ==
  text \o Gap \o Header("User") \o prompt \o Gap \o Header("malama")

\* Mutant: a stored answer follows the prompt without its heading.
StoredUntitled(text, m) ==
  CASE m.role = "user"      -> text \o Gap \o Header("User") \o m.content
    [] m.role = "assistant" -> text \o Gap \o m.content \o Ruled
    [] m.role = "system"    -> text \o Gap \o Header("System Context") \o m.content \o Ruled

\* load_history, one message; nothing stores one of the system yet
Stored(text, m) ==
  CASE m.role = "user"      -> text \o Gap \o Header("User") \o m.content
    [] m.role = "assistant" -> text \o Gap \o Header("malama") \o m.content \o Ruled
    [] m.role = "system"    -> text \o Gap \o Header("System Context") \o m.content \o Ruled

LoadedText(greeting, history) == FoldLeft(Stored, Banner(greeting), history)

(***************************************************************************)
(* Steps                                                                   *)
(***************************************************************************)

User(p) == [role |-> "user", content |-> p]
Assistant(a) == [role |-> "assistant", content |-> a]

\* render_chat_stream, with the new values of raw and stream
Render ==
  LET text == raw' \o <<Break>> \o stream'
      r    == Process(text, theme, inline, blocks)
  IN  /\ inline' = r.inline
      /\ blocks' = r.blocks
      /\ shown' = [text |-> text, theme |-> theme, page |-> r.page]

Init ==
  /\ raw = Banner("ready")
  /\ stream = <<>>
  /\ messages = <<>>
  /\ lastPrompt = <<>>
  /\ loaded = 0
  /\ received = 0
  /\ theme \in Themes
  /\ LET text == Banner("ready") \o <<Break>>
         r    == Process(text, theme, EmptyCache, EmptyCache)
     IN  /\ inline = r.inline
         /\ blocks = r.blocks
         /\ shown = [text |-> text, theme |-> theme, page |-> r.page]

AppendToken(t) ==
  /\ received < MaxReceived
  /\ Len(messages) < MaxMessages
  /\ received' = received + 1
  /\ stream' = stream \o t
  /\ UNCHANGED <<raw, messages, lastPrompt, loaded, theme>>
  /\ Render

\* A prompt that repeats the last one, or its beginning, is not entered and the page
\* is not rendered again; the answer before it is closed all the same.
AppendUserMessage(p) ==
  LET answer == IF stream = <<>> THEN <<>> ELSE <<Assistant(stream)>>
      before == IF stream = <<>> THEN raw ELSE Answered(raw, stream)
  IN  /\ Len(messages) + Len(answer) < MaxMessages
      /\ stream' = <<>>
      /\ UNCHANGED <<theme, loaded, received>>
      /\ \/ /\ IsPrefix(p, lastPrompt)
            /\ raw' = before
            /\ messages' = messages \o answer
            /\ UNCHANGED <<lastPrompt, caches, shown>>
         \/ /\ ~IsPrefix(p, lastPrompt)
            /\ raw' = Asked(before, p)
            /\ messages' = messages \o answer \o <<User(p)>>
            /\ lastPrompt' = p
            /\ Render

LoadHistory(history) ==
  /\ raw' = LoadedText("synchronized", history)
  /\ stream' = <<>>
  /\ messages' = history
  /\ loaded' = Len(history)
  /\ received' = 0
  /\ lastPrompt' = FoldLeft(LAMBDA last, m : IF m.role = "user" THEN m.content ELSE last,
                            <<>>, history)
  /\ UNCHANGED theme
  /\ Render

\* The settings dialog saves other colours; the page stays as it is.
SaveAppearance(t) ==
  /\ t # theme
  /\ theme' = t
  /\ UNCHANGED <<panel, caches, shown>>

Next ==
  \/ \E t \in Tokens : AppendToken(t)
  \/ \E p \in Prompts : AppendUserMessage(p)
  \/ \E h \in Histories : LoadHistory(h)
  \/ \E t \in Themes : SaveAppearance(t)

Spec == Init /\ [][Next]_vars

(***************************************************************************)
(* Properties                                                              *)
(***************************************************************************)

Fragments == [text : Text, language : Text, colours : Themes]
PageElement == [tag : Decorated, html : Fragments] \cup
               [tag : {"ul", "/ul", "ol", "/ol", "table", "/table", "tr", "/tr"}]

\* The type of the state.
TypeOK ==
  /\ {raw, stream, lastPrompt} \subseteq Text
  /\ messages \in Seq(Message)
  /\ loaded \in 0..Len(messages)
  /\ received \in 0..MaxReceived
  /\ theme \in Themes
  /\ \A cache \in {inline, blocks} :
       \A k \in DOMAIN cache.html : cache.html[k] \in Fragments
  /\ shown.text \in Text
  /\ shown.theme \in Themes
  /\ shown.page \in Seq(PageElement)

\* The keys of a page's fragments with these tags, in the order of their last use.
Latest(keys, key) == Append(IF key \in Range(keys) THEN Erase(keys, key) ELSE keys, key)
Noted(keys, element, tags, colours) ==
  IF element.tag \in tags THEN Latest(keys, Key(element, colours)) ELSE keys
Used(page, tags) ==
  FoldLeft(LAMBDA keys, element : Noted(keys, element, tags, page.theme), <<>>,
           Elements(page.text))

Kept(used, cache) ==
  \A i \in DOMAIN used : i > Len(used) - MaxEntries => used[i] \in DOMAIN cache.html

\* The table and the order list of a cache hold the same keys, each once, and no more
\* than the limit; and the fragments used last are the ones kept, so that a page that
\* fits in the cache is not decorated again with the next token (FragmentCache::get
\* touches what it finds, put evicts before it inserts).
CachesConsistent ==
  /\ \A cache \in {inline, blocks} :
       /\ Range(cache.order) = DOMAIN cache.html
       /\ Len(cache.order) = Cardinality(DOMAIN cache.html)
       /\ Len(cache.order) <= MaxEntries
  /\ Kept(Used(shown, Decorated \ {"code"}), inline)
  /\ Kept(Used(shown, {"code"}), blocks)

\* What the caches give is what would be decorated anew: no fragment in the colours of
\* another theme, no code with the highlighting of another language, whatever was
\* rendered before (the keys of decorate_inline_text and decorate_code_block, which
\* hash their parts without a separator).
PageGenuine ==
  shown.page = Process(shown.text, shown.theme, EmptyCache, EmptyCache).page

Lists == {"ul", "ol"}
\* The list that is open before element i of a page.
OpenAt(page, i) ==
  LET marks == {k \in 1..i - 1 : page[k].tag \in {"ul", "/ul", "ol", "/ol"}}
  IN  IF marks = {} \/ page[Max(marks)].tag \notin Lists THEN "none"
                                                        ELSE page[Max(marks)].tag

\* Whether an element with this tag may follow where this list is open.
Fits(open, tag) ==
  CASE tag = "li"  -> open # "none"
    [] tag = "/ul" -> open = "ul"
    [] tag = "/ol" -> open = "ol"
    [] OTHER       -> open = "none"

\* Lists are closed before anything else is shown, items lie in a list, and a list is
\* closed as what it was opened (the two flags of emit, which handle_list and
\* scan_and_emit_table share with it).
ListsBalanced ==
  LET page == shown.page
  IN  /\ OpenAt(page, Len(page) + 1) = "none"
      /\ \A i \in DOMAIN page : Fits(OpenAt(page, i), page[i].tag)

\* The words of a text.
Ink(text) == FlattenSeq([i \in DOMAIN text |-> IF text[i] \in Words THEN <<text[i]>> ELSE <<>>])
PageInk(page) ==
  FlattenSeq([i \in DOMAIN page |->
                IF page[i].tag \in Decorated THEN Ink(page[i].html.text) ELSE <<>>])

\* The fences before line b; an odd number of them leaves a block of code open.
FencesBefore(lines, b) == {a \in DOMAIN lines : a < b /\ StartsWith(lines[a], Fence)}
CodeOpen(lines, b) == Cardinality(FencesBefore(lines, b)) % 2 = 1

\* No word of the transcript is lost, repeated or moved on the way to the page, but for
\* the names of languages, and the cells of a row longer than its table's header: held
\* to where rows have the same length and, if there are any, every fence is closed.
TextKept ==
  LET lines == Lines(shown.text)
      rows  == {l \in ToSet(lines) : HasTablePipe(l)}
  IN  \/ \E l, m \in rows : Len(RowCells(l)) # Len(RowCells(m))
      \/ rows # {} /\ CodeOpen(lines, Len(lines) + 1)
      \/ PageInk(shown.page) =
           FlattenSeq([i \in DOMAIN lines |->
                         IF StartsWith(lines[i], Fence) THEN <<>> ELSE Ink(lines[i])])

\* The code between the fences of lines a and b, as the links to copy and to save it
\* carry it.
Between(lines, a, b) ==
  [text     |-> FlattenSeq([k \in 1..b - a - 1 |-> lines[a + k] \o <<Break>>]),
   language |-> Trim(Tail(lines[a]))]

\* The block of code that line b ends, if it ends one; empty ones are not shown.
EndedBy(lines, b) ==
  LET block == Between(lines, Max(FencesBefore(lines, b)), b)
  IN  IF CodeOpen(lines, b) /\ StartsWith(lines[b], Fence) /\ block.text # <<>>
      THEN <<block>> ELSE <<>>

\* The code blocks of a page are what stands between one fence and the next, line by
\* line and with the language of their own fence (evaluate_line_tokens keeps the
\* language in its state across blocks).
CodeVerbatim ==
  LET lines == Lines(shown.text)
      page  == shown.page
  IN  FlattenSeq([i \in DOMAIN page |->
                    IF page[i].tag = "code"
                    THEN <<[text |-> page[i].html.text, language |-> page[i].html.language]>>
                    ELSE <<>>])
      = FlattenSeq([b \in DOMAIN lines |-> EndedBy(lines, b)])

\* What is seen of a page: blank paragraphs and the blanks in its fragments left out.
Seen(elements) ==
  LET inked == [i \in DOMAIN elements |->
                  [elements[i] EXCEPT
                     !.text = SelectSeq(@, LAMBDA p : p \notin {Break, Blank})]]
  IN  SelectSeq(inked, LAMBDA e : e.tag # "paragraph" \/ e.text # <<>>)

\* The messages that came after the panel was loaded: prompts and answers in turn.
Live == SubSeq(messages, loaded + 1, Len(messages))
Alternating == \A i \in DOMAIN Live :
                 Live[i].role = IF i % 2 = 1 THEN "user" ELSE "assistant"

\* A conversation looks the same when it is loaded again as when it took place, but for
\* the greeting of a panel that was never loaded: the texts of append_user_message and of
\* load_history, which differ in their blank lines, give the same blocks, whatever prompts
\* and answers hold; only the heading of an answer that is still to come is added.  Held
\* to where each prompt had its answer before the next one.  Not so after a prompt that
\* was repeated, which is not entered, and after an answer to a prompt that the panel was
\* loaded with: both answers follow without a heading; nor after a prompt sent before the
\* first word of the answer to the one before, whose heading stays.
ReloadLooksTheSame ==
  LET open == IF Len(Live) % 2 = 1 THEN Gap \o Header("malama") ELSE <<>>
  IN  stream = <<>> /\ Alternating =>
        \E greeting \in {"ready", "synchronized"} :
          Seen(Elements(raw)) = Seen(Elements(LoadedText(greeting, messages) \o open))

\* The elements of a page that are not at its end: everything before the last heading,
\* and up to the last block of code.
Settled(page) ==
  LET last(tag) == Max({0} \cup {i \in DOMAIN page : page[i].tag = tag})
  IN  SubSeq(page, 1, Max({last("heading") - 1, last("code"), 0}))
Uncoloured(page) ==
  [i \in DOMAIN page |-> IF page[i].tag \in Decorated
                         THEN <<page[i].tag, page[i].html.text, page[i].html.language>>
                         ELSE <<page[i].tag>>]

\* While an answer arrives, wherever its tokens break its lines, what is shown before
\* its last heading and its finished code stays what it is, although all of the
\* transcript is split and rendered again (render_chat_stream).
SettledStays ==
  [][stream # stream' /\ stream' # <<>> =>
       IsPrefix(Uncoloured(Settled(shown.page)), Uncoloured(shown'.page))]_vars
=============================================================================
