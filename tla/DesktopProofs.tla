----------------------------- MODULE DesktopProofs -----------------------------
(***************************************************************************)
(* Proofs about Desktop, in three parts that build on each other, each     *)
(* with an inductive invariant of its own:                                 *)
(*                                                                         *)
(*   Inductive    the four places that know which session is open or       *)
(*                listed stay in agreement, or disagree only because a     *)
(*                session could not be loaded, for any user, any network   *)
(*                and any statements that fail; what texts the messages    *)
(*                are made of does not matter, and it says nothing of it;  *)
(*   Telling      every token that was delivered is shown, once and in     *)
(*                order, again for any user and any failures; this needs   *)
(*                the texts, and the contract of the network layer;        *)
(*   Conversing   for a user who waits for each answer and attaches        *)
(*                nothing, a conversation passes through three stages, and *)
(*                what is stored, shown and sent stays the same, until a   *)
(*                statement fails.                                         *)
(***************************************************************************)
EXTENDS Desktop, SequenceTheorems, FiniteSetTheorems, TLAPS

\* The parts of the state the argument is about.
Shape ==
  /\ DOMAIN stored \subseteq Session
  /\ current \in Session \cup {Nowhere}
  /\ {"session", "messages", "stream", "last"} \subseteq DOMAIN panel
  /\ "failed" \in DOMAIN loaded
  /\ listed \in Seq(Session)
  /\ selected \in Nat /\ menu \in Nat
  /\ meant \in [session : Session \cup {Nowhere}, answered : BOOLEAN]

\* A row is selected only while its session is open, or another one: with no session
\* open there is none, so that no menu can be open when a prompt creates a session.
RowNeedsSession ==
  /\ selected # 0 => current # Nowhere
  /\ menu # 0 => current # Nowhere

Inductive == Shape /\ SessionsAgree /\ SidebarInStep /\ RowNeedsSession

-----------------------------------------------------------------------------
(* Listings. *)

LEMMA ListingLength ==
  ASSUME NEW S, NEW list \in Seq(S), IsInjective(list)
  PROVE  Cardinality(Range(list)) = Len(list)
<1> DEFINE n == Len(list)
<1>1. n \in Nat /\ DOMAIN list = 1..n /\ list \in [1..n -> Range(list)]
  BY LenProperties DEF Range
<1>2. IsFiniteSet(1..n) /\ Cardinality(1..n) = n
  BY <1>1, FS_Interval
<1>3. list \in Bijection(1..n, Range(list))
  BY <1>1 DEF Bijection, Injection, Surjection, IsInjective, Range
<1>4. ExistsBijection(1..n, Range(list))
  BY <1>3 DEF ExistsBijection
<1> HIDE DEF n
<1>5. Cardinality(Range(list)) = Cardinality(1..n)
  BY <1>2, <1>4, FS_Bijection
<1> QED BY <1>2, <1>5 DEF n

\* A rebuilt list names each session once, and the row of a session is one of its rows.
LEMMA ListingRows ==
  ASSUME NEW S \in SUBSET Session, NEW order, NEW pins, NEW list \in Listings(S, order, pins),
         NEW s
  PROVE  LET row == Row(list, s) IN
         /\ list \in Seq(Session) /\ Range(list) = S /\ IsInjective(list)
         /\ row \in Nat /\ row <= Len(list)
         /\ s \notin S => row = 0
<1>1. list \in BoundedSeq(S, Cardinality(S)) /\ Range(list) = S /\ IsInjective(list)
  BY DEF Listings
<1>2. list \in Seq(Session)
  <2>1. PICK m \in 0..Cardinality(S) : list \in [1..m -> S]
    BY <1>1 DEF BoundedSeq, SeqOf
  <2>2. m \in Nat /\ list \in [1..m -> Session]
    BY <2>1
  <2> QED BY <2>2
<1>3. Len(list) \in Nat /\ DOMAIN list = 1..Len(list)
  BY <1>2, LenProperties
<1>4. CASE s \in Range(list)
  <2>1. \E i \in DOMAIN list : list[i] = s
    BY <1>4 DEF Range
  <2>2. Row(list, s) \in DOMAIN list
    BY <1>4, <2>1 DEF Row
  <2> QED BY <1>1, <1>2, <1>3, <1>4, <2>2
<1>5. CASE s \notin Range(list)
  <2>1. Row(list, s) = 0
    BY <1>5 DEF Row
  <2> QED BY <1>1, <1>2, <1>3, <2>1
<1> QED BY <1>4, <1>5

\* So it is with the list that is shown, and the row selected in it.
LEMMA PopulateLists ==
  ASSUME DOMAIN stored' \subseteq Session, NEW s, Populate(s)
  PROVE  /\ listed' \in Seq(Session) /\ Range(listed') = DOMAIN stored' /\ IsInjective(listed')
         /\ selected' \in Nat /\ selected' <= Len(listed')
         /\ s \notin DOMAIN stored' => selected' = 0
BY ListingRows DEF Populate

\* A list that is rebuilt for the same sessions has as many rows as before.
LEMMA SameRows ==
  ASSUME Inductive, DOMAIN stored' = DOMAIN stored, NEW s, Populate(s)
  PROVE  Len(listed') = Len(listed)
<1>1. /\ listed \in Seq(Session) /\ Range(listed) = DOMAIN stored /\ IsInjective(listed)
  BY DEF Inductive, Shape, SidebarInStep
<1>2. /\ listed' \in Seq(Session) /\ Range(listed') = DOMAIN stored' /\ IsInjective(listed')
  BY PopulateLists DEF Inductive, Shape
<1>3. Cardinality(DOMAIN stored) = Len(listed)
  BY <1>1, ListingLength
<1>4. Cardinality(DOMAIN stored') = Len(listed')
  BY <1>2, ListingLength
<1> QED BY <1>3, <1>4

-----------------------------------------------------------------------------
(* The panel. *)

LEMMA PanelKeepsSession ==
  ASSUME NEW p, {"session", "messages", "stream", "last"} \subseteq DOMAIN p, NEW text
  PROVE  /\ WithUserMessage(p, text).session = p.session
         /\ WithToken(p, text).session = p.session
         /\ {"session", "messages", "stream", "last"} \subseteq DOMAIN WithUserMessage(p, text)
         /\ {"session", "messages", "stream", "last"} \subseteq DOMAIN WithToken(p, text)
BY DEF WithUserMessage, WithToken, Flushed

LEMMA PanelShapes ==
  /\ "failed" \in DOMAIN NeverLoaded
  /\ BlankPanel.session = Nowhere
  /\ {"session", "messages", "stream", "last"} \subseteq DOMAIN BlankPanel
  /\ \A s, log : /\ LoadedPanel(s, log).session = s
                 /\ {"session", "messages", "stream", "last"} \subseteq DOMAIN LoadedPanel(s, log)
BY DEF BlankPanel, LoadedPanel, NeverLoaded

-----------------------------------------------------------------------------
(* Steps. *)

LEMMA InitHolds ==
  ASSUME Init
  PROVE  Inductive
<1>1. stored = [s \in {} |-> <<>>] /\ listed = <<>> /\ selected = 0 /\ menu = 0
      /\ current = Nowhere /\ panel = BlankPanel /\ meant = Unmeant /\ loaded = NeverLoaded
  BY DEF Init, History!Init
<1>2. DOMAIN stored = {} /\ DOMAIN listed = {} /\ listed \in Seq(Session) /\ Len(listed) = 0
  BY <1>1
<1>3. Range(listed) = {} /\ IsInjective(listed)
  BY <1>2 DEF Range, IsInjective
<1>4. Shape
  BY <1>1, <1>2, PanelShapes DEF Shape, Unmeant
<1>5. SessionsAgree /\ RowNeedsSession
  BY <1>1, PanelShapes DEF SessionsAgree, RowNeedsSession
<1>6. SidebarInStep
  BY <1>1, <1>2, <1>3 DEF SidebarInStep
<1> QED BY <1>4, <1>5, <1>6 DEF Inductive

\* What the window shows is loaded from a transcript or left blank.
LEMMA SendKeeps ==
  ASSUME Inductive, NEW d \in Draft, Send(d)
  PROVE  Inductive'
<1>1. PICK text : panel' = WithUserMessage(panel, text)
  BY DEF Send
<1>2. UNCHANGED <<stored, unsaved, loaded, current, listed, selected, menu, meant>>
  BY DEF Send, history, sidebar, dialog
<1>3. Shape' /\ panel'.session = panel.session
  BY <1>1, <1>2, PanelKeepsSession DEF Inductive, Shape
<1>4. SessionsAgree' /\ RowNeedsSession' /\ SidebarInStep'
  BY <1>2, <1>3 DEF Inductive, SessionsAgree, RowNeedsSession, SidebarInStep
<1> QED BY <1>3, <1>4 DEF Inductive

LEMMA NewChatKeeps ==
  ASSUME Inductive, NewChat
  PROVE  Inductive'
<1>1. /\ UNCHANGED <<stored, unsaved, listed, menu, meant>>
      /\ panel' = BlankPanel /\ current' = Nowhere /\ selected' = 0 /\ menu = 0
      /\ "failed" \in DOMAIN loaded'
  BY DEF NewChat, Active, Load, history, dialog
<1>2. Shape'
  BY <1>1, PanelShapes DEF Inductive, Shape
<1>3. SessionsAgree' /\ RowNeedsSession'
  BY <1>1, PanelShapes DEF SessionsAgree, RowNeedsSession
<1>4. Len(listed) \in Nat
  BY LenProperties DEF Inductive, Shape
<1>5. SidebarInStep'
  BY <1>1, <1>4 DEF Inductive, SidebarInStep
<1> QED BY <1>2, <1>3, <1>5 DEF Inductive

LEMMA SelectSessionKeeps ==
  ASSUME Inductive, NEW row \in DOMAIN listed, SelectSession(row)
  PROVE  Inductive'
<1>1. /\ UNCHANGED <<stored, unsaved, listed, menu, meant>>
      /\ current' = listed[row] /\ selected' = row /\ menu = 0
      /\ LoadSession(listed[row], delivered) \/ LoadNothing(panel, loaded)
  BY DEF SelectSession, Active, history, dialog
<1>2. listed[row] \in DOMAIN stored
  BY DEF Inductive, SidebarInStep, Range
<1>3. /\ panel'.session = listed[row] \/ (panel' = panel /\ loaded'.failed)
      /\ {"session", "messages", "stream", "last"} \subseteq DOMAIN panel'
      /\ "failed" \in DOMAIN loaded'
  <2>1. CASE LoadSession(listed[row], delivered)
    <3>1. PICK log : Load(LoadedPanel(listed[row], log), delivered)
      BY <2>1 DEF LoadSession
    <3>2. panel' = LoadedPanel(listed[row], log) /\ "failed" \in DOMAIN loaded'
      BY <3>1 DEF Load
    <3> QED BY <3>2, PanelShapes
  <2>2. CASE LoadNothing(panel, loaded)
    <3>1. "failed" \in DOMAIN loaded
      BY DEF Inductive, Shape
    <3>2. panel' = panel /\ "failed" \in DOMAIN loaded' /\ loaded'.failed
      BY <2>2, <3>1 DEF LoadNothing
    <3> QED BY <3>2 DEF Inductive, Shape
  <2> QED BY <1>1, <2>1, <2>2
<1>4. listed[row] \in Session /\ row \in Nat /\ row <= Len(listed)
  BY LenProperties, ElementOfSeq DEF Inductive, Shape
<1>5. Shape'
  BY <1>1, <1>3, <1>4 DEF Inductive, Shape
<1>6. SessionsAgree' /\ RowNeedsSession'
  BY <1>1, <1>2, <1>3, <1>4, NowhereAssumption DEF Inductive, SessionsAgree, RowNeedsSession
<1>7. SidebarInStep'
  BY <1>1, <1>4 DEF Inductive, SidebarInStep
<1> QED BY <1>5, <1>6, <1>7 DEF Inductive

LEMMA OpenMenuKeeps ==
  ASSUME Inductive, OpenMenu
  PROVE  Inductive'
<1>1. /\ UNCHANGED <<stored, unsaved, loaded, listed, selected, current, panel>>
      /\ menu' = selected /\ selected # 0
      /\ meant' = [session |-> listed[selected], answered |-> FALSE]
  BY DEF OpenMenu, history, sidebar
<1>2. selected \in DOMAIN listed
  BY <1>1, LenProperties DEF Inductive, Shape, SidebarInStep
<1>3. listed[selected] \in Session
  BY <1>2, ElementOfSeq, LenProperties DEF Inductive, Shape
<1>4. Shape'
  BY <1>1, <1>3 DEF Inductive, Shape
<1>5. SessionsAgree' /\ RowNeedsSession' /\ SidebarInStep'
  BY <1>1 DEF Inductive, SessionsAgree, RowNeedsSession, SidebarInStep
<1> QED BY <1>4, <1>5 DEF Inductive

LEMMA DismissKeeps ==
  ASSUME Inductive, Dismiss
  PROVE  Inductive'
<1>1. /\ UNCHANGED <<stored, unsaved, loaded, listed, selected, current, panel>>
      /\ menu' = 0 /\ meant' = Unmeant
  BY DEF Dismiss, CloseMenu, history, sidebar
<1>2. Shape'
  BY <1>1 DEF Inductive, Shape, Unmeant
<1>3. Len(listed) \in Nat
  BY LenProperties DEF Inductive, Shape
<1>4. SessionsAgree' /\ RowNeedsSession' /\ SidebarInStep'
  BY <1>1, <1>3 DEF Inductive, SessionsAgree, RowNeedsSession, SidebarInStep
<1> QED BY <1>2, <1>4 DEF Inductive

\* The list is rebuilt with no row selected, and the menu is closed.
LEMMA RelistedKeeps ==
  ASSUME Inductive, menu' = 0, meant' = Unmeant, Populate(Nowhere),
         DOMAIN stored' \subseteq Session, SessionsAgree',
         {"session", "messages", "stream", "last"} \subseteq DOMAIN panel',
         "failed" \in DOMAIN loaded',
         current' \in Session \cup {Nowhere}
  PROVE  Inductive'
<1>1. Nowhere \notin DOMAIN stored'
  BY NowhereAssumption
<1>2. /\ listed' \in Seq(Session) /\ Range(listed') = DOMAIN stored' /\ IsInjective(listed')
      /\ selected' = 0
  BY <1>1, PopulateLists
<1>3. Len(listed') \in Nat
  BY <1>2, LenProperties
<1>4. Shape'
  BY <1>2 DEF Shape, Unmeant
<1>5. RowNeedsSession' /\ SidebarInStep'
  BY <1>2, <1>3 DEF RowNeedsSession, SidebarInStep
<1> QED BY <1>4, <1>5 DEF Inductive

LEMMA TogglePinKeeps ==
  ASSUME Inductive, TogglePin
  PROVE  Inductive'
<1>1. /\ UNCHANGED <<stored, unsaved, loaded, current, panel>>
      /\ menu' = 0 /\ meant' = Unmeant /\ Populate(Nowhere)
  BY DEF TogglePin, CloseMenu
<1>2. SessionsAgree'
  BY <1>1 DEF Inductive, SessionsAgree
<1> QED BY <1>1, <1>2, RelistedKeeps DEF Inductive, Shape

LEMMA RenameKeeps ==
  ASSUME Inductive, Rename
  PROVE  Inductive'
<1>1. /\ UNCHANGED <<stored, unsaved, loaded, current, panel>>
      /\ menu' = 0 /\ meant' = Unmeant /\ Populate(Nowhere)
  BY DEF Rename, CloseMenu
<1>2. SessionsAgree'
  BY <1>1 DEF Inductive, SessionsAgree
<1> QED BY <1>1, <1>2, RelistedKeeps DEF Inductive, Shape

LEMMA DeleteChatKeeps ==
  ASSUME Inductive, DeleteChat
  PROVE  Inductive'
<1>1. /\ menu' = 0 /\ meant' = Unmeant /\ Populate(Nowhere)
      /\ panel' = BlankPanel /\ current' = Nowhere /\ "failed" \in DOMAIN loaded'
      /\ stored' = History!Without(stored, listed[menu]) \/ stored' = stored
  BY DEF DeleteChat, CloseMenu, Load
<1>2. DOMAIN stored' \subseteq Session
  BY <1>1 DEF History!Without, Inductive, Shape
<1>3. SessionsAgree'
  BY <1>1, PanelShapes DEF SessionsAgree
<1> QED BY <1>1, <1>2, <1>3, PanelShapes, RelistedKeeps

\* A prompt with no session open creates one and selects its row; no menu is open then,
\* because there was no row to open it on.
LEMMA HandlePromptKeeps ==
  ASSUME Inductive, NEW t \in Task, HandlePrompt(t)
  PROVE  Inductive'
<1> DEFINE text == Head(submitted)
           opened(s) == [panel EXCEPT !.session = IF current = Nowhere THEN s ELSE @]
<1>1. PICK s \in Session, made \in BOOLEAN, written \in BOOLEAN :
         /\ IF current = Nowhere
              THEN /\ unsaved' = IF made THEN unsaved ELSE unsaved \cup {s}
                   /\ stored' = Appended(IF made THEN History!With(stored, s) ELSE stored,
                                         s, UserTalk(text), written)
              ELSE /\ s = current /\ UNCHANGED unsaved
                   /\ stored' = Appended(stored, s, UserTalk(text), written)
         /\ IF current = Nowhere THEN Populate(s) ELSE UNCHANGED sidebar
         /\ current' = s
         /\ panel' = WithUserMessage(opened(s), text)
  BY DEF HandlePrompt
<1>2. UNCHANGED <<menu, meant, loaded>>
  BY DEF HandlePrompt, dialog
<1>3. /\ panel'.session = IF current = Nowhere THEN s ELSE panel.session
      /\ {"session", "messages", "stream", "last"} \subseteq DOMAIN panel'
  <2>1. /\ {"session", "messages", "stream", "last"} \subseteq DOMAIN opened(s)
        /\ opened(s).session = IF current = Nowhere THEN s ELSE panel.session
    BY <1>1 DEF Inductive, Shape
  <2> HIDE DEF opened, text
  <2> QED BY <1>1, <2>1, PanelKeepsSession
<1>4. CASE current = Nowhere
  <2>1. /\ DOMAIN stored' = IF made THEN DOMAIN stored \cup {s} ELSE DOMAIN stored
        /\ s \in DOMAIN stored' \cup unsaved'
    BY <1>1, <1>4 DEF Appended, History!Extended, History!With
  <2>2. DOMAIN stored' \subseteq Session /\ Populate(s)
    BY <1>1, <1>4, <2>1 DEF Inductive, Shape
  <2>3. /\ listed' \in Seq(Session) /\ Range(listed') = DOMAIN stored' /\ IsInjective(listed')
        /\ selected' \in Nat /\ selected' <= Len(listed')
    BY <2>2, PopulateLists
  <2>4. menu' = 0 /\ Len(listed') \in Nat
    BY <1>2, <1>4, <2>3, LenProperties DEF Inductive, RowNeedsSession
  <2>5. Shape'
    BY <1>1, <1>2, <1>3, <2>2, <2>3 DEF Inductive, Shape
  <2>6. SessionsAgree' /\ RowNeedsSession'
    BY <1>1, <1>3, <1>4, <2>1, NowhereAssumption DEF SessionsAgree, RowNeedsSession
  <2>7. SidebarInStep'
    BY <2>3, <2>4 DEF SidebarInStep
  <2> QED BY <2>5, <2>6, <2>7 DEF Inductive
<1>5. CASE current # Nowhere
  <2>1. s = current /\ UNCHANGED <<listed, selected, current, unsaved>>
    BY <1>1, <1>5 DEF sidebar
  <2>2. DOMAIN stored' = DOMAIN stored
    BY <1>1, <1>5 DEF Appended, History!Extended
  <2>3. Shape'
    BY <1>2, <1>3, <2>1, <2>2 DEF Inductive, Shape
  <2>4. SessionsAgree' /\ RowNeedsSession' /\ SidebarInStep'
    BY <1>2, <1>3, <1>5, <2>1, <2>2 DEF Inductive, SessionsAgree, RowNeedsSession, SidebarInStep
  <2> QED BY <2>3, <2>4 DEF Inductive
<1> QED BY <1>4, <1>5

LEMMA HandleTokenKeeps ==
  ASSUME Inductive, HandleToken
  PROVE  Inductive'
<1>1. PICK text : panel' = WithToken(panel, text)
  BY DEF HandleToken
<1>2. UNCHANGED <<stored, unsaved, loaded, current, listed, selected, menu, meant>>
  BY DEF HandleToken, history, sidebar, dialog
<1>3. Shape' /\ panel'.session = panel.session
  BY <1>1, <1>2, PanelKeepsSession DEF Inductive, Shape
<1>4. SessionsAgree' /\ RowNeedsSession' /\ SidebarInStep'
  BY <1>2, <1>3 DEF Inductive, SessionsAgree, RowNeedsSession, SidebarInStep
<1> QED BY <1>3, <1>4 DEF Inductive

\* The end of an answer rebuilds the list for the same sessions: an open menu keeps a row
\* of it, but perhaps that of another session.
LEMMA HandleFinalKeeps ==
  ASSUME Inductive, HandleFinal
  PROVE  Inductive'
<1>1. /\ UNCHANGED <<current, panel, menu, unsaved, loaded>>
      /\ meant' = [meant EXCEPT !.answered = menu # 0]
  BY DEF HandleFinal
<1>2. \/ UNCHANGED <<stored, listed, selected>>
      \/ /\ current # Nowhere /\ Populate(current)
         /\ \E written \in BOOLEAN :
              stored' = Appended(stored, current, AssistantTalk(panel.stream), written)
  BY DEF HandleFinal, sidebar
<1>3. DOMAIN stored' = DOMAIN stored
  BY <1>2 DEF Appended, History!Extended
<1>4. meant' \in [session : Session \cup {Nowhere}, answered : BOOLEAN]
      /\ (menu # 0 => meant'.answered)
  <2>1. (menu # 0) \in BOOLEAN
    OBVIOUS
  <2> QED BY <1>1, <2>1 DEF Inductive, Shape
<1>5. SessionsAgree'
  BY <1>1, <1>3 DEF Inductive, SessionsAgree
<1>6. CASE UNCHANGED <<stored, listed, selected>>
  <2>1. Shape'
    BY <1>1, <1>4, <1>6 DEF Inductive, Shape
  <2>2. RowNeedsSession' /\ SidebarInStep'
    BY <1>1, <1>4, <1>6 DEF Inductive, RowNeedsSession, SidebarInStep
  <2> QED BY <1>5, <2>1, <2>2 DEF Inductive
<1>7. CASE current # Nowhere /\ Populate(current)
  <2>1. DOMAIN stored' \subseteq Session
    BY <1>3 DEF Inductive, Shape
  <2>2. /\ listed' \in Seq(Session) /\ Range(listed') = DOMAIN stored' /\ IsInjective(listed')
        /\ selected' \in Nat /\ selected' <= Len(listed')
    BY <1>7, <2>1, PopulateLists
  <2>3. Len(listed') = Len(listed)
    BY <1>3, <1>7, SameRows
  <2>4. Shape'
    BY <1>1, <1>4, <2>1, <2>2 DEF Inductive, Shape
  <2>5. RowNeedsSession' /\ SidebarInStep'
    BY <1>1, <1>4, <1>7, <2>2, <2>3 DEF Inductive, RowNeedsSession, SidebarInStep
  <2> QED BY <1>5, <2>4, <2>5 DEF Inductive
<1> QED BY <1>2, <1>6, <1>7

\* After a restart the first session of the list is open, or none if there is none.
LEMMA RestartKeeps ==
  ASSUME Inductive, Restart
  PROVE  Inductive'
<1>1. /\ UNCHANGED <<stored, unsaved, later, pinned>>
      /\ listed' \in Listings(DOMAIN stored, later, pinned)
      /\ current' = IF listed' = <<>> THEN Nowhere ELSE Head(listed')
      /\ menu' = 0 /\ meant' = Unmeant
      /\ \/ listed' = <<>> /\ Load(BlankPanel, 0) /\ selected' = 0
         \/ listed' # <<>> /\ LoadSession(current', 0) /\ selected' = Row(listed', current')
         \/ listed' # <<>> /\ LoadNothing(BlankPanel, NeverLoaded) /\ selected' = 0
  BY DEF Restart, history
<1>2. DOMAIN stored' \subseteq Session /\ DOMAIN stored' = DOMAIN stored
  BY <1>1 DEF Inductive, Shape
<1>3. PICK s : s = current'
  OBVIOUS
<1>4. LET row == Row(listed', s) IN
      /\ listed' \in Seq(Session) /\ Range(listed') = DOMAIN stored' /\ IsInjective(listed')
      /\ row \in Nat /\ row <= Len(listed')
  BY <1>1, <1>2, ListingRows
<1>5. Len(listed') \in Nat /\ selected' \in Nat /\ selected' <= Len(listed')
  BY <1>1, <1>3, <1>4, LenProperties
<1>6. /\ panel'.session = current' \/ (panel' = BlankPanel /\ loaded'.failed)
      /\ panel'.session \in {current', Nowhere}
      /\ {"session", "messages", "stream", "last"} \subseteq DOMAIN panel'
      /\ "failed" \in DOMAIN loaded'
  <2>1. CASE listed' = <<>> /\ Load(BlankPanel, 0)
    <3>1. panel' = BlankPanel /\ "failed" \in DOMAIN loaded' /\ current' = Nowhere
      BY <1>1, <2>1 DEF Load
    <3> QED BY <3>1, PanelShapes
  <2>2. CASE LoadSession(current', 0)
    <3>1. PICK log : Load(LoadedPanel(current', log), 0)
      BY <2>2 DEF LoadSession
    <3>2. panel' = LoadedPanel(current', log) /\ "failed" \in DOMAIN loaded'
      BY <3>1 DEF Load
    <3> QED BY <3>2, PanelShapes
  <2>3. CASE LoadNothing(BlankPanel, NeverLoaded)
    <3>1. panel' = BlankPanel /\ "failed" \in DOMAIN loaded' /\ loaded'.failed
      BY <2>3, PanelShapes DEF LoadNothing
    <3> QED BY <3>1, PanelShapes
  <2> QED BY <1>1, <2>1, <2>2, <2>3
<1>7. /\ current' # Nowhere => current' \in DOMAIN stored' /\ listed' # <<>>
      /\ current' = Nowhere => listed' = <<>>
  <2>1. CASE listed' = <<>>
    BY <1>1, <2>1
  <2>2. CASE listed' # <<>>
    <3>1. 1 \in DOMAIN listed' /\ current' = listed'[1]
      BY <1>1, <1>4, <2>2, LenProperties, EmptySeq
    <3>2. current' \in DOMAIN stored'
      BY <1>4, <3>1 DEF Range
    <3> QED BY <1>2, <2>2, <3>2, NowhereAssumption
  <2> QED BY <2>1, <2>2
<1>8. Shape'
  BY <1>1, <1>2, <1>4, <1>5, <1>6, <1>7 DEF Shape, Unmeant
<1>9. SessionsAgree'
  BY <1>6, <1>7 DEF SessionsAgree
<1>10. RowNeedsSession'
  BY <1>1, <1>7 DEF RowNeedsSession
<1>11. SidebarInStep'
  BY <1>1, <1>4, <1>5 DEF SidebarInStep
<1> QED BY <1>8, <1>9, <1>10, <1>11 DEF Inductive

\* The spinner, the worker thread and an empty prompt change none of it.
LEMMA OthersKeep ==
  ASSUME Inductive, CancelGeneration \/ DropPrompt \/ Work \/ UNCHANGED vars
  PROVE  Inductive'
<1>1. UNCHANGED <<stored, unsaved, loaded, current, panel, listed, selected, menu, meant>>
  BY DEF CancelGeneration, DropPrompt, Work, vars, history, sidebar, dialog
<1> QED BY <1>1 DEF Inductive, Shape, SessionsAgree, SidebarInStep, RowNeedsSession

-----------------------------------------------------------------------------
(* Theorems: the places agree. *)

\* Whatever the user does and the network answers, in any order, the agreement holds.
THEOREM InductiveInvariant == Spec => []Inductive
<1>1. Init => Inductive
  BY InitHolds
<1>2. Inductive /\ [Next]_vars => Inductive'
  <2> SUFFICES ASSUME Inductive, [Next]_vars PROVE Inductive'
    OBVIOUS
  <2>1. ASSUME NEW d \in Draft, Send(d) PROVE Inductive'
    BY <2>1, SendKeeps
  <2>2. CASE NewChat
    BY <2>2, NewChatKeeps
  <2>3. ASSUME NEW row \in DOMAIN listed, SelectSession(row) PROVE Inductive'
    BY <2>3, SelectSessionKeeps
  <2>4. CASE OpenMenu
    BY <2>4, OpenMenuKeeps
  <2>5. CASE Dismiss
    BY <2>5, DismissKeeps
  <2>6. CASE TogglePin
    BY <2>6, TogglePinKeeps
  <2>7. CASE Rename
    BY <2>7, RenameKeeps
  <2>8. CASE DeleteChat
    BY <2>8, DeleteChatKeeps
  <2>9. ASSUME NEW t \in Task, HandlePrompt(t) PROVE Inductive'
    BY <2>9, HandlePromptKeeps
  <2>10. CASE HandleToken
    BY <2>10, HandleTokenKeeps
  <2>11. CASE HandleFinal
    BY <2>11, HandleFinalKeeps
  <2>12. CASE Restart
    BY <2>12, RestartKeeps
  <2>13. CASE CancelGeneration \/ DropPrompt \/ Work \/ UNCHANGED vars
    BY <2>13, OthersKeep
  <2> QED BY <2>1, <2>2, <2>3, <2>4, <2>5, <2>6, <2>7, <2>8, <2>9, <2>10, <2>11, <2>12,
             <2>13 DEF Next
<1> QED BY <1>1, <1>2, PTL DEF Spec

\* Whatever statements fail, the window and the panel disagree about which session is open
\* only after a session that could not be loaded, and neither keeps one that was deleted.
THEOREM OpenSessionAgreed == Spec => []SessionsAgree
<1>1. Inductive => SessionsAgree
  BY DEF Inductive
<1> QED BY <1>1, InductiveInvariant, PTL

\* The list shows the sessions that exist, and the row captured by an open menu stays a
\* row of it, of the same session until an answer has ended.
THEOREM SidebarStaysInStep == Spec => []SidebarInStep
<1>1. Inductive => SidebarInStep
  BY DEF Inductive
<1> QED BY <1>1, InductiveInvariant, PTL

-----------------------------------------------------------------------------
(* Induction, and sequences of sequences. *)

\* The network layer, with what is proved of its contract.  Only the part about Client is
\* used, which has none of the filter: any values do for the constants and variables that
\* belong to it, as long as they are as the assumptions want them.
Contract == INSTANCE StreamWorkerProofs
  WITH Prompt <- Task, CacheKey <- [t \in Task |-> "any"],
       Spelling <- [w \in Word \cup {Notice} |-> <<>>], OpenTag <- <<1, 2>>, CloseTag <- <<3, 4>>,
       MaxPosted <- 0, MaxToggles <- 0, thinking <- 0, toggles <- 0, asOf <- 0,
       enabled <- 0, inside <- 0, passed <- 0

\* They are.
LEMMA ContractApplies ==
  /\ {0, 0} \subseteq Nat
  /\ /\ <<1, 2>> \in Seq(Contract!Range(<<1, 2>>)) /\ <<3, 4>> \in Seq(Contract!Range(<<3, 4>>))
     /\ Len(<<1, 2>>) = 2 /\ Len(<<3, 4>>) = 2 /\ <<1, 2>> # <<3, 4>>
     /\ <<1, 2>>[2] # <<3, 4>>[1]
  /\ \A w \in Word \cup {Notice} :
        [v \in Word \cup {Notice} |-> <<>>][w]
          \in Seq(Contract!Range([v \in Word \cup {Notice} |-> <<>>][w]))
<1>1. <<1, 2>> \in Seq(Contract!Range(<<1, 2>>))
  <2>1. 1 \in Contract!Range(<<1, 2>>) /\ 2 \in Contract!Range(<<1, 2>>)
    BY DEF Contract!Range
  <2> QED BY <2>1
<1>2. <<3, 4>> \in Seq(Contract!Range(<<3, 4>>))
  <2>1. 3 \in Contract!Range(<<3, 4>>) /\ 4 \in Contract!Range(<<3, 4>>)
    BY DEF Contract!Range
  <2> QED BY <2>1
<1>3. /\ Len(<<1, 2>>) = 2 /\ Len(<<3, 4>>) = 2 /\ <<1, 2>> # <<3, 4>>
      /\ <<1, 2>>[2] # <<3, 4>>[1]
  OBVIOUS
<1>4. ASSUME NEW w \in Word \cup {Notice}
      PROVE  [v \in Word \cup {Notice} |-> <<>>][w]
               \in Seq(Contract!Range([v \in Word \cup {Notice} |-> <<>>][w]))
  OBVIOUS
<1> QED BY <1>1, <1>2, <1>3, <1>4

\* A set of numbers that has zero, and with a number the next one, has them all: induction
\* without an operator as a parameter.
LEMMA Induction ==
  ASSUME NEW S, 0 \in S, \A n \in Nat : n \in S => n + 1 \in S
  PROVE  Nat \subseteq S
<1>1. SUFFICES ASSUME Nat \ S # {} PROVE FALSE
  OBVIOUS
<1> DEFINE R == {pair \in Nat \X Nat : pair[1] < pair[2]}
<1>2. IsWellFoundedOn(R, Nat)
  BY NatLessThanWellFounded DEF OpToRel
<1> HIDE DEF R
<1>3. PICK x \in Nat \ S : \A y \in Nat \ S : ~(<<y, x>> \in R)
  BY <1>1, <1>2, WFMin
<1>4. x - 1 \in Nat /\ (x - 1) + 1 = x
  <2>1. x # 0
    OBVIOUS
  <2> QED BY <2>1
<1>5. x - 1 \notin S
  BY <1>4
<1>6. <<x - 1, x>> \in R
  BY <1>4 DEF R
<1> QED BY <1>3, <1>4, <1>5, <1>6

\* F[k] is what the first k sequences of ss are together.
Joins(F, ss, n, S) ==
  /\ F \in [0..n -> Seq(S)]
  /\ F[0] = <<>>
  /\ \A k \in 1..n : F[k] = F[k - 1] \o ss[k]

\* There is a running concatenation of any sequence of sequences.
LEMMA JoinsExist ==
  ASSUME NEW S, NEW ss \in Seq(Seq(S))
  PROVE  \E F : Joins(F, ss, Len(ss), S)
<1> DEFINE N == {n \in Nat : n <= Len(ss) => \E F : Joins(F, ss, n, S)}
<1>1. Len(ss) \in Nat /\ \A i \in 1..Len(ss) : ss[i] \in Seq(S)
  BY LenProperties, ElementOfSeq
<1>2. 0 \in N
  <2> DEFINE F == [k \in 0..0 |-> <<>>]
  <2>1. <<>> \in Seq(S)
    OBVIOUS
  <2>2. Joins(F, ss, 0, S)
    BY <2>1 DEF Joins
  <2> QED BY <2>2
<1>3. ASSUME NEW n \in Nat, n \in N PROVE n + 1 \in N
  <2>1. SUFFICES ASSUME n + 1 <= Len(ss) PROVE \E F : Joins(F, ss, n + 1, S)
    OBVIOUS
  <2>2. PICK F : Joins(F, ss, n, S)
    BY <1>1, <1>3, <2>1
  <2> DEFINE G == [k \in 0..(n + 1) |-> IF k = n + 1 THEN F[n] \o ss[n + 1] ELSE F[k]]
  <2>3. F[n] \in Seq(S) /\ ss[n + 1] \in Seq(S)
    BY <1>1, <2>1, <2>2 DEF Joins
  <2>4. F[n] \o ss[n + 1] \in Seq(S)
    BY <2>3, ConcatProperties
  <2>5. G \in [0..(n + 1) -> Seq(S)]
    BY <2>2, <2>4 DEF Joins
  <2>6. G[0] = <<>>
    BY <2>2 DEF Joins
  <2>7. ASSUME NEW k \in 1..(n + 1) PROVE G[k] = G[k - 1] \o ss[k]
    <3>1. CASE k = n + 1
      <4>1. k \in 0..(n + 1) /\ k - 1 \in 0..(n + 1) /\ k - 1 = n /\ n # n + 1
        BY <3>1
      <4> QED BY <3>1, <4>1
    <3>2. CASE k # n + 1
      <4>1. k \in 1..n /\ k - 1 \in 0..(n + 1) /\ k \in 0..(n + 1) /\ k - 1 # n + 1
        BY <3>2
      <4> QED BY <2>2, <3>2, <4>1 DEF Joins
    <3> QED BY <3>1, <3>2
  <2> HIDE DEF G
  <2> QED BY <2>5, <2>6, <2>7 DEF Joins
<1> HIDE DEF N
<1>4. Len(ss) \in N
  BY <1>1, <1>2, <1>3, Induction
<1> QED BY <1>1, <1>4 DEF N

\* What the community modules flatten a sequence of sequences to is the last of these.
LEMMA FlattenByJoins ==
  ASSUME NEW S, NEW ss \in Seq(Seq(S)), NEW F, Joins(F, ss, Len(ss), S)
  PROVE  FlattenSeq(ss) = F[Len(ss)] /\ FlattenSeq(ss) \in Seq(S)
<1> DEFINE n == Len(ss)
           Rec(g) == g = [i \in 1..n |-> IF i = 1 THEN ss[i] ELSE g[i - 1] \o ss[i]]
           it == CHOOSE g : Rec(g)
<1>1. n \in Nat /\ \A i \in 1..n : ss[i] \in Seq(S)
  BY LenProperties, ElementOfSeq
<1>2. FlattenSeq(ss) = IF n = 0 THEN ss ELSE it[n]
  BY DEF FlattenSeq
<1> HIDE DEF n
<1>3. Rec([i \in 1..n |-> F[i]])
  <2> DEFINE f == [i \in 1..n |-> F[i]]
  <2>1. ASSUME NEW i \in 1..n, i = 1 PROVE F[i] = ss[i]
    <3>1. F[i] = F[i - 1] \o ss[i] /\ F[0] = <<>>
      BY DEF Joins, n
    <3>2. i - 1 = 0
      BY <2>1
    <3>3. F[i] = <<>> \o ss[i]
      BY <3>1, <3>2
    <3>4. ss[i] \in Seq(S)
      BY <1>1
    <3> HIDE DEF f
    <3>5. <<>> \o ss[i] = ss[i]
      BY <3>4, ConcatEmptySeq
    <3> QED BY <3>3, <3>5
  <2>2. ASSUME NEW i \in 1..n, i # 1 PROVE F[i] = f[i - 1] \o ss[i]
    <3>1. i - 1 \in 1..n
      BY <1>1, <2>2
    <3> QED BY <3>1 DEF Joins, n
  <2>3. f = [i \in 1..n |-> IF i = 1 THEN ss[i] ELSE f[i - 1] \o ss[i]]
    BY <2>1, <2>2
  <2> QED BY <2>3
<1> HIDE DEF Rec
<1>4. Rec(it)
  BY <1>3, Zenon
<1>5. \A i \in 1..n : it[i] = IF i = 1 THEN ss[i] ELSE it[i - 1] \o ss[i]
  BY <1>4 DEF Rec
<1> HIDE DEF it
<1> DEFINE N == {k \in Nat : k \in 1..n => it[k] = F[k]}
<1>6. 0 \in N
  OBVIOUS
<1>7. ASSUME NEW k \in Nat, k \in N PROVE k + 1 \in N
  <2>1. SUFFICES ASSUME k + 1 \in 1..n PROVE it[k + 1] = F[k + 1]
    OBVIOUS
  <2>2. F[k + 1] = F[k] \o ss[k + 1]
    <3>1. (k + 1) - 1 = k
      BY <1>7
    <3> QED BY <2>1, <3>1 DEF Joins, n
  <2>3. CASE k = 0
    <3>1. F[0] = <<>>
      BY DEF Joins
    <3>2. F[1] = ss[1]
      BY <1>1, <2>1, <2>2, <2>3, <3>1, ConcatEmptySeq
    <3> QED BY <1>5, <2>1, <2>3, <3>2
  <2>4. CASE k # 0
    <3>1. k \in 1..n /\ k + 1 # 1 /\ (k + 1) - 1 = k
      BY <1>1, <2>1, <2>4
    <3>2. it[k] = F[k]
      BY <1>7, <3>1
    <3>3. it[k + 1] = it[k] \o ss[k + 1]
      BY <1>5, <2>1, <3>1
    <3> QED BY <2>2, <3>2, <3>3
  <2> QED BY <2>3, <2>4
<1> HIDE DEF N
<1>8. n \in N
  BY <1>1, <1>6, <1>7, Induction
<1>9. FlattenSeq(ss) = F[n]
  <2>1. CASE n = 0
    <3>1. ss = <<>>
      BY <2>1, EmptySeq DEF n
    <3> QED BY <1>2, <2>1, <3>1 DEF Joins
  <2>2. CASE n # 0
    <3>1. n \in 1..n
      BY <1>1, <2>2
    <3> QED BY <1>2, <1>8, <2>2, <3>1 DEF N
  <2> QED BY <2>1, <2>2
<1> QED BY <1>1, <1>9 DEF Joins, n

\* One more sequence comes last.
LEMMA FlattenOfMore ==
  ASSUME NEW S, NEW n \in Nat, NEW ss \in [1..n -> Seq(S)], NEW tt \in [1..(n + 1) -> Seq(S)],
         \A i \in 1..n : tt[i] = ss[i]
  PROVE  FlattenSeq(tt) = FlattenSeq(ss) \o tt[n + 1] /\ FlattenSeq(ss) \in Seq(S)
<1>1. ss \in Seq(Seq(S)) /\ Len(ss) = n /\ tt \in Seq(Seq(S)) /\ Len(tt) = n + 1
  <2> DEFINE T == Seq(S)
  <2> HIDE DEF T
  <2>1. \A m \in Nat : \A f \in [1..m -> T] : f \in Seq(T) /\ DOMAIN f = 1..m
    OBVIOUS
  <2>2. ss \in Seq(T) /\ DOMAIN ss = 1..n /\ tt \in Seq(T) /\ DOMAIN tt = 1..(n + 1)
    BY <2>1 DEF T
  <2>3. Len(ss) = n /\ Len(tt) = n + 1
    BY <2>2, LenProperties
  <2> QED BY <2>2, <2>3 DEF T
<1>2. PICK G : Joins(G, tt, n + 1, S)
  BY <1>1, JoinsExist
<1> DEFINE F == [k \in 0..n |-> G[k]]
<1>3. Joins(F, ss, n, S)
  <2>1. F \in [0..n -> Seq(S)] /\ F[0] = <<>>
    BY <1>1, <1>2 DEF Joins
  <2>2. ASSUME NEW k \in 1..n PROVE F[k] = F[k - 1] \o ss[k]
    <3>1. k \in 1..(n + 1) /\ k \in 0..n /\ k - 1 \in 0..n
      BY <1>1
    <3> QED BY <1>1, <1>2, <3>1 DEF Joins
  <2> HIDE DEF F
  <2> QED BY <2>1, <2>2 DEF Joins
<1>4. FlattenSeq(tt) = G[n + 1] /\ FlattenSeq(ss) = F[n] /\ FlattenSeq(ss) \in Seq(S)
  BY <1>1, <1>2, <1>3, FlattenByJoins
<1>5. G[n + 1] = F[n] \o tt[n + 1]
  <2>1. n + 1 \in 1..(n + 1) /\ (n + 1) - 1 = n /\ n \in 0..n
    BY <1>1
  <2> QED BY <1>1, <1>2, <2>1 DEF Joins
<1> QED BY <1>4, <1>5

\* Of no sequences nothing is left.
LEMMA FlattenNone == FlattenSeq(<<>>) = <<>>
<1>1. Len(<<>>) = 0
  OBVIOUS
<1> QED BY <1>1 DEF FlattenSeq

\* A set of indices that is not empty has a greatest.
LEMMA LastIndex ==
  ASSUME NEW n \in Nat, NEW s \in SUBSET (1..n), s # {}
  PROVE  Max(s) \in s
<1> DEFINE N == {m \in Nat : \A r \in SUBSET (1..m) : r # {} => \E x \in r : \A y \in r : x >= y}
<1>1. 0 \in N
  <2>1. \A r \in SUBSET (1..0) : r = {}
    OBVIOUS
  <2> QED BY <2>1
<1>2. ASSUME NEW m \in Nat, m \in N PROVE m + 1 \in N
  <2>1. SUFFICES ASSUME NEW r \in SUBSET (1..(m + 1)), r # {}
                 PROVE  \E x \in r : \A y \in r : x >= y
    OBVIOUS
  <2>2. CASE m + 1 \in r
    BY <1>2, <2>1, <2>2
  <2>3. CASE m + 1 \notin r
    <3>1. r \in SUBSET (1..m)
      BY <1>2, <2>1, <2>3
    <3> QED BY <1>2, <2>1, <3>1
  <2> QED BY <2>2, <2>3
<1> HIDE DEF N
<1>3. n \in N
  BY <1>1, <1>2, Induction
<1>4. \E x \in s : \A y \in s : x >= y
  BY <1>3 DEF N
<1> QED BY <1>4 DEF Max

-----------------------------------------------------------------------------
(* Parts of sequences. *)

\* What follows the first k of the first n elements.
LEMMA PartElements ==
  ASSUME NEW S, NEW s \in Seq(S), NEW n \in Nat, n <= Len(s), NEW k \in Nat, k <= n
  PROVE  /\ SubSeq(s, k + 1, n) \in Seq(S)
         /\ Len(SubSeq(s, k + 1, n)) = n - k
         /\ \A i \in 1..(n - k) : SubSeq(s, k + 1, n)[i] = s[k + i]
<1> DEFINE part == SubSeq(s, k + 1, n)
<1>1. Len(s) \in Nat
  BY LenProperties
<1>2. \A i \in (k + 1)..n : s[i] \in S
  BY <1>1, ElementOfSeq
<1>3. k + 1 \in Int /\ n \in Int
  OBVIOUS
<1>4. /\ part \in Seq(S) /\ Len(part) = IF k + 1 <= n THEN n - (k + 1) + 1 ELSE 0
      /\ \A i \in 1..(n - (k + 1) + 1) : part[i] = s[k + 1 + i - 1]
  <2> HIDE <1>1
  <2> QED BY <1>2, <1>3, SubSeqProperties
<1>5. n - (k + 1) + 1 = n - k /\ \A i \in 1..(n - k) : k + 1 + i - 1 = k + i
  OBVIOUS
<1> HIDE DEF part
<1>6. Len(part) = n - k
  BY <1>4
<1>7. \A i \in 1..(n - k) : part[i] = s[k + i]
  BY <1>4, <1>5
<1> QED BY <1>4, <1>6, <1>7 DEF part

\* Of one element more, the part is one element longer.
LEMMA PartOfNext ==
  ASSUME NEW S, NEW s \in Seq(S), NEW n \in Nat, n < Len(s), NEW k \in Nat, k <= n
  PROVE  SubSeq(s, k + 1, n + 1) = Append(SubSeq(s, k + 1, n), s[n + 1])
<1>1. Len(s) \in Nat
  BY LenProperties
<1>2. k + 1 \in 1..Len(s) /\ n + 1 \in (k + 1)..Len(s) /\ n + 1 \in 1..Len(s) /\ n + 1 - 1 = n
  BY <1>1
<1>3. SubSeq(s, k + 1, n + 1) = SubSeq(s, k + 1, n) \o <<s[n + 1]>>
  <2>1. PICK j \in (k + 1)..Len(s) : j = n + 1
    BY <1>2
  <2>2. SubSeq(s, k + 1, j) = SubSeq(s, k + 1, j - 1) \o <<s[j]>>
    BY <1>2, SubSeqRecursiveSecond
  <2> QED BY <1>2, <2>1, <2>2
<1>4. s[n + 1] \in S
  BY <1>2, ElementOfSeq
<1>5. SubSeq(s, k + 1, n) \in Seq(S)
  BY <1>1, PartElements
<1> QED BY <1>3, <1>4, <1>5, AppendIsConcat

\* A part that ends before two sequences differ.
LEMMA SamePart ==
  ASSUME NEW S, NEW s \in Seq(S), NEW t \in Seq(S), NEW k \in Nat, NEW n \in Nat,
         k <= n, n <= Len(s), n <= Len(t), \A i \in 1..n : s[i] = t[i]
  PROVE  SubSeq(s, k + 1, n) = SubSeq(t, k + 1, n)
<1> DEFINE u == SubSeq(s, k + 1, n)
           v == SubSeq(t, k + 1, n)
<1>1. u \in Seq(S) /\ Len(u) = n - k /\ \A i \in 1..(n - k) : u[i] = s[k + i]
  BY PartElements
<1>2. v \in Seq(S) /\ Len(v) = n - k /\ \A i \in 1..(n - k) : v[i] = t[k + i]
  BY PartElements
<1> HIDE DEF u, v
<1>3. ASSUME NEW i \in 1..Len(u) PROVE u[i] = v[i]
  <2>1. i \in 1..(n - k) /\ k + i \in 1..n
    BY <1>1
  <2> QED BY <1>1, <1>2, <2>1
<1>4. u = v
  BY <1>1, <1>2, <1>3, SeqEqual
<1> QED BY <1>4 DEF u, v

\* After an element is appended, the part to the end is one element longer.
LEMMA PartOfAppend ==
  ASSUME NEW S, NEW s \in Seq(S), NEW e \in S, NEW k \in 0..Len(s)
  PROVE  /\ SubSeq(Append(s, e), k + 1, Len(s) + 1) = Append(SubSeq(s, k + 1, Len(s)), e)
         /\ SubSeq(s, k + 1, Len(s)) \in Seq(S)
<1> DEFINE n == Len(s)
           t == Append(s, e)
<1>1. /\ n \in Nat /\ k \in Nat /\ k <= n /\ n <= Len(s) /\ n < Len(t) /\ n <= Len(t)
      /\ t \in Seq(S) /\ t[n + 1] = e /\ \A i \in 1..n : t[i] = s[i]
  BY AppendProperties, LenProperties
<1> HIDE DEF n, t
<1>2. SubSeq(t, k + 1, n + 1) = Append(SubSeq(t, k + 1, n), t[n + 1])
  BY <1>1, PartOfNext
<1>3. SubSeq(t, k + 1, n) = SubSeq(s, k + 1, n)
  BY <1>1, SamePart
<1>4. SubSeq(s, k + 1, n) \in Seq(S)
  BY <1>1, PartElements
<1> QED BY <1>1, <1>2, <1>3, <1>4 DEF n, t

-----------------------------------------------------------------------------
(* What messages and events say. *)

\* What a message says for the assistant.
Said(m) == IF m.role = "assistant" THEN m.content ELSE <<>>

\* One more message adds what the assistant says in it.
LEMMA WordsOfMore ==
  ASSUME NEW log \in Seq(Talk), NEW m \in Talk
  PROVE  Words(Append(log, m)) = Words(log) \o Said(m) /\ Words(log) \in Text
<1> DEFINE t == Append(log, m)
           n == Len(log)
           ss == [i \in 1..n |-> Said(log[i])]
           tt == [i \in 1..(n + 1) |-> Said(t[i])]
<1>1. /\ n \in Nat /\ DOMAIN log = 1..n /\ t \in Seq(Talk)
      /\ Len(t) = n + 1 /\ DOMAIN t = 1..(n + 1)
      /\ t[n + 1] = m /\ \A i \in 1..n : t[i] = log[i]
  BY AppendProperties, LenProperties
<1>2. /\ \A i \in 1..n : log[i] \in Talk
      /\ \A i \in 1..(n + 1) : t[i] \in Talk
  BY <1>1, ElementOfSeq
<1>3. \A x \in Talk : Said(x) \in Text
  BY DEF Said, Talk, Text
<1>4. Words(log) = FlattenSeq(ss) /\ Words(t) = FlattenSeq(tt)
  BY <1>1 DEF Words, Said
<1> HIDE DEF t, n
<1>5. ss \in [1..n -> Text] /\ tt \in [1..(n + 1) -> Text]
  BY <1>2, <1>3
<1>6. (\A i \in 1..n : tt[i] = ss[i]) /\ tt[n + 1] = Said(m)
  BY <1>1
<1> HIDE DEF ss, tt
<1>7. ss \in [1..n -> Seq(Atom)] /\ tt \in [1..(n + 1) -> Seq(Atom)]
  BY <1>5 DEF Text
<1>8. FlattenSeq(tt) = FlattenSeq(ss) \o tt[n + 1] /\ FlattenSeq(ss) \in Seq(Atom)
  BY <1>1, <1>6, <1>7, FlattenOfMore
<1> QED BY <1>4, <1>6, <1>8 DEF t, Text

\* An empty log says nothing.
LEMMA WordsOfNone == Words(<<>>) = <<>>
<1>1. [i \in DOMAIN <<>> |-> Said(<<>>[i])] = <<>>
  OBVIOUS
<1> QED BY <1>1, FlattenNone DEF Words, Said

\* One more event adds its text, to what was posted and to the answer of its task.
LEMMA TextsOfMore ==
  ASSUME NEW events \in Seq(Contract!Client!Events), NEW e \in Contract!Client!Events
  PROVE  /\ Texts(Append(events, e)) = Texts(events) \o e.text
         /\ Texts(events) \in Contract!Client!Text
         /\ \A u : /\ AnswerIn(Append(events, e), u)
                       = AnswerIn(events, u) \o (IF e.task = u THEN e.text ELSE <<>>)
                  /\ AnswerIn(events, u) \in Contract!Client!Text
<1> DEFINE t == Append(events, e)
           n == Len(events)
<1>1. /\ n \in Nat /\ DOMAIN events = 1..n /\ t \in Seq(Contract!Client!Events)
      /\ Len(t) = n + 1 /\ DOMAIN t = 1..(n + 1)
      /\ t[n + 1] = e /\ \A i \in 1..n : t[i] = events[i]
  BY AppendProperties, LenProperties
<1>2. /\ \A i \in 1..n : events[i].text \in Contract!Client!Text
      /\ \A i \in 1..(n + 1) : t[i].text \in Contract!Client!Text
      /\ <<>> \in Contract!Client!Text
  <2>1. \A i \in 1..n : events[i] \in Contract!Client!Events
    BY <1>1, ElementOfSeq
  <2>2. \A i \in 1..(n + 1) : t[i] \in Contract!Client!Events
    BY <1>1, ElementOfSeq
  <2> HIDE DEF t, n
  <2> QED BY <2>1, <2>2 DEF Contract!Client!Events, Contract!Client!Text
<1>3. /\ Texts(events) = FlattenSeq([i \in 1..n |-> events[i].text])
      /\ Texts(t) = FlattenSeq([i \in 1..(n + 1) |-> t[i].text])
  BY <1>1 DEF Texts
<1>4. ASSUME NEW u
      PROVE  /\ AnswerIn(t, u) = AnswerIn(events, u) \o (IF e.task = u THEN e.text ELSE <<>>)
             /\ AnswerIn(events, u) \in Contract!Client!Text
  <2> DEFINE ss == [i \in 1..n |-> IF events[i].task = u THEN events[i].text ELSE <<>>]
             tt == [i \in 1..(n + 1) |-> IF t[i].task = u THEN t[i].text ELSE <<>>]
  <2>1. AnswerIn(events, u) = FlattenSeq(ss) /\ AnswerIn(t, u) = FlattenSeq(tt)
    BY <1>1 DEF AnswerIn
  <2> HIDE DEF t, n
  <2>2. ss \in [1..n -> Contract!Client!Text] /\ tt \in [1..(n + 1) -> Contract!Client!Text]
    BY <1>2
  <2>3. /\ \A i \in 1..n : tt[i] = ss[i]
        /\ tt[n + 1] = IF e.task = u THEN e.text ELSE <<>>
    BY <1>1
  <2> HIDE DEF ss, tt
  <2>4. /\ ss \in [1..n -> Seq(Word \cup {Notice})]
        /\ tt \in [1..(n + 1) -> Seq(Word \cup {Notice})]
    BY <2>2 DEF Contract!Client!Text
  <2>5. FlattenSeq(tt) = FlattenSeq(ss) \o tt[n + 1] /\ FlattenSeq(ss) \in Seq(Word \cup {Notice})
    BY <1>1, <2>3, <2>4, FlattenOfMore
  <2> QED BY <2>1, <2>3, <2>5 DEF Contract!Client!Text
<1>5. Texts(t) = Texts(events) \o e.text /\ Texts(events) \in Contract!Client!Text
  <2> DEFINE ss == [i \in 1..n |-> events[i].text]
             tt == [i \in 1..(n + 1) |-> t[i].text]
  <2> HIDE DEF t, n
  <2>1. ss \in [1..n -> Contract!Client!Text] /\ tt \in [1..(n + 1) -> Contract!Client!Text]
    BY <1>2
  <2>2. (\A i \in 1..n : tt[i] = ss[i]) /\ tt[n + 1] = e.text
    BY <1>1
  <2> HIDE DEF ss, tt
  <2>3. Texts(events) = FlattenSeq(ss) /\ Texts(t) = FlattenSeq(tt)
    BY <1>3 DEF ss, tt
  <2>4. /\ ss \in [1..n -> Seq(Word \cup {Notice})]
        /\ tt \in [1..(n + 1) -> Seq(Word \cup {Notice})]
    BY <2>1 DEF Contract!Client!Text
  <2>5. FlattenSeq(tt) = FlattenSeq(ss) \o tt[n + 1] /\ FlattenSeq(ss) \in Seq(Word \cup {Notice})
    BY <1>1, <2>2, <2>4, FlattenOfMore
  <2> QED BY <2>2, <2>3, <2>5 DEF Contract!Client!Text
<1> QED BY <1>4, <1>5 DEF t

\* Without events nothing was said.
LEMMA TextsOfNone ==
  Texts(<<>>) = <<>> /\ \A u : AnswerIn(<<>>, u) = <<>>
<1>1. [i \in DOMAIN <<>> |-> <<>>[i].text] = <<>>
  OBVIOUS
<1>2. \A u : [i \in DOMAIN <<>> |-> IF <<>>[i].task = u THEN <<>>[i].text ELSE <<>>] = <<>>
  OBVIOUS
<1> QED BY <1>1, <1>2, FlattenNone DEF Texts, AnswerIn

-----------------------------------------------------------------------------
(* What the panel has said since it was loaded with k messages. *)

Heard(p, k) == Words(SubSeq(p.messages, k + 1, Len(p.messages))) \o p.stream

\* The pieces that drafts and attachments add are texts.
LEMMA AtomsAreText ==
  /\ Extract \in Atom /\ Indicator \in Atom
  /\ <<>> \in Text /\ <<Extract>> \in Text /\ <<Indicator>> \in Text
  /\ \A d \in Draft : d.typed \in Text
  /\ \A text \in Contract!Client!Text : text \in Text
<1>1. Extract \in Atom /\ Indicator \in Atom /\ Word \cup {Notice} \subseteq Atom
  <2> DEFINE typed == (UNION {Range(d.typed) : d \in Draft})
  <2>1. Atom = typed \cup {Extract, Indicator} \cup Word \cup {Notice}
    BY DEF Atom
  <2> HIDE DEF typed
  <2> QED BY <2>1
<1>2. \A d \in Draft : d.typed \in Text
  <2> SUFFICES ASSUME NEW d \in Draft PROVE d.typed \in Text
    OBVIOUS
  <2>1. Range(d.typed) \subseteq Atom
    <3>1. Range(d.typed) \in {Range(c.typed) : c \in Draft}
      OBVIOUS
    <3> QED BY <3>1, Zenon DEF Atom
  <2>2. d.typed \in Seq(Range(d.typed))
    BY DraftAssumption
  <2> QED BY <2>1, <2>2, SeqMonotonic DEF Text
<1>3. \A text \in Contract!Client!Text : text \in Text
  BY <1>1, SeqMonotonic DEF Text, Contract!Client!Text
<1>4. <<>> \in Text /\ <<Extract>> \in Text /\ <<Indicator>> \in Text
  BY <1>1 DEF Text
<1> QED BY <1>1, <1>2, <1>3, <1>4

\* What the user and the assistant say are messages.
LEMMA TalkType ==
  ASSUME NEW text \in Text
  PROVE  /\ UserTalk(text) \in Talk /\ AssistantTalk(text) \in Talk
         /\ Said(UserTalk(text)) = <<>> /\ Said(AssistantTalk(text)) = text
BY DEF UserTalk, AssistantTalk, Talk, Said

\* One more message: it is heard if the assistant said it.
LEMMA HeardWithMore ==
  ASSUME NEW p \in Panel, NEW k \in 0..Len(p.messages), NEW m \in Talk
  PROVE  LET more == Append(p.messages, m) IN
         /\ more \in Seq(Talk) /\ Len(more) \in Nat /\ k \in 0..Len(more)
         /\ Words(SubSeq(more, k + 1, Len(more)))
              = Words(SubSeq(p.messages, k + 1, Len(p.messages))) \o Said(m)
         /\ Words(SubSeq(p.messages, k + 1, Len(p.messages))) \in Text
<1> DEFINE s == p.messages
           part == SubSeq(s, k + 1, Len(s))
<1>1. s \in Seq(Talk)
  BY DEF Panel
<1> HIDE DEF s
<1>2. /\ Append(s, m) \in Seq(Talk) /\ Len(Append(s, m)) = Len(s) + 1 /\ Len(s) \in Nat
  BY <1>1, AppendProperties, LenProperties
<1>3. k \in 0..Len(s)
  BY DEF s
<1>4. SubSeq(Append(s, m), k + 1, Len(s) + 1) = Append(part, m) /\ part \in Seq(Talk)
  BY <1>1, <1>3, PartOfAppend
<1>5. k \in 0..(Len(s) + 1) /\ Len(s) + 1 \in Nat
  BY <1>2, <1>3
<1> HIDE DEF part
<1>6. Words(Append(part, m)) = Words(part) \o Said(m) /\ Words(part) \in Text
  BY <1>4, WordsOfMore
<1> QED BY <1>2, <1>4, <1>5, <1>6 DEF s, part

\* Closing the stream keeps what is heard.
LEMMA FlushTells ==
  ASSUME NEW p \in Panel, NEW k \in 0..Len(p.messages)
  PROVE  LET q == Flushed(p) IN
         /\ q \in Panel /\ k \in 0..Len(q.messages)
         /\ q.stream = <<>> /\ Heard(q, k) = Heard(p, k)
         /\ q.last = p.last /\ q.session = p.session
<1>1. p.stream \in Text /\ p.messages \in Seq(Talk)
  BY DEF Panel
<1>2. CASE p.stream = <<>>
  BY <1>2 DEF Flushed
<1>3. CASE p.stream # <<>>
  <2> DEFINE more == Append(p.messages, AssistantTalk(p.stream))
  <2>1. Flushed(p) = [p EXCEPT !.messages = more, !.stream = <<>>]
    BY <1>3 DEF Flushed
  <2>2. /\ more \in Seq(Talk) /\ k \in 0..Len(more)
        /\ Words(SubSeq(more, k + 1, Len(more)))
             = Words(SubSeq(p.messages, k + 1, Len(p.messages))) \o p.stream
        /\ Words(SubSeq(p.messages, k + 1, Len(p.messages))) \in Text
    BY <1>1, TalkType, HeardWithMore
  <2> HIDE DEF more
  <2>3. <<>> \in Text
    BY AtomsAreText
  <2>4. /\ Flushed(p) \in Panel /\ Flushed(p).messages = more /\ Flushed(p).stream = <<>>
        /\ Flushed(p).last = p.last /\ Flushed(p).session = p.session
    BY <2>1, <2>2, <2>3 DEF Panel
  <2>5. Heard(p, k) \in Text /\ Heard(p, k) = Words(SubSeq(more, k + 1, Len(more)))
    BY <1>1, <2>2, ConcatProperties DEF Heard, Text
  <2>6. Heard(p, k) \o <<>> = Heard(p, k)
    BY <2>5, ConcatEmptySeq DEF Text
  <2>7. Heard(Flushed(p), k) = Heard(p, k)
    BY <2>4, <2>5, <2>6 DEF Heard
  <2> QED BY <2>2, <2>4, <2>7
<1> QED BY <1>2, <1>3

\* A message of the user is not heard.
LEMMA UserMessageTells ==
  ASSUME NEW p \in Panel, NEW k \in 0..Len(p.messages), NEW text \in Text
  PROVE  LET q == WithUserMessage(p, text) IN
         q \in Panel /\ k \in 0..Len(q.messages) /\ Heard(q, k) = Heard(p, k)
<1> DEFINE f == Flushed(p)
<1>1. f \in Panel /\ k \in 0..Len(f.messages) /\ f.stream = <<>> /\ Heard(f, k) = Heard(p, k)
  BY FlushTells
<1>2. CASE IsPrefix(text, p.last)
  BY <1>1, <1>2 DEF WithUserMessage
<1>3. CASE ~IsPrefix(text, p.last)
  <2> DEFINE more == Append(f.messages, UserTalk(text))
  <2>1. WithUserMessage(p, text) = [f EXCEPT !.messages = more, !.last = text]
    BY <1>3 DEF WithUserMessage
  <2> HIDE DEF f
  <2>6. UserTalk(text) \in Talk /\ Said(UserTalk(text)) = <<>>
    BY TalkType
  <2>2. /\ more \in Seq(Talk) /\ k \in 0..Len(more)
        /\ Words(SubSeq(more, k + 1, Len(more)))
             = Words(SubSeq(f.messages, k + 1, Len(f.messages))) \o <<>>
        /\ Words(SubSeq(f.messages, k + 1, Len(f.messages))) \in Text
    BY <1>1, <2>6, HeardWithMore
  <2> HIDE DEF more
  <2>3. /\ WithUserMessage(p, text) \in Panel
        /\ WithUserMessage(p, text).messages = more
        /\ WithUserMessage(p, text).stream = <<>>
    BY <1>1, <2>1, <2>2 DEF Panel
  <2>4. Words(SubSeq(more, k + 1, Len(more))) \o <<>> = Heard(f, k)
    BY <1>1, <2>2, ConcatEmptySeq DEF Heard, Text
  <2>5. Heard(WithUserMessage(p, text), k) = Heard(f, k)
    BY <2>3, <2>4 DEF Heard
  <2> QED BY <1>1, <2>2, <2>3, <2>5
<1> QED BY <1>2, <1>3

\* A token is heard after all that was.
LEMMA TokenTells ==
  ASSUME NEW p \in Panel, NEW k \in 0..Len(p.messages), NEW text \in Text
  PROVE  LET q == WithToken(p, text) IN
         /\ q \in Panel /\ k \in 0..Len(q.messages)
         /\ Heard(q, k) = Heard(p, k) \o text
<1>1. p.stream \in Text /\ p.messages \in Seq(Talk)
  BY DEF Panel
<1>2. Words(SubSeq(p.messages, k + 1, Len(p.messages))) \in Text
  <2>1. Len(p.messages) \in Nat
    BY <1>1, LenProperties
  <2>2. SubSeq(p.messages, k + 1, Len(p.messages)) \in Seq(Talk)
    BY <1>1, PartOfAppend, TalkType, AtomsAreText
  <2>3. UserTalk(<<>>) \in Talk
    BY TalkType, AtomsAreText
  <2> QED BY <2>2, <2>3, WordsOfMore
<1>3. p.stream \o text \in Text
  BY <1>1, ConcatProperties DEF Text
<1>4. /\ WithToken(p, text) \in Panel /\ WithToken(p, text).messages = p.messages
      /\ WithToken(p, text).stream = p.stream \o text
  BY <1>3 DEF WithToken, Panel
<1>5. Heard(WithToken(p, text), k) = Heard(p, k) \o text
  <2> DEFINE words == Words(SubSeq(p.messages, k + 1, Len(p.messages)))
  <2>1. (words \o p.stream) \o text = words \o (p.stream \o text)
    <3>1. words \in Seq(Atom) /\ p.stream \in Seq(Atom) /\ text \in Seq(Atom)
      BY <1>1, <1>2 DEF Text
    <3>2. \A s, t, u \in Seq(Atom) : (s \o t) \o u = s \o (t \o u)
      BY ConcatAssociative
    <3> HIDE DEF words
    <3> QED BY <3>1, <3>2
  <2> QED BY <1>4, <2>1 DEF Heard
<1> QED BY <1>4, <1>5

\* A panel that was just loaded has said nothing.
LEMMA LoadedTells ==
  ASSUME NEW p \in Panel, p.stream = <<>>
  PROVE  Len(p.messages) \in Nat /\ Heard(p, Len(p.messages)) = <<>>
<1>1. p.messages \in Seq(Talk) /\ Len(p.messages) \in Nat
  BY LenProperties DEF Panel
<1>2. PICK n \in Nat : n = Len(p.messages)
  BY <1>1
<1>3. SubSeq(p.messages, n + 1, n) = <<>>
  BY SubSeqEmpty
<1>4. <<>> \o <<>> = <<>>
  BY AtomsAreText, ConcatEmptySeq DEF Text
<1> QED BY <1>1, <1>2, <1>3, <1>4, WordsOfNone DEF Heard

\* The last prompt of a log is a text, and empty when there is none.
LEMMA LastPromptType ==
  ASSUME NEW log \in Seq(Talk)
  PROVE  LastPrompt(log) \in Text
<1> DEFINE prompts == {i \in DOMAIN log : log[i].role = "user"}
<1>1. Len(log) \in Nat /\ DOMAIN log = 1..Len(log)
  BY LenProperties
<1>2. CASE prompts = {}
  BY <1>2, AtomsAreText DEF LastPrompt
<1>3. CASE prompts # {}
  <2>1. Max(prompts) \in prompts
    BY <1>1, <1>3, LastIndex
  <2>2. log[Max(prompts)] \in Talk
    BY <1>1, <2>1, ElementOfSeq
  <2> QED BY <1>3, <2>2 DEF LastPrompt, Talk
<1> QED BY <1>2, <1>3

\* The panels that a new chat and a selected session show.
LEMMA PanelTypes ==
  /\ BlankPanel \in Panel /\ BlankPanel.stream = <<>>
  /\ \A s \in Session, log \in Seq(Talk) :
        LoadedPanel(s, log) \in Panel /\ LoadedPanel(s, log).stream = <<>>
<1>1. <<>> \in Text /\ <<>> \in Seq(Talk)
  BY AtomsAreText
<1> QED BY <1>1, LastPromptType DEF BlankPanel, LoadedPanel, Panel

-----------------------------------------------------------------------------
(* The network layer keeps its contract, whatever the desktop does. *)

\* The contract, and that the final event of a task carries no text.
NetworkHolds == Contract!Inductive /\ Contract!Silent(posted)

\* The desktop sees the steps of the network layer that the contract is about.
LEMMA SameWork ==
  ASSUME NEW t \in Task, Network!Work(t)
  PROVE  Contract!Client!Work(t)
BY DEF Network!Work, Contract!Client!Work, Network!Refuse, Contract!Client!Refuse, Network!Replay,
       Contract!Client!Replay, Network!Begin, Contract!Client!Begin,
       Network!Settle, Contract!Client!Settle,
       Network!Emit, Contract!Client!Emit, Network!StreamOpen, Contract!Client!StreamOpen,
       Network!Token, Contract!Client!Token, Network!Final, Contract!Client!Final

\* At the start, and after a restart, nothing was spawned and nothing posted.
LEMMA NetworkStarts ==
  ASSUME phase = [t \in Task |-> "idle"], prompt = [t \in Task |-> NoPrompt],
         said = [t \in Task |-> <<>>], posted = <<>>, remembered = {}
  PROVE  NetworkHolds
<1>1. Contract!Client!Init
  BY DEF Contract!Client!Init
<1>2. Len(posted) = 0
  OBVIOUS
<1>3. Contract!Silent(posted)
  BY <1>2 DEF Contract!Silent
<1> QED BY <1>1, <1>3, ContractApplies, Contract!InductiveInit DEF NetworkHolds

\* Apart from a restart no event is ever taken back.
LEMMA NetworkKeeps ==
  ASSUME NetworkHolds, [Next]_vars
  PROVE  NetworkHolds' /\ (Restart \/ Contract!Grown(posted, posted'))
<1>1. posted \in Seq(Contract!Client!Events) /\ Len(posted) \in Nat
  BY LenProperties DEF NetworkHolds, Contract!Inductive
<1>2. CASE UNCHANGED network
  <2>1. UNCHANGED Contract!Client!vars
    BY <1>2 DEF Contract!Client!vars, network
  <2>2. Contract!Inductive' /\ posted' = posted
    BY <1>2, <2>1, ContractApplies, Contract!InductiveStep DEF NetworkHolds, network
  <2> QED BY <1>1, <2>2 DEF NetworkHolds, Contract!Silent, Contract!Grown
<1>3. ASSUME NEW t \in Task, HandlePrompt(t)
      PROVE  NetworkHolds' /\ Contract!Grown(posted, posted')
  <2>1. Contract!Client!Submit(t, t) /\ posted' = posted
    BY <1>3 DEF HandlePrompt, Network!Submit, Contract!Client!Submit
  <2>2. Contract!Inductive'
    BY <2>1, ContractApplies, Contract!InductiveStep DEF NetworkHolds, Contract!Client!Next
  <2> QED BY <1>1, <2>1, <2>2 DEF NetworkHolds, Contract!Silent, Contract!Grown
<1>4. CASE Work
  <2>1. PICK t \in Task : Contract!Client!Work(t)
    BY <1>4, SameWork DEF Work
  <2>2. Contract!Inductive'
    BY <2>1, ContractApplies, Contract!InductiveStep DEF NetworkHolds, Contract!Client!Next
  <2>3. Contract!Grown(posted, posted')
    BY <2>1, ContractApplies, Contract!WorkGrows DEF NetworkHolds
  <2> QED BY <2>2, <2>3 DEF NetworkHolds, Contract!Silent, Contract!Grown
<1>5. CASE Restart
  <2>2. Contract!Inductive'
    BY <1>5 DEF Restart, Contract!Inductive, Contract!Client!Phases, Contract!Client!OneStream,
                Contract!Closed, Contract!Ended
  <2>3. Contract!Silent(posted')
    <3>1. posted' = <<>>
      BY <1>5 DEF Restart
    <3>2. Len(posted') = 0
      BY <3>1
    <3> QED BY <3>2 DEF Contract!Silent
  <2> QED BY <1>5, <2>2, <2>3 DEF NetworkHolds, Contract!Silent
<1>6. CASE ~UNCHANGED network /\ ~Work /\ ~Restart /\ ~\E t \in Task : HandlePrompt(t)
  BY <1>6 DEF Next, vars, NewChat, CancelGeneration, OpenMenu, Dismiss, TogglePin, Rename,
              DeleteChat, DropPrompt, HandleToken, HandleFinal, Send, SelectSession
<1> QED BY <1>2, <1>3, <1>4, <1>5, <1>6

-----------------------------------------------------------------------------
(* The history. *)

\* The history, with texts.
HistoryTyped ==
  /\ DOMAIN stored \subseteq Session
  /\ \A s \in DOMAIN stored : stored[s] \in Seq(Talk)
  /\ DOMAIN stored \cup unsaved \subseteq minted /\ minted \subseteq Session
  /\ later \subseteq Session \X Session /\ pinned \subseteq Session

\* The order of the sessions stays an order of sessions.
LEMMA TouchType ==
  ASSUME DOMAIN stored' \subseteq Session, later \subseteq Session \X Session,
         NEW s \in Session, Touch(s)
  PROVE  later' \subseteq Session \X Session
<1>1. PICK tied : later' = OrderWithout(s) \cup ({s} \X ((DOMAIN stored' \ {s}) \ tied))
  BY DEF Touch
<1>2. OrderWithout(s) \subseteq Session \X Session
  BY DEF OrderWithout
<1>3. {s} \X ((DOMAIN stored' \ {s}) \ tied) \subseteq Session \X Session
  OBVIOUS
<1> QED BY <1>1, <1>2, <1>3

\* So it does when the session is not used at all.
LEMMA UsedType ==
  ASSUME DOMAIN stored' \subseteq Session, later \subseteq Session \X Session,
         NEW s \in Session, NEW touched, Used(s, touched)
  PROVE  later' \subseteq Session \X Session
BY TouchType DEF Used

\* A log with one more message is a log.
LEMMA ExtendedType ==
  ASSUME NEW log, \A u \in DOMAIN log : log[u] \in Seq(Talk), NEW s \in DOMAIN log, NEW m \in Talk
  PROVE  /\ DOMAIN History!Extended(log, s, m) = DOMAIN log
         /\ \A u \in DOMAIN log : History!Extended(log, s, m)[u] \in Seq(Talk)
<1>1. Append(log[s], m) \in Seq(Talk)
  BY AppendProperties
<1> QED BY <1>1 DEF History!Extended

\* With or without a message appended the same sessions have logs.
LEMMA AppendedType ==
  ASSUME NEW log, \A u \in DOMAIN log : log[u] \in Seq(Talk), NEW s, NEW m \in Talk, NEW written
  PROVE  /\ DOMAIN Appended(log, s, m, written) = DOMAIN log
         /\ \A u \in DOMAIN log : Appended(log, s, m, written)[u] \in Seq(Talk)
BY ExtendedType DEF Appended

\* The history stays one: logs of messages, of sessions that were created.
LEMMA HistoryKeeps ==
  ASSUME HistoryTyped, Inductive, panel \in Panel, submitted \in Seq(Text), [Next]_vars
  PROVE  HistoryTyped'
<1>1. ASSUME NEW t \in Task, HandlePrompt(t)
      PROVE  HistoryTyped'
  <2> DEFINE m == UserTalk(Head(submitted))
  <2>1. PICK s \in Session, made \in BOOLEAN, written \in BOOLEAN, touched \in BOOLEAN :
          /\ IF current = Nowhere
               THEN /\ minted' = minted \cup {s}
                    /\ unsaved' = IF made THEN unsaved ELSE unsaved \cup {s}
                    /\ stored' = Appended(IF made THEN History!With(stored, s) ELSE stored,
                                          s, m, written)
               ELSE /\ UNCHANGED <<minted, unsaved>>
                    /\ stored' = Appended(stored, s, m, written)
          /\ Used(s, touched)
    BY <1>1 DEF HandlePrompt
  <2>2. m \in Talk /\ UNCHANGED pinned
    <3>1. PICK text \in Text : text = Head(submitted)
      BY <1>1, HeadTailProperties DEF HandlePrompt
    <3> QED BY <1>1, <3>1, TalkType DEF HandlePrompt
  <2> HIDE DEF m
  <2>3. PICK log : /\ stored' = Appended(log, s, m, written)
                   /\ log = IF current = Nowhere /\ made THEN History!With(stored, s) ELSE stored
    BY <2>1
  <2>4. /\ \A u \in DOMAIN log : log[u] \in Seq(Talk)
        /\ DOMAIN log \subseteq DOMAIN stored \cup (IF current = Nowhere THEN {s} ELSE {})
    <3>1. <<>> \in Seq(Talk)
      OBVIOUS
    <3> QED BY <2>3, <3>1 DEF History!With, HistoryTyped
  <2>5. DOMAIN stored' = DOMAIN log /\ \A u \in DOMAIN stored' : stored'[u] \in Seq(Talk)
    BY <2>2, <2>3, <2>4, AppendedType
  <2>6. DOMAIN stored' \cup unsaved' \subseteq minted' /\ minted' \subseteq Session
    BY <2>1, <2>4, <2>5 DEF HistoryTyped
  <2>7. later' \subseteq Session \X Session
    BY <2>1, <2>6, UsedType DEF HistoryTyped
  <2> QED BY <2>2, <2>5, <2>6, <2>7 DEF HistoryTyped
<1>2. CASE HandleFinal
  <2>1. CASE current # Nowhere /\ panel.stream # <<>>
    <3>1. PICK written \in BOOLEAN, touched \in BOOLEAN :
            /\ stored' = Appended(stored, current, AssistantTalk(panel.stream), written)
            /\ Used(current, touched)
      BY <1>2, <2>1 DEF HandleFinal
    <3>2. AssistantTalk(panel.stream) \in Talk
      BY TalkType DEF Panel
    <3>3. DOMAIN stored' = DOMAIN stored /\ \A u \in DOMAIN stored : stored'[u] \in Seq(Talk)
      BY <3>1, <3>2, AppendedType DEF HistoryTyped
    <3>4. UNCHANGED <<pinned, minted, unsaved>> /\ current \in Session
      BY <1>2, <2>1 DEF HandleFinal, Inductive, Shape
    <3>5. later' \subseteq Session \X Session
      BY <3>1, <3>3, <3>4, UsedType DEF HistoryTyped
    <3> QED BY <3>3, <3>4, <3>5 DEF HistoryTyped
  <2>2. CASE ~(current # Nowhere /\ panel.stream # <<>>)
    BY <1>2, <2>2 DEF HandleFinal, HistoryTyped
  <2> QED BY <2>1, <2>2
<1>3. CASE TogglePin \/ Rename \/ DeleteChat
  <2>1. menu # 0
    BY <1>3 DEF TogglePin, Rename, DeleteChat, CloseMenu
  <2>2. menu \in 1..Len(listed)
    BY <2>1, LenProperties DEF Inductive, Shape, SidebarInStep
  <2>3. listed[menu] \in Session
    BY <2>2, ElementOfSeq DEF Inductive, Shape
  <2>4. CASE TogglePin
    BY <2>3, <2>4 DEF TogglePin, HistoryTyped
  <2>5. CASE Rename
    <3>1. UNCHANGED <<stored, pinned, minted, unsaved>>
      BY <2>5 DEF Rename
    <3>2. PICK ok \in BOOLEAN : Used(listed[menu], ok)
      BY <2>5 DEF Rename
    <3>3. later' \subseteq Session \X Session
      BY <2>3, <3>1, <3>2, UsedType DEF HistoryTyped
    <3> QED BY <3>1, <3>3 DEF HistoryTyped
  <2>6. CASE DeleteChat
    <3>1. /\ \/ stored' = History!Without(stored, listed[menu])
             \/ stored' = stored
          /\ UNCHANGED <<minted, unsaved>>
          /\ later' \subseteq later /\ pinned' \subseteq pinned
      BY <2>6 DEF DeleteChat, OrderWithout
    <3>2. /\ DOMAIN stored' \subseteq DOMAIN stored
          /\ \A u \in DOMAIN stored' : stored'[u] = stored[u]
      BY <3>1 DEF History!Without
    <3> QED BY <3>1, <3>2 DEF HistoryTyped
  <2> QED BY <1>3, <2>4, <2>5, <2>6
<1>4. CASE UNCHANGED history
  BY <1>4 DEF history, HistoryTyped
<1>5. CASE /\ ~UNCHANGED history /\ ~HandleFinal /\ ~(TogglePin \/ Rename \/ DeleteChat)
           /\ ~\E t \in Task : HandlePrompt(t)
  BY <1>5 DEF Next, vars, NewChat, CancelGeneration, OpenMenu, Dismiss, DropPrompt, HandleToken,
              Send, SelectSession, Work, Restart
<1> QED BY <1>1, <1>2, <1>3, <1>4, <1>5

-----------------------------------------------------------------------------
(* Statements that fail. *)

\* Each handler in which one fails is counted, and until then each new session is saved.
Counted == faults \in 0..MaxFaults /\ (faults = 0 => unsaved = {})

\* Once one has failed, the count is never zero again.
LEMMA StatementsCount ==
  ASSUME faults \in 0..MaxFaults, NEW ok \in BOOLEAN, Statements(ok)
  PROVE  faults' \in 0..MaxFaults /\ (faults' = 0 => ok /\ faults = 0)
BY BoundAssumption DEF Statements

\* Only the insertion of a row that fails leaves a session unsaved.
LEMMA CountedKeeps ==
  ASSUME Counted, [Next]_vars
  PROVE  Counted' /\ (faults' = 0 => faults = 0)
<1>1. \E ok \in BOOLEAN : Statements(ok) /\ (ok => unsaved' = unsaved)
  <2>1. ASSUME NEW t \in Task, HandlePrompt(t)
        PROVE  \E ok \in BOOLEAN : Statements(ok) /\ (ok => unsaved' = unsaved)
    <3>1. PICK s \in Session, made \in BOOLEAN, written \in BOOLEAN, touched \in BOOLEAN :
            /\ Statements(made /\ written /\ touched)
            /\ unsaved' = IF current = Nowhere /\ ~made THEN unsaved \cup {s} ELSE unsaved
      BY <2>1 DEF HandlePrompt
    <3> QED BY <3>1
  <2>2. CASE UNCHANGED faults /\ UNCHANGED unsaved
    BY <2>2 DEF Statements
  <2>3. CASE Restart \/ \E row \in DOMAIN listed : SelectSession(row)
    <3>1. (UNCHANGED faults \/ Statements(FALSE)) /\ UNCHANGED unsaved
      BY <2>3 DEF Restart, SelectSession, LoadSession, LoadNothing, history
    <3> QED BY <3>1 DEF Statements
  <2>4. CASE TogglePin \/ Rename \/ DeleteChat
    BY <2>4 DEF TogglePin, Rename, DeleteChat
  <2>5. CASE HandleFinal /\ ~UNCHANGED faults
    <3>1. PICK written \in BOOLEAN, touched \in BOOLEAN : Statements(written /\ touched)
      BY <2>5 DEF HandleFinal
    <3>2. UNCHANGED unsaved
      BY <2>5 DEF HandleFinal
    <3> QED BY <3>1, <3>2
  <2>6. CASE HandleFinal /\ UNCHANGED faults
    BY <2>2, <2>6 DEF HandleFinal
  <2>7. CASE \/ NewChat \/ CancelGeneration \/ OpenMenu \/ Dismiss \/ DropPrompt \/ HandleToken
             \/ Work \/ UNCHANGED vars \/ \E d \in Draft : Send(d)
    BY <2>2, <2>7 DEF vars, history, counters, NewChat, CancelGeneration, OpenMenu, Dismiss,
                      DropPrompt, HandleToken, Work, Send
  <2> QED BY <2>1, <2>3, <2>4, <2>5, <2>6, <2>7 DEF Next
<1> QED BY <1>1, StatementsCount DEF Counted

-----------------------------------------------------------------------------
(* The panel and the queue of prompts. *)

WindowTyped ==
  /\ panel \in Panel /\ spinner \in BOOLEAN
  /\ submitted \in Seq(Text)
  /\ asked \in [Task -> Request]
  /\ loaded \in [messages : Nat, delivered : Nat, failed : BOOLEAN]
  /\ sends \in 0..MaxSends /\ restarts \in 0..MaxRestarts

\* What the panel has said since it was loaded is what was delivered since.
Told ==
  /\ delivered \in 0..Len(posted)
  /\ loaded.messages \in 0..Len(panel.messages)
  /\ loaded.delivered \in 0..delivered
  /\ NoTokenLostOrRepeated

Telling == NetworkHolds /\ HistoryTyped /\ Counted /\ WindowTyped /\ Told

\* The property, in the terms of these lemmas.
LEMMA ToldIsHeard ==
  NoTokenLostOrRepeated <=>
    Heard(panel, loaded.messages) = Texts(SubSeq(posted, loaded.delivered + 1, delivered))
BY DEF NoTokenLostOrRepeated, Heard

\* What the network layer has posted is a sequence of events.
LEMMA PostedType ==
  ASSUME NetworkHolds
  PROVE  posted \in Seq(Contract!Client!Events) /\ Len(posted) \in Nat
BY LenProperties DEF NetworkHolds, Contract!Inductive

\* What was delivered since some event, with one event more.
LEMMA NextIsTold ==
  ASSUME NetworkHolds, delivered \in 0..Len(posted), delivered < Len(posted),
         NEW k \in 0..delivered
  PROVE  /\ NextEvent \in Contract!Client!Events
         /\ NextEvent.final => NextEvent.text = <<>>
         /\ Texts(SubSeq(posted, k + 1, delivered + 1))
              = Texts(SubSeq(posted, k + 1, delivered)) \o NextEvent.text
         /\ Texts(SubSeq(posted, k + 1, delivered)) \in Contract!Client!Text
<1>1. posted \in Seq(Contract!Client!Events) /\ Len(posted) \in Nat
  BY PostedType
<1>2. PICK n \in Nat : n = delivered
  OBVIOUS
<1>3. n < Len(posted) /\ n <= Len(posted) /\ k \in Nat /\ k <= n /\ n + 1 \in 1..Len(posted)
  BY <1>1, <1>2
<1>4. posted[n + 1] \in Contract!Client!Events
  BY <1>1, <1>3, ElementOfSeq
<1>5. posted[n + 1].final => posted[n + 1].text = <<>>
  BY <1>3 DEF NetworkHolds, Contract!Silent
<1>6. SubSeq(posted, k + 1, n) \in Seq(Contract!Client!Events)
  BY <1>1, <1>3, PartElements
<1>7. SubSeq(posted, k + 1, n + 1) = Append(SubSeq(posted, k + 1, n), posted[n + 1])
  BY <1>1, <1>3, PartOfNext
<1>8. /\ Texts(Append(SubSeq(posted, k + 1, n), posted[n + 1]))
           = Texts(SubSeq(posted, k + 1, n)) \o posted[n + 1].text
      /\ Texts(SubSeq(posted, k + 1, n)) \in Contract!Client!Text
  BY <1>4, <1>6, TextsOfMore
<1> QED BY <1>2, <1>4, <1>5, <1>7, <1>8 DEF NextEvent

-----------------------------------------------------------------------------
(* Steps. *)

\* A panel that was just loaded has said nothing, and nothing was delivered since.
LEMMA LoadedIsTold ==
  ASSUME NetworkHolds', delivered' \in 0..Len(posted'), panel' \in Panel, panel'.stream = <<>>,
         NEW b \in BOOLEAN,
         loaded' = [messages |-> Len(panel'.messages), delivered |-> delivered', failed |-> b]
  PROVE  Told' /\ loaded' \in [messages : Nat, delivered : Nat, failed : BOOLEAN]
<1>1. Len(panel'.messages) \in Nat /\ Heard(panel', Len(panel'.messages)) = <<>>
  BY LoadedTells
<1>2. PICK n \in Nat : n = delivered'
  OBVIOUS
<1>3. SubSeq(posted', n + 1, n) = <<>>
  BY SubSeqEmpty
<1>4. Texts(SubSeq(posted', loaded'.delivered + 1, delivered')) = <<>>
  BY <1>2, <1>3, TextsOfNone
<1>5. NoTokenLostOrRepeated'
  BY <1>1, <1>4 DEF NoTokenLostOrRepeated, Heard
<1>6. loaded'.messages \in 0..Len(panel'.messages) /\ loaded'.delivered \in 0..delivered'
  BY <1>1, <1>2
<1>7. loaded' \in [messages : Nat, delivered : Nat, failed : BOOLEAN]
  BY <1>1, <1>2
<1> QED BY <1>5, <1>6, <1>7 DEF Told

\* A load that was cut short by a statement that failed gives a part of the messages.
LEMMA LoadTold ==
  ASSUME HistoryTyped, NetworkHolds', delivered' \in 0..Len(posted'), NEW s \in DOMAIN stored,
         LoadSession(s, delivered')
  PROVE  /\ Told' /\ panel' \in Panel
         /\ loaded' \in [messages : Nat, delivered : Nat, failed : BOOLEAN]
<1>1. PICK log \in Seq(Talk) : Load(LoadedPanel(s, log), delivered')
  <2>1. stored[s] \in Seq(Talk) /\ Len(stored[s]) \in Nat
    BY LenProperties DEF HistoryTyped
  <2>2. ASSUME NEW n \in 0..Len(stored[s]) PROVE SubSeq(stored[s], 1, n) \in Seq(Talk)
    <3>1. 0 \in Nat /\ n \in Nat /\ 0 <= n /\ n <= Len(stored[s]) /\ 0 + 1 = 1
      BY <2>1
    <3>2. SubSeq(stored[s], 0 + 1, n) \in Seq(Talk)
      BY <2>1, <3>1, PartElements
    <3> QED BY <3>1, <3>2
  <2> QED BY <2>1, <2>2 DEF LoadSession
<1>2. s \in Session
  BY DEF HistoryTyped
<1>3. /\ panel' = LoadedPanel(s, log)
      /\ loaded' = [messages |-> Len(panel'.messages), delivered |-> delivered', failed |-> FALSE]
  BY <1>1 DEF Load
<1>4. panel' \in Panel /\ panel'.stream = <<>>
  BY <1>2, <1>3, PanelTypes
<1> QED BY <1>3, <1>4, LoadedIsTold

\* A message of the user closes the stream, and the panel still says the same.
LEMMA MessageIsTold ==
  ASSUME WindowTyped, Told, UNCHANGED <<posted, delivered, loaded>>,
         NEW p \in Panel, p.messages = panel.messages, p.stream = panel.stream,
         NEW text \in Text, panel' = WithUserMessage(p, text)
  PROVE  Told' /\ panel' \in Panel
<1>1. loaded.messages \in 0..Len(p.messages)
  BY DEF Told
<1>2. /\ panel' \in Panel /\ loaded.messages \in 0..Len(panel'.messages)
      /\ Heard(panel', loaded.messages) = Heard(p, loaded.messages)
  BY <1>1, UserMessageTells
<1>3. Heard(p, loaded.messages) = Heard(panel, loaded.messages)
  BY DEF Heard
<1>4. NoTokenLostOrRepeated'
  BY <1>2, <1>3 DEF Told, NoTokenLostOrRepeated, Heard
<1> QED BY <1>2, <1>4 DEF Told

\* Sending closes the stream and queues the prompt.
LEMMA SendTells ==
  ASSUME Telling, NEW d \in Draft, Send(d)
  PROVE  WindowTyped' /\ Told'
<1> DEFINE shown == d.typed \o (IF d.images THEN <<Indicator>> ELSE <<>>)
           sent  == d.typed \o (IF d.documents THEN <<Extract>> ELSE <<>>)
<1>1. /\ panel' = WithUserMessage(panel, shown) /\ submitted' = Append(submitted, sent)
      /\ sends < MaxSends /\ sends' = sends + 1
      /\ UNCHANGED <<posted, delivered, loaded, spinner, asked, restarts>>
  BY DEF Send, network
<1>2. shown \in Text /\ sent \in Text
  BY AtomsAreText, ConcatProperties DEF Text
<1> HIDE DEF shown, sent
<1>3. Told' /\ panel' \in Panel
  BY <1>1, <1>2, MessageIsTold DEF Telling, WindowTyped
<1>4. submitted' \in Seq(Text)
  BY <1>1, <1>2, AppendProperties DEF Telling, WindowTyped
<1>5. sends' \in 0..MaxSends
  BY <1>1, BoundAssumption DEF Telling, WindowTyped
<1> QED BY <1>1, <1>3, <1>4, <1>5 DEF Telling, WindowTyped

\* A new chat, a deletion and a selection load the panel.
LEMMA LoadTells ==
  ASSUME Telling, Inductive, NetworkHolds',
         NewChat \/ DeleteChat \/ \E row \in DOMAIN listed : SelectSession(row)
  PROVE  WindowTyped' /\ Told'
<1>1. UNCHANGED <<posted, delivered, spinner, submitted, asked, sends, restarts>>
  BY DEF NewChat, DeleteChat, SelectSession, network, counters
<1>2. /\ Told' /\ panel' \in Panel
      /\ loaded' \in [messages : Nat, delivered : Nat, failed : BOOLEAN]
  <2>1. CASE NewChat \/ DeleteChat
    <3>1. /\ panel' = BlankPanel
          /\ loaded' = [messages |-> Len(panel'.messages), delivered |-> delivered',
                         failed |-> FALSE]
      BY <1>1, <2>1 DEF NewChat, DeleteChat, Load
    <3> QED BY <1>1, <3>1, PanelTypes, LoadedIsTold DEF Telling, Told
  <2>2. ASSUME NEW row \in DOMAIN listed, SelectSession(row)
        PROVE  /\ Told' /\ panel' \in Panel
               /\ loaded' \in [messages : Nat, delivered : Nat, failed : BOOLEAN]
    <3>1. listed[row] \in DOMAIN stored
      BY DEF Inductive, SidebarInStep, Range
    <3>2. CASE LoadSession(listed[row], delivered)
      <4>1. LoadSession(listed[row], delivered')
        BY <1>1, <3>2
      <4> QED BY <1>1, <3>1, <4>1, LoadTold DEF Telling, Told
    <3>3. CASE LoadNothing(panel, loaded)
      <4>1. panel' = panel /\ loaded' = [loaded EXCEPT !.failed = TRUE]
        BY <3>3 DEF LoadNothing
      <4>2. /\ loaded' \in [messages : Nat, delivered : Nat, failed : BOOLEAN]
            /\ loaded'.messages = loaded.messages /\ loaded'.delivered = loaded.delivered
        BY <4>1 DEF Telling, WindowTyped
      <4> QED BY <1>1, <4>1, <4>2 DEF Telling, WindowTyped, Told, NoTokenLostOrRepeated
    <3> QED BY <2>2, <3>2, <3>3 DEF SelectSession
  <2> QED BY <2>1, <2>2
<1> QED BY <1>1, <1>2 DEF Telling, WindowTyped

\* The prompt is shown, which closes the stream, and its task is asked.
LEMMA HandlePromptTells ==
  ASSUME Telling, NEW t \in Task, HandlePrompt(t)
  PROVE  WindowTyped' /\ Told'
<1> DEFINE text == Head(submitted)
           opened(s) == [panel EXCEPT !.session = IF current = Nowhere THEN s ELSE @]
           request(s) == [text |-> text, session |-> s,
                          context |-> IF panel'.messages = <<>> THEN <<>>
                                      ELSE Front(panel'.messages)]
<1>1. PICK s \in Session : /\ panel' = WithUserMessage(opened(s), text)
                           /\ asked' = [asked EXCEPT ![t] = request(s)]
  BY DEF HandlePrompt
<1>2. /\ submitted # <<>> /\ submitted' = Tail(submitted) /\ spinner' = TRUE
      /\ UNCHANGED <<posted, delivered, loaded, sends, restarts>>
  BY DEF HandlePrompt, Network!Submit, counters
<1>3. submitted \in Seq(Text) /\ text \in Text /\ submitted' \in Seq(Text)
  BY <1>2, HeadTailProperties DEF Telling, WindowTyped
<1>4. /\ opened(s) \in Panel /\ opened(s).messages = panel.messages
      /\ opened(s).stream = panel.stream
  BY DEF Telling, WindowTyped, Panel
<1> HIDE DEF text
<1>5. Told' /\ panel' \in Panel
  <2>1. PICK p \in Panel : p = opened(s)
    BY <1>4
  <2> HIDE DEF opened
  <2> QED BY <1>1, <1>2, <1>3, <1>4, <2>1, MessageIsTold DEF Telling
<1>6. request(s) \in Request
  <2> DEFINE log == panel'.messages
  <2>1. log \in Seq(Talk) /\ Len(log) \in Nat
    BY <1>5, LenProperties DEF Panel
  <2> HIDE DEF log
  <2>2. \A i \in 1..(Len(log) - 1) : log[i] \in Talk
    BY <2>1, ElementOfSeq
  <2>3. Front(log) \in Seq(Talk)
    <3>1. 1 \in Int /\ Len(log) - 1 \in Int
      BY <2>1
    <3> QED BY <2>2, <3>1, SubSeqProperties DEF Front
  <2>4. (IF log = <<>> THEN <<>> ELSE Front(log)) \in Seq(Talk)
    BY <2>3
  <2> QED BY <1>3, <2>4 DEF Request, log
<1> HIDE DEF request
<1>7. asked' \in [Task -> Request]
  BY <1>1, <1>6 DEF Telling, WindowTyped
<1> QED BY <1>2, <1>3, <1>5, <1>7 DEF Telling, WindowTyped

\* The token is delivered, and the panel shows it.
LEMMA HandleTokenTells ==
  ASSUME Telling, HandleToken
  PROVE  WindowTyped' /\ Told'
<1>1. /\ delivered < Len(posted) /\ delivered' = delivered + 1
      /\ panel' = WithToken(panel, NextEvent.text)
      /\ UNCHANGED <<posted, loaded, spinner, submitted, asked, sends, restarts>>
  BY DEF HandleToken, network, counters
<1> DEFINE told(n) == Texts(SubSeq(posted, loaded.delivered + 1, n))
<1>2. /\ NextEvent \in Contract!Client!Events
      /\ told(delivered + 1) = told(delivered) \o NextEvent.text
  BY <1>1, NextIsTold DEF Telling, Told
<1>3. NextEvent.text \in Text
  BY <1>2, AtomsAreText DEF Contract!Client!Events
<1>4. /\ panel' \in Panel /\ loaded.messages \in 0..Len(panel'.messages)
      /\ Heard(panel', loaded.messages) = Heard(panel, loaded.messages) \o NextEvent.text
  BY <1>1, <1>3, TokenTells DEF Telling, WindowTyped, Told
<1>5. Heard(panel, loaded.messages) = told(delivered)
  BY ToldIsHeard DEF Telling, Told
<1>6. NoTokenLostOrRepeated'
  BY <1>1, <1>2, <1>4, <1>5 DEF NoTokenLostOrRepeated, Heard
<1>7. delivered' \in 0..Len(posted') /\ loaded'.delivered \in 0..delivered'
  BY <1>1, PostedType DEF Telling, Told
<1> QED BY <1>1, <1>4, <1>6, <1>7 DEF Telling, WindowTyped, Told

\* The last event of a task says nothing, and the stream stays open.
LEMMA HandleFinalTells ==
  ASSUME Telling, HandleFinal
  PROVE  WindowTyped' /\ Told'
<1>1. /\ delivered < Len(posted) /\ delivered' = delivered + 1 /\ NextEvent.final
      /\ spinner' = FALSE
      /\ UNCHANGED <<panel, posted, loaded, submitted, asked, sends, restarts>>
  BY DEF HandleFinal, network, counters
<1> DEFINE told(n) == Texts(SubSeq(posted, loaded.delivered + 1, n))
<1>2. told(delivered + 1) = told(delivered) \o <<>> /\ told(delivered) \in Contract!Client!Text
  BY <1>1, NextIsTold DEF Telling, Told
<1>3. told(delivered + 1) = told(delivered)
  BY <1>2, ConcatEmptySeq DEF Contract!Client!Text
<1>4. NoTokenLostOrRepeated'
  BY <1>1, <1>3 DEF Telling, Told, NoTokenLostOrRepeated
<1>5. delivered' \in 0..Len(posted') /\ loaded'.delivered \in 0..delivered'
  BY <1>1, PostedType DEF Telling, Told
<1> QED BY <1>1, <1>4, <1>5 DEF Telling, WindowTyped, Told

\* What is posted after the delivered events does not change them.
LEMMA WorkTells ==
  ASSUME Telling, Contract!Grown(posted, posted'),
         UNCHANGED <<panel, delivered, loaded>>
  PROVE  Told'
<1>1. PICK n \in Nat : n = delivered
  BY DEF Telling, Told
<1>2. PICK k \in Nat : k = loaded.delivered
  BY DEF Telling, Told
<1>3. /\ posted \in Seq(Contract!Client!Events) /\ posted' \in Seq(Contract!Client!Events)
      /\ k <= n /\ n <= Len(posted) /\ n <= Len(posted') /\ Len(posted') \in Nat
      /\ \A i \in 1..n : posted[i] = posted'[i]
  BY <1>1, <1>2, PostedType DEF Telling, Told, Contract!Grown
<1>4. SubSeq(posted, k + 1, n) = SubSeq(posted', k + 1, n)
  BY <1>3, SamePart
<1>5. NoTokenLostOrRepeated'
  BY <1>1, <1>2, <1>4 DEF Telling, Told, NoTokenLostOrRepeated
<1> QED BY <1>1, <1>3, <1>5 DEF Telling, Told

\* The first session of a list is one of those listed.
LEMMA HeadIsListed ==
  ASSUME NEW S, NEW order, NEW pins, NEW list \in Listings(S, order, pins), list # <<>>
  PROVE  Head(list) \in S
<1>1. list \in BoundedSeq(S, Cardinality(S))
  BY DEF Listings
<1>2. PICK m \in 0..Cardinality(S) : list \in [1..m -> S]
  BY <1>1 DEF BoundedSeq, SeqOf
<1>3. m \in Nat
  OBVIOUS
<1>4. list \in Seq(S)
  BY <1>2, <1>3
<1> QED BY <1>4, HeadTailProperties

\* After a restart nothing was delivered, and the panel was just loaded.
LEMMA RestartTells ==
  ASSUME Telling, NetworkHolds', Restart
  PROVE  WindowTyped' /\ Told'
<1>1. /\ listed' \in Listings(DOMAIN stored, later, pinned)
      /\ current' = IF listed' = <<>> THEN Nowhere ELSE Head(listed')
      /\ spinner' = FALSE /\ submitted' = <<>> /\ delivered' = 0 /\ posted' = <<>>
      /\ asked' = [t \in Task |-> NoRequest] /\ UNCHANGED sends
      /\ restarts < MaxRestarts /\ restarts' = restarts + 1
  BY DEF Restart
<1>2. delivered' \in 0..Len(posted')
  <2>1. Len(posted') = 0
    BY <1>1
  <2> QED BY <1>1, <2>1
<1>3. /\ Told' /\ panel' \in Panel
      /\ loaded' \in [messages : Nat, delivered : Nat, failed : BOOLEAN]
  <2>1. CASE listed' # <<>> /\ LoadSession(current', 0)
    <3>1. current' \in DOMAIN stored
      BY <1>1, <2>1, HeadIsListed
    <3>2. LoadSession(current', delivered')
      BY <1>1, <2>1
    <3>3. PICK s \in DOMAIN stored : s = current'
      BY <3>1
    <3>4. LoadSession(s, delivered')
      BY <3>2, <3>3
    <3> QED BY <1>2, <3>4, LoadTold DEF Telling
  <2>2. CASE Load(BlankPanel, 0) \/ LoadNothing(BlankPanel, NeverLoaded)
    <3>1. BlankPanel.messages = <<>> /\ Len(<<>>) = 0
      BY DEF BlankPanel
    <3>2. PICK b \in BOOLEAN :
            /\ panel' = BlankPanel
            /\ loaded' = [messages |-> Len(BlankPanel.messages), delivered |-> 0, failed |-> b]
      <4>1. CASE Load(BlankPanel, 0)
        BY <4>1 DEF Load
      <4>2. CASE LoadNothing(BlankPanel, NeverLoaded)
        <5>1. /\ NeverLoaded \in [messages : Nat, delivered : Nat, failed : BOOLEAN]
              /\ NeverLoaded.messages = 0 /\ NeverLoaded.delivered = 0
          BY DEF NeverLoaded
        <5>2. panel' = BlankPanel /\ loaded' = [NeverLoaded EXCEPT !.failed = TRUE]
          BY <4>2 DEF LoadNothing
        <5>3. /\ loaded' \in [messages : Nat, delivered : Nat, failed : BOOLEAN]
              /\ loaded'.messages = 0 /\ loaded'.delivered = 0
          BY <5>1, <5>2
        <5>4. loaded' = [messages |-> 0, delivered |-> 0, failed |-> loaded'.failed]
          BY <5>3
        <5> QED BY <3>1, <5>2, <5>3, <5>4
      <4> QED BY <2>2, <4>1, <4>2
    <3>3. loaded' = [messages |-> Len(panel'.messages), delivered |-> delivered', failed |-> b]
      BY <1>1, <3>2
    <3> QED BY <1>2, <3>2, <3>3, PanelTypes, LoadedIsTold
  <2> QED BY <2>1, <2>2 DEF Restart
<1>4. NoRequest \in Request
  BY AtomsAreText DEF NoRequest, Request
<1>5. restarts' \in 0..MaxRestarts /\ sends' \in 0..MaxSends
  BY <1>1, BoundAssumption DEF Telling, WindowTyped
<1>6. submitted' \in Seq(Text)
  BY <1>1
<1> QED BY <1>1, <1>3, <1>4, <1>5, <1>6 DEF WindowTyped

\* At the start the panel is blank and nothing was delivered.
LEMMA InitTells ==
  ASSUME Init
  PROVE  Telling
<1>1. NetworkHolds
  BY NetworkStarts DEF Init, Network!Init
<1>2. HistoryTyped
  BY DEF Init, History!Init, HistoryTyped
<1>3. /\ panel = BlankPanel /\ delivered = 0 /\ posted = <<>>
      /\ loaded = [messages |-> 0, delivered |-> 0, failed |-> FALSE]
  BY DEF Init, Network!Init, NeverLoaded
<1>4. panel \in Panel /\ Len(panel.messages) = 0 /\ panel.stream = <<>> /\ panel.messages = <<>>
  BY <1>3, PanelTypes DEF BlankPanel
<1>5. Told
  <2>1. Len(posted) = 0
    BY <1>3
  <2>2. Heard(panel, 0) = <<>>
    BY <1>4, LoadedTells
  <2>3. SubSeq(posted, 0 + 1, 0) = <<>>
    BY SubSeqEmpty
  <2>4. NoTokenLostOrRepeated
    BY <1>3, <2>2, <2>3, ToldIsHeard, TextsOfNone
  <2> QED BY <1>3, <1>4, <2>1, <2>4 DEF Told
<1>6. WindowTyped
  <2>1. NoRequest \in Request /\ <<>> \in Seq(Text)
    BY AtomsAreText DEF NoRequest, Request
  <2>2. 0 \in 0..MaxSends /\ 0 \in 0..MaxRestarts
    BY BoundAssumption
  <2>3. /\ spinner = FALSE /\ submitted = <<>> /\ asked = [t \in Task |-> NoRequest]
        /\ sends = 0 /\ restarts = 0
    BY DEF Init
  <2>4. /\ asked \in [Task -> Request]
        /\ loaded \in [messages : Nat, delivered : Nat, failed : BOOLEAN]
    BY <1>3, <2>1, <2>3
  <2> QED BY <1>4, <2>1, <2>2, <2>3, <2>4 DEF WindowTyped
<1>7. Counted
  BY BoundAssumption DEF Init, Counted
<1> QED BY <1>1, <1>2, <1>5, <1>6, <1>7 DEF Telling

\* Each step keeps the invariant.
LEMMA StepTells ==
  ASSUME Telling, Inductive, [Next]_vars
  PROVE  Telling'
<1>1. NetworkHolds' /\ (Restart \/ Contract!Grown(posted, posted'))
  BY NetworkKeeps DEF Telling
<1>2. HistoryTyped'
  BY HistoryKeeps DEF Telling, WindowTyped
<1>3. WindowTyped' /\ Told'
  <2>1. ASSUME NEW d \in Draft, Send(d) PROVE WindowTyped' /\ Told'
    BY <2>1, SendTells
  <2>2. CASE NewChat \/ DeleteChat \/ \E row \in DOMAIN listed : SelectSession(row)
    BY <1>1, <2>2, LoadTells
  <2>3. ASSUME NEW t \in Task, HandlePrompt(t) PROVE WindowTyped' /\ Told'
    BY <2>3, HandlePromptTells
  <2>4. CASE HandleToken
    BY <2>4, HandleTokenTells
  <2>5. CASE HandleFinal
    BY <2>5, HandleFinalTells
  <2>6. CASE Restart
    BY <1>1, <2>6, RestartTells
  <2>7. CASE Work
    <3>1. UNCHANGED <<panel, spinner, submitted, delivered, asked, loaded, sends, restarts>>
      BY <2>7 DEF Work, counters
    <3>2. ~Restart
      BY <3>1 DEF Restart, Telling, WindowTyped
    <3>3. Told'
      BY <1>1, <3>1, <3>2, WorkTells
    <3> QED BY <3>1, <3>3 DEF Telling, WindowTyped
  <2>8. CASE DropPrompt
    <3>1. /\ submitted # <<>> /\ submitted' = Tail(submitted)
          /\ UNCHANGED <<panel, posted, spinner, delivered, asked, loaded, sends, restarts>>
      BY <2>8 DEF DropPrompt, network, counters
    <3>2. submitted' \in Seq(Text)
      BY <3>1, HeadTailProperties DEF Telling, WindowTyped
    <3> QED BY <3>1, <3>2 DEF Telling, WindowTyped, Told, NoTokenLostOrRepeated
  <2>9. CASE CancelGeneration \/ OpenMenu \/ Dismiss \/ TogglePin \/ Rename \/ UNCHANGED vars
    <3>1. /\ UNCHANGED <<panel, posted, submitted, delivered, asked, loaded, sends, restarts>>
          /\ spinner' \in {spinner, FALSE}
      BY <2>9 DEF CancelGeneration, OpenMenu, Dismiss, TogglePin, Rename, vars, network, counters
    <3> QED BY <3>1 DEF Telling, WindowTyped, Told, NoTokenLostOrRepeated
  <2> QED BY <2>1, <2>2, <2>3, <2>4, <2>5, <2>6, <2>7, <2>8, <2>9 DEF Next
<1>4. Counted'
  BY CountedKeeps DEF Telling
<1> QED BY <1>1, <1>2, <1>3, <1>4 DEF Telling

\* Whatever the user does and the network answers, the panel has shown what was delivered
\* since it was loaded, and nothing else.
THEOREM TellingInvariant == Spec => [](Inductive /\ Telling)
<1>1. Init => Telling
  BY InitTells
<1>2. Inductive /\ Telling /\ [Next]_vars => Telling'
  BY StepTells
<1> QED BY <1>1, <1>2, InductiveInvariant, PTL DEF Spec

\* Every variable of the window, of the network layer and of the history keeps its type.
THEOREM TypeCorrect == Spec => []TypeOK
<1>1. Inductive /\ Telling => TypeOK
  <2> SUFFICES ASSUME Inductive, Telling PROVE TypeOK
    OBVIOUS
  <2>1. Network!TypeOK
    BY DEF Telling, NetworkHolds, Contract!Inductive, Network!TypeOK, Contract!Client!Phases,
           Network!Phases, Contract!Client!Events, Network!Events,
           Contract!Client!Text, Network!Text
  <2>2. History!TypeOK
    BY DEF Telling, HistoryTyped, History!TypeOK
  <2> QED BY <2>1, <2>2 DEF Inductive, Shape, Telling, HistoryTyped, Counted, WindowTyped,
                         Told, TypeOK
<1> QED BY <1>1, TellingInvariant, PTL

\* AppendToken and DisplayUserMessage between them lose no token and repeat none: each
\* that was delivered since the panel was loaded is in a closed message or in the stream,
\* in the order of delivery, also when prompts are sent while tokens arrive.
THEOREM TokensShownOnce == Spec => []NoTokenLostOrRepeated
<1>1. Telling => NoTokenLostOrRepeated
  BY DEF Telling, Told
<1> QED BY <1>1, TellingInvariant, PTL

-----------------------------------------------------------------------------
(* Prefixes and ends. *)

\* A sequence is a prefix of itself, and the empty one of every sequence.
LEMMA PrefixSelf ==
  ASSUME NEW S, NEW s \in Seq(S)
  PROVE  IsPrefix(s, s) /\ IsPrefix(<<>>, s)
<1>1. Len(s) \in Nat /\ Len(<<>>) = 0
  BY LenProperties
<1>2. SubSeq(<<>>, 1, 0) = <<>> /\ SubSeq(s, 1, 0) = <<>>
  BY SubSeqEmpty
<1> QED BY <1>1, <1>2 DEF IsPrefix

\* A prefix stays one when an element is appended.
LEMMA PrefixOfMore ==
  ASSUME NEW S, NEW s \in Seq(S), NEW t \in Seq(S), IsPrefix(s, t), NEW e \in S
  PROVE  IsPrefix(s, Append(t, e))
<1> DEFINE a == Append(t, e)
           n == Len(s)
<1>1. /\ a \in Seq(S) /\ Len(a) = Len(t) + 1 /\ \A i \in 1..Len(t) : t[i] = a[i]
      /\ Len(t) \in Nat /\ n \in Nat
  BY AppendProperties, LenProperties
<1>2. n <= Len(t) /\ SubSeq(s, 1, n) = SubSeq(t, 1, n)
  BY DEF IsPrefix
<1> HIDE DEF a, n
<1>3. 0 \in Nat /\ 0 <= n /\ n <= Len(a) /\ \A i \in 1..n : t[i] = a[i]
  BY <1>1, <1>2
<1>4. SubSeq(t, 0 + 1, n) = SubSeq(a, 0 + 1, n)
  BY <1>1, <1>2, <1>3, SamePart
<1>5. SubSeq(s, 1, n) = SubSeq(a, 1, n)
  <2>1. 0 + 1 = 1
    OBVIOUS
  <2>2. SubSeq(t, 1, n) = SubSeq(a, 1, n)
    BY <1>4, <2>1
  <2> QED BY <1>2, <2>2
<1> QED BY <1>3, <1>5 DEF IsPrefix, a, n

\* What is before the last element, and the last element.
LEMMA EndsOfAppend ==
  ASSUME NEW S, NEW s \in Seq(S), NEW e \in S
  PROVE  Front(Append(s, e)) = s /\ Last(Append(s, e)) = e /\ Append(s, e) # <<>>
<1> DEFINE a == Append(s, e)
           n == Len(s)
<1>1. /\ a \in Seq(S) /\ a # <<>> /\ Len(a) = n + 1 /\ a[n + 1] = e /\ n \in Nat
      /\ n + 1 - 1 = n /\ \A i \in 1..n : a[i] = s[i]
  BY AppendProperties, LenProperties
<1> HIDE DEF a
<1>2. SubSeq(a, 0 + 1, n) = SubSeq(s, 0 + 1, n)
  <2> HIDE DEF n
  <2>1. 0 \in Nat /\ 0 <= n /\ n <= Len(a) /\ n <= Len(s)
    BY <1>1 DEF n
  <2> QED BY <1>1, <2>1, SamePart
<1>3. SubSeq(s, 1, n) = s
  BY SubSeqFull
<1> QED BY <1>1, <1>2, <1>3 DEF Front, Last, a

-----------------------------------------------------------------------------
(* Answers. *)

\* Events of other tasks are no part of an answer.
LEMMA AnswerStays ==
  ASSUME NEW events \in Seq(Contract!Client!Events), NEW k \in Nat, NEW n \in Nat,
         k <= n, n <= Len(events), NEW u,
         \A i \in 1..n : i > k => events[i].task # u
  PROVE  AnswerIn(SubSeq(events, 1, n), u) = AnswerIn(SubSeq(events, 1, k), u)
<1> DEFINE first(j) == AnswerIn(SubSeq(events, 1, j), u)
           N == {j \in Nat : k + j <= n => first(k + j) = first(k)}
<1>1. 0 \in N
  OBVIOUS
<1>2. ASSUME NEW j \in Nat, j \in N PROVE j + 1 \in N
  <2> SUFFICES ASSUME k + (j + 1) <= n PROVE first(k + (j + 1)) = first(k)
    OBVIOUS
  <2>1. PICK m \in Nat : m = k + j
    OBVIOUS
  <2>2. /\ m < Len(events) /\ m <= Len(events) /\ m + 1 = k + (j + 1) /\ m + 1 \in 1..n /\ m + 1 > k
        /\ m + 1 \in 1..Len(events) /\ 0 \in Nat /\ 0 <= m
    BY <2>1, LenProperties
  <2>3. first(m) = first(k)
    BY <1>2, <2>1, <2>2
  <2>4. events[m + 1] \in Contract!Client!Events /\ events[m + 1].task # u
    BY <2>2, ElementOfSeq
  <2>5. SubSeq(events, 0 + 1, m) \in Seq(Contract!Client!Events)
    BY <2>2, PartElements
  <2>6. SubSeq(events, 0 + 1, m + 1) = Append(SubSeq(events, 0 + 1, m), events[m + 1])
    BY <2>2, PartOfNext
  <2>7. /\ AnswerIn(Append(SubSeq(events, 0 + 1, m), events[m + 1]), u)
             = AnswerIn(SubSeq(events, 0 + 1, m), u) \o <<>>
        /\ AnswerIn(SubSeq(events, 0 + 1, m), u) \in Contract!Client!Text
    BY <2>4, <2>5, TextsOfMore
  <2>8. AnswerIn(SubSeq(events, 0 + 1, m + 1), u) = AnswerIn(SubSeq(events, 0 + 1, m), u)
    BY <2>6, <2>7, ConcatEmptySeq DEF Contract!Client!Text
  <2>9. first(m + 1) = first(m)
    BY <2>8
  <2> QED BY <2>2, <2>3, <2>9
<1> HIDE DEF N
<1>3. n - k \in N
  <2>1. n - k \in Nat
    OBVIOUS
  <2> QED BY <1>1, <1>2, <2>1, Induction
<1>4. k + (n - k) = n
  OBVIOUS
<1> QED BY <1>3, <1>4 DEF N

\* A task that has posted nothing has said nothing.
LEMMA NothingAnswered ==
  ASSUME NEW events \in Seq(Contract!Client!Events), NEW n \in Nat, n <= Len(events), NEW u,
         \A i \in 1..n : events[i].task # u
  PROVE  AnswerIn(SubSeq(events, 1, n), u) = <<>>
<1>1. AnswerIn(SubSeq(events, 1, n), u) = AnswerIn(SubSeq(events, 1, 0), u)
  BY AnswerStays
<1>2. SubSeq(events, 1, 0) = <<>>
  BY SubSeqEmpty
<1> QED BY <1>1, <1>2, TextsOfNone

\* What other tasks post does not change an answer.
LEMMA AnswerKept ==
  ASSUME NEW old \in Seq(Contract!Client!Events), NEW new, Contract!Grown(old, new),
         NEW t, Contract!AddedBy(t, old, new), NEW u, u # t
  PROVE  AnswerIn(new, u) = AnswerIn(old, u)
<1> DEFINE k == Len(old)
           n == Len(new)
<1>1. /\ new \in Seq(Contract!Client!Events) /\ k \in Nat /\ n \in Nat /\ k <= n
      /\ \A i \in 1..k : new[i] = old[i]
      /\ \A i \in 1..n : i > k => new[i].task # u
  BY DEF Contract!Grown, Contract!AddedBy
<1>2. SubSeq(new, 1, n) = new /\ SubSeq(old, 1, k) = old
  BY <1>1, SubSeqFull
<1> HIDE DEF k, n
<1>3. AnswerIn(SubSeq(new, 1, n), u) = AnswerIn(SubSeq(new, 1, k), u)
  <2>1. n <= Len(new)
    BY <1>1 DEF n
  <2> QED BY <1>1, <2>1, AnswerStays
<1>4. SubSeq(new, 0 + 1, k) = SubSeq(old, 0 + 1, k)
  <2>1. 0 \in Nat /\ 0 <= k /\ k <= Len(new) /\ k <= Len(old)
    BY <1>1 DEF k, n
  <2> QED BY <1>1, <2>1, SamePart
<1>5. SubSeq(new, 1, k) = SubSeq(old, 1, k)
  <2>1. 0 + 1 = 1
    OBVIOUS
  <2> QED BY <1>4, <2>1
<1> QED BY <1>2, <1>3, <1>5

-----------------------------------------------------------------------------
(* A considerate user who attaches nothing. *)

PlainDrafts == \A d \in Draft : ~d.documents /\ ~d.images

\* What is stored of the open session.
Saved == IF current = Nowhere THEN <<>> ELSE stored[current]

Quiet(t) == phase[t] \in {"idle", "settled"}

Rest == AtRest /\ Flushed(panel).messages = Saved

\* A prompt waits; it is the last message of the panel, and not yet stored.
Queued ==
  /\ menu = 0 /\ delivered = Len(posted) /\ \A t \in Task : Quiet(t)
  /\ submitted # <<>> /\ Tail(submitted) = <<>> /\ Head(submitted) # <<>>
  /\ panel.stream = <<>> /\ panel.last = Head(submitted)
  /\ panel.messages = Append(Saved, UserTalk(Head(submitted)))

\* Task t answers the last message of the open session; the stream holds what it has said,
\* as far as that was delivered, and its final event was not.
Running(t) ==
  /\ menu = 0 /\ submitted = <<>>
  /\ phase[t] # "idle" /\ \A u \in Task \ {t} : Quiet(u)
  /\ \A i \in 1..Len(posted) : i > delivered => posted[i].task = t
  /\ \A i \in 1..Len(posted) : i <= delivered /\ posted[i].task = t => ~posted[i].final
  /\ current # Nowhere /\ asked[t].session = current
  /\ panel.messages = stored[current]
  /\ stored[current] # <<>> /\ Last(stored[current]) = UserTalk(asked[t].text)
  /\ panel.stream = AnswerIn(SubSeq(posted, 1, delivered), t)

Orderly == Rest \/ Queued \/ \E t \in Task : Running(t)

\* Events are posted by tasks that were spawned, and tasks were asked in sessions that
\* were created.
Accounted ==
  /\ \A i \in 1..Len(posted) : phase[posted[i].task] # "idle"
  /\ \A t \in Task : phase[t] # "idle" => asked[t].session \in minted

\* A task that works is neither idle nor settled, and no other task changes.
LEMMA WorkPhases ==
  ASSUME Contract!Inductive, NEW t \in Task, Contract!Client!Work(t)
  PROVE  /\ ~Quiet(t) /\ phase'[t] # "idle"
         /\ \A u \in Task \ {t} : phase'[u] = phase[u]
BY DEF Quiet, Contract!Inductive, Contract!Client!Phases, Contract!Client!Work,
       Contract!Client!Refuse, Contract!Client!Replay, Contract!Client!Begin,
       Contract!Client!Settle, Contract!Client!Emit

\* The final event of task t has been handled.
Done(t) == phase[t] = "settled" /\ \A i \in DOMAIN posted : posted[i].task = t => i <= delivered

\* While a task runs something is left to do.
LEMMA RunningIsBusy ==
  ASSUME Telling, NEW t \in Task, Running(t)
  PROVE  ~AtRest /\ ~Done(t)
<1>1. DOMAIN posted = 1..Len(posted) /\ Len(posted) \in Nat /\ delivered \in Nat
  BY PostedType, LenProperties DEF Telling, Told
<1>2. ASSUME phase[t] = "settled"
      PROVE  \E i \in 1..Len(posted) : posted[i].task = t /\ ~(i <= delivered)
  <2>1. Contract!Ended(posted, t)
    BY <1>2 DEF Telling, NetworkHolds, Contract!Inductive
  <2>2. PICK i \in 1..Len(posted) : posted[i].task = t /\ posted[i].final
    BY <2>1 DEF Contract!Ended
  <2>3. ~(i <= delivered)
    BY <2>2 DEF Running
  <2> QED BY <2>2, <2>3
<1>3. ~Done(t)
  BY <1>1, <1>2 DEF Done
<1>4. ~AtRest
  <2> SUFFICES ASSUME AtRest PROVE FALSE
    OBVIOUS
  <2>1. phase[t] = "settled" /\ delivered = Len(posted)
    BY DEF AtRest, Running
  <2> QED BY <1>1, <1>2, <2>1
<1> QED BY <1>3, <1>4

\* At rest, and when a menu is open, nothing waits and nothing runs.
LEMMA RestStage ==
  ASSUME Telling, Orderly, AtRest \/ menu # 0
  PROVE  AtRest /\ Flushed(panel).messages = Saved
BY RunningIsBusy DEF Orderly, Rest, Queued, Running, AtRest

-----------------------------------------------------------------------------
(* Steps of a considerate user. *)

\* As long as no statement has failed, a session that is open exists.
LEMMA Opened ==
  ASSUME Telling, Inductive, faults = 0, current # Nowhere
  PROVE  current \in DOMAIN stored
BY DEF Telling, Counted, Inductive, SessionsAgree

\* Statements that have not failed have succeeded.
LEMMA NoneFailed ==
  ASSUME Telling, faults' = 0, NEW ok \in BOOLEAN, Statements(ok)
  PROVE  ok
BY StatementsCount DEF Telling, Counted

\* A session that is selected, or opened at the start, is then loaded as it is stored.
LEMMA LoadsWhole ==
  ASSUME Telling, faults' = 0
  PROVE  /\ \A s, n : LoadSession(s, n) => panel' = LoadedPanel(s, stored[s])
         /\ \A p, l : ~LoadNothing(p, l)
<1>1. ~Statements(FALSE)
  BY NoneFailed
<1> QED BY <1>1 DEF LoadSession, LoadNothing, Load

\* What a prompt does, once it is handled, if no statement fails.
LEMMA PromptHandled ==
  ASSUME Telling, Inductive, faults = 0, faults' = 0, NEW t \in Task, HandlePrompt(t)
  PROVE  \E s \in Session :
           /\ current' = s /\ s \in minted' /\ s \in DOMAIN stored'
           /\ current # Nowhere => s = current
           /\ current = Nowhere => s \notin minted
           /\ minted \subseteq minted'
           /\ DOMAIN stored' = DOMAIN stored \cup {s}
           /\ stored'[s] = Append(Saved, UserTalk(Head(submitted)))
           /\ \A u \in DOMAIN stored : u # s => stored'[u] = stored[u]
           /\ asked' = [asked EXCEPT ![t] =
                          [text |-> Head(submitted), session |-> s,
                           context |-> IF panel'.messages = <<>> THEN <<>>
                                       ELSE Front(panel'.messages)]]
           /\ panel' = WithUserMessage(
                          [panel EXCEPT !.session = IF current = Nowhere THEN s ELSE @],
                          Head(submitted))
<1> DEFINE m == UserTalk(Head(submitted))
           request(s) == [text |-> Head(submitted), session |-> s,
                          context |-> IF panel'.messages = <<>> THEN <<>>
                                      ELSE Front(panel'.messages)]
           shown(s) == WithUserMessage(
                          [panel EXCEPT !.session = IF current = Nowhere THEN s ELSE @],
                          Head(submitted))
<1>1. PICK s \in Session, made \in BOOLEAN, written \in BOOLEAN, touched \in BOOLEAN :
        /\ Statements(made /\ written /\ touched)
        /\ IF current = Nowhere
             THEN /\ s \notin minted
                  /\ minted' = minted \cup {s}
                  /\ stored' = Appended(IF made THEN History!With(stored, s) ELSE stored,
                                        s, m, written)
             ELSE /\ s = current
                  /\ UNCHANGED minted
                  /\ stored' = Appended(stored, s, m, written)
        /\ current' = s
        /\ asked' = [asked EXCEPT ![t] = request(s)]
        /\ panel' = shown(s)
  BY DEF HandlePrompt
<1> HIDE DEF m, request, shown
<1>2. made /\ written
  BY <1>1, NoneFailed
<1>3. /\ s \in minted' /\ minted \subseteq minted'
      /\ DOMAIN stored' = DOMAIN stored \cup {s} /\ stored'[s] = Append(Saved, m)
      /\ \A u \in DOMAIN stored : u # s => stored'[u] = stored[u]
  <2>1. CASE current = Nowhere
    <3>1. stored' = History!Extended(History!With(stored, s), s, m) /\ minted' = minted \cup {s}
      BY <1>1, <1>2, <2>1 DEF Appended, History!With
    <3>2. /\ DOMAIN History!With(stored, s) = DOMAIN stored \cup {s}
          /\ History!With(stored, s)[s] = <<>>
          /\ \A u \in DOMAIN stored : u # s => History!With(stored, s)[u] = stored[u]
      BY DEF History!With
    <3>3. /\ DOMAIN stored' = DOMAIN stored \cup {s} /\ stored'[s] = Append(<<>>, m)
          /\ \A u \in DOMAIN stored : u # s => stored'[u] = stored[u]
      BY <3>1, <3>2 DEF History!Extended
    <3> QED BY <2>1, <3>1, <3>3 DEF Saved
  <2>2. CASE current # Nowhere
    <3>1. s = current /\ s \in DOMAIN stored /\ minted' = minted
      BY <1>1, <2>2, Opened
    <3>2. stored' = History!Extended(stored, s, m)
      BY <1>1, <1>2, <2>2, <3>1 DEF Appended
    <3>3. /\ DOMAIN stored' = DOMAIN stored /\ stored'[s] = Append(stored[s], m)
          /\ \A u \in DOMAIN stored : u # s => stored'[u] = stored[u]
      BY <3>1, <3>2 DEF History!Extended
    <3>4. s \in minted
      BY <3>1 DEF Telling, HistoryTyped
    <3> QED BY <2>2, <3>1, <3>3, <3>4 DEF Saved
  <2> QED BY <2>1, <2>2
<1> QED BY <1>1, <1>3 DEF m, request, shown

\* The end of an answer stores what the stream holds, if no statement fails.
LEMMA FinalHandled ==
  ASSUME Telling, Inductive, faults = 0, faults' = 0, HandleFinal
  PROVE  IF current # Nowhere /\ panel.stream # <<>>
           THEN /\ current \in DOMAIN stored
                /\ stored' = History!Extended(stored, current, AssistantTalk(panel.stream))
           ELSE stored' = stored
<1>1. CASE current # Nowhere /\ panel.stream # <<>>
  <2>1. PICK written \in BOOLEAN, touched \in BOOLEAN :
          /\ Statements(written /\ touched)
          /\ stored' = Appended(stored, current, AssistantTalk(panel.stream), written)
    BY <1>1 DEF HandleFinal
  <2>2. written
    BY <2>1, NoneFailed
  <2> QED BY <1>1, <2>1, <2>2, Opened DEF Appended
<1>2. CASE ~(current # Nowhere /\ panel.stream # <<>>)
  BY <1>2 DEF HandleFinal
<1> QED BY <1>1, <1>2

\* What is stored of a session only grows, until it is deleted for good.
LEMMA LogsGrow ==
  ASSUME Telling, Inductive, faults = 0, faults' = 0, [Next]_vars, NEW u \in DOMAIN stored', u \in minted
  PROVE  /\ u \in DOMAIN stored
         /\ stored'[u] = stored[u] \/ \E m \in Talk : stored'[u] = Append(stored[u], m)
<1>1. ASSUME NEW t \in Task, HandlePrompt(t)
      PROVE  /\ u \in DOMAIN stored
             /\ stored'[u] = stored[u] \/ \E m \in Talk : stored'[u] = Append(stored[u], m)
  <2>1. PICK s \in Session :
           /\ current # Nowhere => s = current
           /\ current = Nowhere => s \notin minted
           /\ DOMAIN stored' = DOMAIN stored \cup {s}
           /\ stored'[s] = Append(Saved, UserTalk(Head(submitted)))
           /\ \A v \in DOMAIN stored : v # s => stored'[v] = stored[v]
    BY <1>1, PromptHandled
  <2>2. UserTalk(Head(submitted)) \in Talk
    <3>1. PICK text \in Text : text = Head(submitted)
      BY <1>1, HeadTailProperties DEF HandlePrompt, Telling, WindowTyped
    <3> QED BY <3>1, TalkType
  <2>3. CASE u = s
    <3>1. current # Nowhere /\ u = current /\ u \in DOMAIN stored
      BY <2>1, <2>3, Opened
    <3>2. stored'[u] = Append(stored[u], UserTalk(Head(submitted)))
      BY <2>1, <2>3, <3>1 DEF Saved
    <3> QED BY <2>2, <3>1, <3>2
  <2>4. CASE u # s
    BY <2>1, <2>4
  <2> QED BY <2>3, <2>4
<1>2. CASE HandleFinal
  <2>1. CASE current # Nowhere /\ panel.stream # <<>>
    <3>1. /\ stored' = History!Extended(stored, current, AssistantTalk(panel.stream))
          /\ current \in DOMAIN stored
      BY <1>2, <2>1, FinalHandled
    <3>2. AssistantTalk(panel.stream) \in Talk
      BY TalkType DEF Telling, WindowTyped, Panel
    <3>3. /\ DOMAIN stored' = DOMAIN stored
          /\ stored'[current] = Append(stored[current], AssistantTalk(panel.stream))
          /\ \A v \in DOMAIN stored : v # current => stored'[v] = stored[v]
      BY <3>1 DEF History!Extended
    <3> QED BY <3>2, <3>3
  <2>2. CASE ~(current # Nowhere /\ panel.stream # <<>>)
    BY <1>2, <2>2, FinalHandled
  <2> QED BY <2>1, <2>2
<1>3. CASE DeleteChat
  BY <1>3 DEF DeleteChat, History!Without
<1>4. CASE ~HandleFinal /\ ~DeleteChat /\ ~\E t \in Task : HandlePrompt(t)
  <2>1. stored' = stored
    BY <1>4 DEF Next, vars, history, NewChat, CancelGeneration, OpenMenu, Dismiss, TogglePin,
                Rename, DropPrompt, HandleToken, Send, SelectSession, Work, Restart
  <2> QED BY <2>1
<1> QED BY <1>1, <1>2, <1>3, <1>4

\* Only the prompt of a task sets what it was asked.
LEMMA AskedStays ==
  ASSUME Telling, [Next]_vars, ~Restart, NEW u \in Task, ~HandlePrompt(u)
  PROVE  asked'[u] = asked[u] /\ (phase'[u] = "idle" <=> phase[u] = "idle")
<1>1. asked \in [Task -> Request] /\ phase \in [Task -> Contract!Client!Phases]
  BY DEF Telling, WindowTyped, NetworkHolds, Contract!Inductive
<1>2. ASSUME NEW t \in Task, HandlePrompt(t), t # u
      PROVE  asked'[u] = asked[u] /\ phase'[u] = phase[u]
  <2>1. phase' = [phase EXCEPT ![t] = "waiting"]
    BY <1>2 DEF HandlePrompt, Network!Submit
  <2>2. \E r : asked' = [asked EXCEPT ![t] = r]
    BY <1>2 DEF HandlePrompt
  <2> QED BY <1>1, <1>2, <2>1, <2>2
<1>3. CASE Work
  <2>1. PICK t \in Task : Contract!Client!Work(t)
    BY <1>3, SameWork DEF Work
  <2>2. /\ phase[t] # "idle" /\ phase'[t] # "idle"
        /\ \A v \in Task \ {t} : phase'[v] = phase[v]
    BY <2>1, WorkPhases DEF Quiet, Telling, NetworkHolds
  <2> QED BY <1>3, <2>2 DEF Work
<1>4. CASE ~Work /\ ~\E t \in Task : HandlePrompt(t)
  BY <1>4 DEF Next, vars, network, NewChat, CancelGeneration, OpenMenu, Dismiss, TogglePin,
              Rename, DeleteChat, DropPrompt, HandleToken, HandleFinal, Send, SelectSession
<1> QED BY <1>2, <1>3, <1>4

\* No event is posted for a task that was not spawned, and no session is forgotten.
LEMMA AccountedKeeps ==
  ASSUME Telling, Inductive, faults = 0, faults' = 0, Accounted, [Next]_vars
  PROVE  Accounted'
<1>1. /\ posted \in Seq(Contract!Client!Events) /\ Len(posted) \in Nat
      /\ \A i \in 1..Len(posted) : posted[i].task \in Task
  <2>1. posted \in Seq(Contract!Client!Events) /\ Len(posted) \in Nat
    BY PostedType DEF Telling
  <2>2. \A i \in 1..Len(posted) : posted[i] \in Contract!Client!Events
    BY <2>1, ElementOfSeq
  <2> QED BY <2>1, <2>2 DEF Contract!Client!Events
<1>2. asked \in [Task -> Request] /\ phase \in [Task -> Contract!Client!Phases]
  BY DEF Telling, WindowTyped, NetworkHolds, Contract!Inductive
<1>3. ASSUME NEW t \in Task, HandlePrompt(t)
      PROVE  Accounted'
  <2>1. PICK s \in Session :
           /\ s \in minted' /\ minted \subseteq minted'
           /\ \E r : r.session = s /\ asked' = [asked EXCEPT ![t] = r]
    <3> HIDE DEF Accounted
    <3>1. PICK s \in Session :
           /\ s \in minted' /\ minted \subseteq minted'
           /\ asked' = [asked EXCEPT ![t] =
                          [text |-> Head(submitted), session |-> s,
                           context |-> IF panel'.messages = <<>> THEN <<>>
                                       ELSE Front(panel'.messages)]]
      BY <1>3, PromptHandled
    <3>2. PICK r : r = [text |-> Head(submitted), session |-> s,
                        context |-> IF panel'.messages = <<>> THEN <<>>
                                    ELSE Front(panel'.messages)]
      OBVIOUS
    <3>3. r.session = s
      BY <3>2
    <3> QED BY <3>1, <3>2, <3>3
  <2>2. phase' = [phase EXCEPT ![t] = "waiting"] /\ posted' = posted
    BY <1>3 DEF HandlePrompt, Network!Submit
  <2> QED BY <1>1, <1>2, <2>1, <2>2 DEF Accounted
<1>4. CASE Restart
  <2>1. Len(posted') = 0
    BY <1>4 DEF Restart
  <2>2. \A t \in Task : phase'[t] = "idle"
    BY <1>4 DEF Restart
  <2> QED BY <2>1, <2>2 DEF Accounted
<1>5. CASE Work
  <2>1. PICK t \in Task : Contract!Client!Work(t)
    BY <1>5, SameWork DEF Work
  <2>2. /\ phase[t] # "idle" /\ phase'[t] # "idle"
        /\ \A v \in Task \ {t} : phase'[v] = phase[v]
    BY <2>1, WorkPhases DEF Quiet, Telling, NetworkHolds
  <2>3. Contract!Grown(posted, posted') /\ Contract!AddedBy(t, posted, posted')
    BY <2>1, ContractApplies, Contract!WorkGrows DEF Telling, NetworkHolds
  <2>4. ASSUME NEW i \in 1..Len(posted') PROVE phase'[posted'[i].task] # "idle"
    <3>1. CASE i > Len(posted)
      BY <2>2, <2>3, <3>1 DEF Contract!AddedBy
    <3>2. CASE ~(i > Len(posted))
      <4>1. i \in 1..Len(posted) /\ posted'[i] = posted[i]
        BY <1>1, <2>3, <3>2 DEF Contract!Grown
      <4> QED BY <1>1, <2>2, <4>1 DEF Accounted
    <3> QED BY <3>1, <3>2
  <2>5. asked' = asked /\ minted' = minted
    BY <1>5 DEF Work, history
  <2> QED BY <2>2, <2>4, <2>5 DEF Accounted
<1>6. CASE ~Work /\ ~Restart /\ ~\E t \in Task : HandlePrompt(t)
  <2>1. UNCHANGED <<phase, posted, asked, minted>>
    BY <1>6 DEF Next, vars, network, history, NewChat, CancelGeneration, OpenMenu, Dismiss,
              TogglePin, Rename, DeleteChat, DropPrompt, HandleToken, HandleFinal, Send,
              SelectSession
  <2> QED BY <2>1 DEF Accounted
<1> QED BY <1>3, <1>4, <1>5, <1>6

\* Closing an empty stream changes nothing.
LEMMA FlushedEmpty ==
  ASSUME NEW p, p.stream = <<>>
  PROVE  Flushed(p) = p
BY DEF Flushed

\* At rest the user sends a prompt.
LEMMA SendOrders ==
  ASSUME Considerate, PlainDrafts, Telling, Orderly, NEW d \in Draft, Send(d)
  PROVE  Queued'
<1> DEFINE text == d.typed
<1>1. /\ menu = 0 /\ AtRest /\ ~IsPrefix(text \o <<>>, panel.last)
      /\ panel' = WithUserMessage(panel, text \o <<>>)
      /\ submitted' = Append(submitted, text \o <<>>)
      /\ UNCHANGED <<phase, posted, delivered, stored, current, menu>>
  BY DEF Send, Active, Waits, PlainDrafts, network, history, dialog
<1>2. text \in Text /\ panel.last \in Text /\ panel \in Panel
  BY AtomsAreText DEF Telling, WindowTyped, Panel
<1>3. text \o <<>> = text
  BY <1>2, ConcatEmptySeq DEF Text
<1> HIDE DEF text
<1>4. text # <<>>
  <2>1. IsPrefix(<<>>, panel.last)
    BY <1>2, PrefixSelf DEF Text
  <2> QED BY <1>1, <1>3, <2>1
<1>5. Flushed(panel).messages = Saved
  BY <1>1, RestStage
<1>6. panel' = [Flushed(panel) EXCEPT !.messages = Append(@, UserTalk(text)), !.last = text]
  BY <1>1, <1>3 DEF WithUserMessage
<1>7. Flushed(panel) \in Panel /\ Flushed(panel).stream = <<>>
  <2>1. loaded.messages \in 0..Len(panel.messages)
    BY DEF Telling, Told
  <2> QED BY <1>2, <2>1, FlushTells
<1>8. /\ panel'.stream = <<>> /\ panel'.last = text
      /\ panel'.messages = Append(Saved, UserTalk(text))
  BY <1>5, <1>6, <1>7 DEF Panel
<1>9. submitted' = <<text>>
  <2>1. submitted = <<>>
    BY <1>1 DEF AtRest
  <2> QED BY <1>1, <1>3, <2>1
<1>10. submitted' # <<>> /\ Tail(submitted') = <<>> /\ Head(submitted') = text
  BY <1>9
<1>11. Saved' = Saved
  BY <1>1 DEF Saved
<1>12. delivered = Len(posted) /\ \A t \in Task : Quiet(t)
  BY <1>1 DEF AtRest, Quiet
<1> QED BY <1>1, <1>4, <1>8, <1>10, <1>11, <1>12 DEF Queued, Quiet

\* At rest the user opens a session, a menu or a dialog, or leaves them.
LEMMA RestOrders ==
  ASSUME Considerate, Telling, Inductive, faults' = 0, Orderly,
         \/ NewChat \/ DeleteChat \/ OpenMenu \/ Dismiss \/ TogglePin \/ Rename
         \/ \E row \in DOMAIN listed : SelectSession(row)
  PROVE  Rest'
<1>1. AtRest /\ UNCHANGED <<phase, posted, delivered, submitted>>
  <2>1. AtRest \/ menu # 0
    BY DEF NewChat, DeleteChat, OpenMenu, Dismiss, TogglePin, Rename, SelectSession, Active,
           Waits, CloseMenu
  <2>2. AtRest
    BY <2>1, RestStage
  <2> QED BY <2>2 DEF NewChat, DeleteChat, OpenMenu, Dismiss, TogglePin, Rename, SelectSession,
                      network
<1>2. AtRest'
  BY <1>1 DEF AtRest
<1>3. CASE NewChat \/ DeleteChat
  <2>1. panel' = BlankPanel /\ current' = Nowhere
    BY <1>3 DEF NewChat, DeleteChat, Load
  <2>2. Flushed(BlankPanel).messages = <<>>
    BY DEF Flushed, BlankPanel
  <2> QED BY <1>2, <2>1, <2>2 DEF Rest, Saved
<1>4. CASE OpenMenu \/ Dismiss \/ TogglePin \/ Rename
  <2>1. UNCHANGED <<panel, current, stored>>
    BY <1>4 DEF OpenMenu, Dismiss, TogglePin, Rename, history
  <2>2. Flushed(panel).messages = Saved
    BY <1>1, RestStage
  <2> QED BY <1>2, <2>1, <2>2 DEF Rest, Saved
<1>5. ASSUME NEW row \in DOMAIN listed, SelectSession(row)
      PROVE  Rest'
  <2>1. listed[row] \in DOMAIN stored /\ listed[row] # Nowhere
    BY NowhereAssumption DEF Inductive, SidebarInStep, Range, Telling, HistoryTyped
  <2>2. /\ panel' = LoadedPanel(listed[row], stored[listed[row]])
        /\ current' = listed[row] /\ stored' = stored
    BY <1>5, LoadsWhole DEF SelectSession, history
  <2>3. Flushed(panel').messages = stored[listed[row]]
    BY <2>2 DEF LoadedPanel, Flushed
  <2> QED BY <1>2, <2>1, <2>2, <2>3 DEF Rest, Saved
<1> QED BY <1>3, <1>4, <1>5

\* After a restart the first session is shown as it is stored.
LEMMA RestartOrders ==
  ASSUME Telling, faults' = 0, Restart
  PROVE  Rest'
<1>1. /\ listed' \in Listings(DOMAIN stored, later, pinned)
      /\ current' = IF listed' = <<>> THEN Nowhere ELSE Head(listed')
      /\ panel' = IF listed' = <<>> THEN BlankPanel ELSE LoadedPanel(current', stored[current'])
      /\ submitted' = <<>> /\ delivered' = 0 /\ posted' = <<>> /\ stored' = stored
      /\ phase' = [t \in Task |-> "idle"]
  BY LoadsWhole DEF Restart, Load, history
<1>2. AtRest'
  <2>1. Len(posted') = 0
    BY <1>1
  <2> QED BY <1>1, <2>1 DEF AtRest
<1>3. CASE listed' = <<>>
  <2>1. panel' = BlankPanel /\ current' = Nowhere
    BY <1>1, <1>3
  <2>2. Flushed(BlankPanel).messages = <<>>
    BY DEF Flushed, BlankPanel
  <2> QED BY <1>2, <2>1, <2>2 DEF Rest, Saved
<1>4. CASE listed' # <<>>
  <2>4. current' \in DOMAIN stored /\ current' # Nowhere
    BY <1>1, <1>4, HeadIsListed, NowhereAssumption DEF Telling, HistoryTyped
  <2>5. panel' = LoadedPanel(current', stored[current'])
    BY <1>1, <1>4
  <2>6. Flushed(panel').messages = stored[current']
    BY <2>5 DEF LoadedPanel, Flushed
  <2> QED BY <1>1, <1>2, <2>4, <2>6 DEF Rest, Saved
<1> QED BY <1>3, <1>4

\* The prompt is stored as it is shown, and its task has everything before it as context.
LEMMA PromptOrders ==
  ASSUME Telling, Inductive, faults = 0, faults' = 0, Accounted, Orderly,
         NEW t \in Task, HandlePrompt(t)
  PROVE  /\ Running(t)'
         /\ asked'[t].session \in DOMAIN stored'
         /\ PrepareHttpRequest(asked'[t]) = stored'[asked'[t].session]
         /\ stored'[asked'[t].session] \in Seq(Talk)
<1>1. submitted # <<>> /\ submitted' = Tail(submitted)
      /\ UNCHANGED <<posted, delivered, menu>>
      /\ phase[t] = "idle" /\ phase' = [phase EXCEPT ![t] = "waiting"]
  BY DEF HandlePrompt, Network!Submit, dialog
<1>2. Queued
  BY <1>1 DEF Orderly, Rest, AtRest, Running
<1> DEFINE text == Head(submitted)
           opened(s) == [panel EXCEPT !.session = IF current = Nowhere THEN s ELSE @]
           context == IF panel'.messages = <<>> THEN <<>> ELSE Front(panel'.messages)
<1>3. PICK s \in Session :
        /\ current' = s /\ s \in DOMAIN stored'
        /\ stored'[s] = Append(Saved, UserTalk(text))
        /\ asked' = [asked EXCEPT ![t] = [text |-> text, session |-> s, context |-> context]]
        /\ panel' = WithUserMessage(opened(s), text)
  BY PromptHandled
<1>4. text \in Text /\ panel \in Panel
  BY <1>1, HeadTailProperties DEF Telling, WindowTyped
<1>5. panel.stream = <<>> /\ panel.last = text /\ panel.messages = Append(Saved, UserTalk(text))
  BY <1>2 DEF Queued
<1> HIDE DEF text, context
<1>6. panel'.messages = panel.messages /\ panel'.stream = <<>>
  <2>1. /\ opened(s).stream = <<>> /\ opened(s).last = text
        /\ opened(s).messages = panel.messages
    BY <1>4, <1>5 DEF Panel
  <2> HIDE DEF opened
  <2>2. IsPrefix(text, opened(s).last)
    BY <1>4, <2>1, PrefixSelf DEF Text
  <2>3. panel' = opened(s)
    BY <1>3, <2>1, <2>2, FlushedEmpty DEF WithUserMessage
  <2> QED BY <2>1, <2>3
<1>7. Saved \in Seq(Talk) /\ UserTalk(text) \in Talk
  <2>1. current # Nowhere => current \in DOMAIN stored
    BY Opened
  <2>2. <<>> \in Seq(Talk)
    OBVIOUS
  <2> QED BY <1>4, <2>1, <2>2, TalkType DEF Saved, Telling, HistoryTyped
<1>8. /\ Front(panel'.messages) = Saved /\ panel'.messages # <<>>
      /\ Last(panel'.messages) = UserTalk(text) /\ panel'.messages \in Seq(Talk)
  BY <1>5, <1>6, <1>7, EndsOfAppend, AppendProperties
<1>9. context = Saved
  BY <1>8 DEF context
<1>10. asked'[t] = [text |-> text, session |-> s, context |-> Saved]
  BY <1>3, <1>9 DEF Telling, WindowTyped
<1>11. asked'[t].session = s /\ asked'[t].text = text /\ asked'[t].context = Saved
  BY <1>10
<1>12. phase'[t] # "idle" /\ \A u \in Task \ {t} : Quiet(u)'
  BY <1>1, <1>2 DEF Telling, NetworkHolds, Contract!Inductive, Queued, Quiet
<1>13. /\ posted \in Seq(Contract!Client!Events) /\ Len(posted) \in Nat /\ delivered = Len(posted)
       /\ \A i \in 1..Len(posted) : posted[i].task # t
  BY <1>1, <1>2, PostedType DEF Telling, Accounted, Queued
<1>14. AnswerIn(SubSeq(posted, 1, delivered), t) = <<>>
  BY <1>13, NothingAnswered
<1>15. current' # Nowhere
  BY <1>3, NowhereAssumption
<1>16. submitted' = <<>> /\ menu' = 0
  BY <1>1, <1>2 DEF Queued
<1>17. panel'.messages = stored'[s]
  BY <1>3, <1>5, <1>6
<1>18. /\ \A i \in 1..Len(posted) : i > delivered => posted[i].task = t
       /\ \A i \in 1..Len(posted) : i <= delivered /\ posted[i].task = t => ~posted[i].final
  BY <1>13
<1>19. Running(t)'
  <2>1. stored'[current'] = panel'.messages /\ current' = s
    BY <1>3, <1>17
  <2> QED BY <1>1, <1>6, <1>8, <1>11, <1>12, <1>14, <1>15, <1>16, <1>18, <2>1 DEF Running
<1> QED BY <1>3, <1>5, <1>6, <1>8, <1>11, <1>17, <1>19 DEF PrepareHttpRequest

\* A token belongs to the task that runs, and the stream grows as its answer does.
LEMMA TokenOrders ==
  ASSUME Telling, Orderly, HandleToken
  PROVE  \E t \in Task : Running(t) /\ Running(t)'
<1>1. /\ delivered < Len(posted) /\ delivered' = delivered + 1 /\ ~NextEvent.final
      /\ panel' = WithToken(panel, NextEvent.text)
      /\ UNCHANGED <<phase, posted, menu, submitted, current, asked, stored>>
  BY DEF HandleToken, network, history, dialog
<1>2. /\ posted \in Seq(Contract!Client!Events) /\ Len(posted) \in Nat /\ delivered \in Nat
      /\ delivered + 1 \in 1..Len(posted) /\ delivered + 1 > delivered
  BY <1>1, PostedType DEF Telling, Told
<1>3. PICK t \in Task : Running(t)
  BY <1>1, <1>2 DEF Orderly, Rest, AtRest, Queued
<1>4. posted[delivered + 1].task = t /\ NextEvent = posted[delivered + 1]
  BY <1>2, <1>3 DEF Running, NextEvent
<1>5. /\ panel'.stream = AnswerIn(SubSeq(posted, 1, delivered + 1), t)
      /\ panel'.messages = panel.messages
  <2>1. PICK n \in Nat : n = delivered
    BY <1>2
  <2>2. n < Len(posted) /\ n <= Len(posted) /\ n + 1 \in 1..Len(posted) /\ 0 \in Nat /\ 0 <= n
    BY <1>1, <1>2, <2>1
  <2>3. /\ posted[n + 1] \in Contract!Client!Events
        /\ SubSeq(posted, 0 + 1, n) \in Seq(Contract!Client!Events)
    BY <1>2, <2>2, ElementOfSeq, PartElements
  <2>4. SubSeq(posted, 0 + 1, n + 1) = Append(SubSeq(posted, 0 + 1, n), posted[n + 1])
    BY <1>2, <2>2, PartOfNext
  <2>5. AnswerIn(SubSeq(posted, 0 + 1, n + 1), t)
          = AnswerIn(SubSeq(posted, 0 + 1, n), t) \o posted[n + 1].text
    BY <1>4, <2>1, <2>3, <2>4, TextsOfMore
  <2>6. 0 + 1 = 1
    OBVIOUS
  <2>7. AnswerIn(SubSeq(posted, 1, n + 1), t) = AnswerIn(SubSeq(posted, 1, n), t) \o NextEvent.text
    BY <1>4, <2>1, <2>5, <2>6
  <2>8. panel.stream = AnswerIn(SubSeq(posted, 1, n), t)
    BY <1>3, <2>1 DEF Running
  <2>9. panel'.stream = panel.stream \o NextEvent.text /\ panel'.messages = panel.messages
    BY <1>1 DEF WithToken, Telling, WindowTyped, Panel
  <2> QED BY <2>1, <2>7, <2>8, <2>9
<1>6. /\ \A i \in 1..Len(posted) : i > delivered + 1 => posted[i].task = t
      /\ \A i \in 1..Len(posted) :
            i <= delivered + 1 /\ posted[i].task = t => ~posted[i].final
  <2>1. \A i \in 1..Len(posted) : i > delivered + 1 => i > delivered
    BY <1>2
  <2>2. \A i \in 1..Len(posted) : i <= delivered + 1 => i <= delivered \/ i = delivered + 1
    BY <1>2
  <2> QED BY <1>1, <1>3, <1>4, <2>1, <2>2 DEF Running
<1>7. Running(t)'
  BY <1>1, <1>3, <1>5, <1>6 DEF Running, Quiet
<1> QED BY <1>3, <1>7

\* The final event is the last one, and the history gets what the panel shows.
LEMMA FinalOrders ==
  ASSUME Telling, Inductive, faults = 0, faults' = 0, Orderly, HandleFinal
  PROVE  /\ Rest'
         /\ \E t \in Task :
              /\ Running(t) /\ Answer(t) = panel.stream /\ posted[delivered + 1].task = t
              /\ panel.stream # <<>> =>
                   /\ current \in DOMAIN stored /\ DOMAIN stored' = DOMAIN stored
                   /\ stored'[current] = Append(stored[current], AssistantTalk(panel.stream))
<1>1. /\ delivered < Len(posted) /\ delivered' = delivered + 1 /\ NextEvent.final
      /\ UNCHANGED <<phase, posted, submitted, current, panel>>
      /\ IF current # Nowhere /\ panel.stream # <<>>
           THEN stored' = History!Extended(stored, current, AssistantTalk(panel.stream))
           ELSE stored' = stored
  BY FinalHandled DEF HandleFinal, network
<1>2. /\ posted \in Seq(Contract!Client!Events) /\ Len(posted) \in Nat /\ delivered \in Nat
      /\ delivered + 1 \in 1..Len(posted) /\ delivered + 1 > delivered
  BY <1>1, PostedType DEF Telling, Told
<1>3. PICK t \in Task : Running(t)
  BY <1>1, <1>2 DEF Orderly, Rest, AtRest, Queued
<1>4. posted[delivered + 1].task = t /\ posted[delivered + 1].final
  BY <1>1, <1>2, <1>3 DEF Running, NextEvent
<1>5. Len(posted) = delivered + 1
  <2> SUFFICES ASSUME Len(posted) # delivered + 1 PROVE FALSE
    OBVIOUS
  <2>1. Len(posted) \in 1..Len(posted) /\ delivered + 1 < Len(posted) /\ Len(posted) > delivered
    BY <1>2
  <2>2. posted[Len(posted)].task = t
    BY <1>3, <2>1 DEF Running
  <2>3. Contract!Closed(posted)
    BY DEF Telling, NetworkHolds, Contract!Inductive
  <2> QED BY <1>2, <1>4, <2>1, <2>2, <2>3 DEF Contract!Closed
<1>6. AtRest'
  <2>1. Contract!Ended(posted, t)
    BY <1>2, <1>4 DEF Contract!Ended
  <2>2. phase[t] = "settled"
    BY <2>1 DEF Telling, NetworkHolds, Contract!Inductive
  <2>3. submitted = <<>> /\ \A u \in Task \ {t} : Quiet(u)
    BY <1>3 DEF Running
  <2> QED BY <1>1, <1>5, <2>2, <2>3 DEF AtRest, Quiet
<1>7. current # Nowhere /\ current \in DOMAIN stored /\ panel.messages = stored[current]
  BY <1>3, Opened DEF Running
<1>8. panel.stream # <<>> =>
        /\ DOMAIN stored' = DOMAIN stored
        /\ stored'[current] = Append(stored[current], AssistantTalk(panel.stream))
  BY <1>1, <1>7 DEF History!Extended
<1>9. Flushed(panel).messages = stored'[current]
  <2>1. CASE panel.stream = <<>>
    BY <1>1, <1>7, <2>1, FlushedEmpty
  <2>2. CASE panel.stream # <<>>
    BY <1>7, <1>8, <2>2 DEF Flushed, Telling, WindowTyped, Panel
  <2> QED BY <2>1, <2>2
<1>10. Rest'
  BY <1>1, <1>6, <1>7, <1>9 DEF Rest, Saved
<1>11. Answer(t) = panel.stream
  <2>1. PICK n \in Nat : n = delivered
    BY <1>2
  <2>2. n < Len(posted) /\ n <= Len(posted) /\ n + 1 = Len(posted) /\ 0 \in Nat /\ 0 <= n
    BY <1>1, <1>5, <2>1
  <2>3. /\ posted[n + 1] \in Contract!Client!Events /\ posted[n + 1].text = <<>>
        /\ SubSeq(posted, 0 + 1, n) \in Seq(Contract!Client!Events)
    <3>1. n + 1 \in 1..Len(posted) /\ posted[n + 1].final
      BY <1>2, <1>4, <2>1
    <3>2. posted[n + 1].text = <<>>
      BY <3>1 DEF Telling, NetworkHolds, Contract!Silent
    <3> QED BY <1>2, <2>2, <3>1, <3>2, ElementOfSeq, PartElements
  <2>4. SubSeq(posted, 0 + 1, n + 1) = Append(SubSeq(posted, 0 + 1, n), posted[n + 1])
    BY <1>2, <2>2, PartOfNext
  <2>5. /\ AnswerIn(SubSeq(posted, 0 + 1, n + 1), t) = AnswerIn(SubSeq(posted, 0 + 1, n), t) \o <<>>
        /\ AnswerIn(SubSeq(posted, 0 + 1, n), t) \in Contract!Client!Text
    <3>1. PICK e \in Contract!Client!Events, first \in Seq(Contract!Client!Events) :
            e = posted[n + 1] /\ first = SubSeq(posted, 0 + 1, n)
      BY <2>3
    <3>2. /\ AnswerIn(Append(first, e), t)
                = AnswerIn(first, t) \o (IF e.task = t THEN e.text ELSE <<>>)
          /\ AnswerIn(first, t) \in Contract!Client!Text
      BY TextsOfMore
    <3>3. (IF e.task = t THEN e.text ELSE <<>>) = <<>>
      BY <2>3, <3>1
    <3>4. SubSeq(posted, 0 + 1, n + 1) = Append(first, e)
      BY <2>4, <3>1
    <3>5. AnswerIn(SubSeq(posted, 0 + 1, n + 1), t) = AnswerIn(first, t) \o <<>>
      BY <3>2, <3>3, <3>4
    <3> QED BY <3>1, <3>2, <3>5
  <2>6. AnswerIn(SubSeq(posted, 0 + 1, n + 1), t) = AnswerIn(SubSeq(posted, 0 + 1, n), t)
    BY <2>5, ConcatEmptySeq DEF Contract!Client!Text
  <2>7. 0 + 1 = 1
    OBVIOUS
  <2>8. AnswerIn(SubSeq(posted, 1, Len(posted)), t) = AnswerIn(SubSeq(posted, 1, delivered), t)
    BY <2>1, <2>2, <2>6, <2>7
  <2>9. SubSeq(posted, 1, Len(posted)) = posted
    BY <1>2, SubSeqFull
  <2> QED BY <1>3, <2>8, <2>9 DEF Running, Answer
<1> QED BY <1>3, <1>4, <1>7, <1>8, <1>10, <1>11

\* Only the task that runs works, and what it posts waits to be delivered.
LEMMA WorkOrders ==
  ASSUME Telling, Orderly, Work
  PROVE  \E t \in Task :
           /\ Running(t) /\ Running(t)'
           /\ \A u \in Task \ {t} : phase'[u] = phase[u]
           /\ Contract!Grown(posted, posted') /\ Contract!AddedBy(t, posted, posted')
<1>1. UNCHANGED <<stored, minted, menu, submitted, delivered, current, asked, panel>>
  BY DEF Work, history, dialog
<1>2. PICK t \in Task : Contract!Client!Work(t)
  BY SameWork DEF Work
<1>3. /\ ~Quiet(t) /\ phase'[t] # "idle"
      /\ \A u \in Task \ {t} : phase'[u] = phase[u]
  BY <1>2, WorkPhases DEF Telling, NetworkHolds
<1>4. Running(t)
  BY <1>3 DEF Orderly, Rest, AtRest, Queued, Running, Quiet
<1>5. Contract!Grown(posted, posted') /\ Contract!AddedBy(t, posted, posted')
  BY <1>2, ContractApplies, Contract!WorkGrows DEF Telling, NetworkHolds
<1>6. /\ posted \in Seq(Contract!Client!Events) /\ posted' \in Seq(Contract!Client!Events)
      /\ Len(posted) \in Nat /\ Len(posted') \in Nat /\ Len(posted) <= Len(posted')
      /\ \A i \in 1..Len(posted) : posted'[i] = posted[i]
      /\ delivered \in Nat /\ delivered <= Len(posted)
  BY <1>5, PostedType DEF Contract!Grown, Telling, Told
<1>7. \A i \in 1..Len(posted') : i > delivered => posted'[i].task = t
  <2> SUFFICES ASSUME NEW i \in 1..Len(posted'), i > delivered PROVE posted'[i].task = t
    OBVIOUS
  <2>1. CASE i \in 1..Len(posted)
    BY <1>4, <1>6, <2>1 DEF Running
  <2>2. CASE i \notin 1..Len(posted)
    <3>1. i > Len(posted)
      BY <1>6, <2>2
    <3> QED BY <1>5, <3>1 DEF Contract!AddedBy
  <2> QED BY <2>1, <2>2
<1>8. \A i \in 1..Len(posted') : i <= delivered /\ posted'[i].task = t => ~posted'[i].final
  <2> SUFFICES ASSUME NEW i \in 1..Len(posted'), i <= delivered, posted'[i].task = t
               PROVE  ~posted'[i].final
    OBVIOUS
  <2>1. i \in 1..Len(posted)
    BY <1>6
  <2> QED BY <1>4, <1>6, <2>1 DEF Running
<1>9. AnswerIn(SubSeq(posted', 1, delivered), t) = AnswerIn(SubSeq(posted, 1, delivered), t)
  <2>1. PICK n \in Nat : n = delivered
    BY <1>6
  <2>2. /\ 0 \in Nat /\ 0 <= n /\ n <= Len(posted) /\ n <= Len(posted')
        /\ \A i \in 1..n : posted'[i] = posted[i]
    BY <1>6, <2>1
  <2>3. SubSeq(posted', 0 + 1, n) = SubSeq(posted, 0 + 1, n)
    BY <1>6, <2>2, SamePart
  <2>4. 0 + 1 = 1
    OBVIOUS
  <2> QED BY <2>1, <2>3, <2>4
<1>10. Running(t)'
  BY <1>1, <1>3, <1>4, <1>7, <1>8, <1>9 DEF Running, Quiet
<1> QED BY <1>3, <1>4, <1>5, <1>10

\* Each step leads from a stage to a stage.
LEMMA OrderlyKeeps ==
  ASSUME Considerate, PlainDrafts, Telling, Inductive, faults = 0, faults' = 0, Accounted,
         Orderly, [Next]_vars
  PROVE  Orderly'
<1>1. ASSUME NEW d \in Draft, Send(d) PROVE Orderly'
  BY <1>1, SendOrders DEF Orderly
<1>2. CASE \/ NewChat \/ DeleteChat \/ OpenMenu \/ Dismiss \/ TogglePin \/ Rename
           \/ \E row \in DOMAIN listed : SelectSession(row)
  BY <1>2, RestOrders DEF Orderly
<1>3. ASSUME NEW t \in Task, HandlePrompt(t) PROVE Orderly'
  BY <1>3, PromptOrders DEF Orderly
<1>4. CASE HandleToken
  BY <1>4, TokenOrders DEF Orderly
<1>5. CASE HandleFinal
  BY <1>5, FinalOrders DEF Orderly
<1>6. CASE Work
  BY <1>6, WorkOrders DEF Orderly
<1>7. CASE Restart
  BY <1>7, RestartOrders DEF Orderly
<1>8. CASE DropPrompt
  BY <1>8 DEF DropPrompt, Orderly, Rest, AtRest, Queued, Running
<1>9. CASE CancelGeneration \/ UNCHANGED vars
  <2>1. UNCHANGED <<phase, posted, stored, current, panel, menu, submitted, delivered, asked>>
    BY <1>9 DEF CancelGeneration, vars, network, history, dialog
  <2> QED BY <2>1 DEF Orderly, Rest, AtRest, Saved, Queued, Running, Quiet
<1> QED BY <1>1, <1>2, <1>3, <1>4, <1>5, <1>6, <1>7, <1>8, <1>9 DEF Next

-----------------------------------------------------------------------------
(* Contexts and answers. *)

\* What a task was given stays the beginning of its session.
LEMMA ContextKeeps ==
  ASSUME Telling, Inductive, faults = 0, faults' = 0, Accounted, Orderly, ContextIsTranscript,
         [Next]_vars
  PROVE  ContextIsTranscript'
<1> SUFFICES ASSUME NEW u \in Task, phase'[u] # "idle", asked'[u].session \in DOMAIN stored'
             PROVE  IsPrefix(PrepareHttpRequest(asked'[u]), stored'[asked'[u].session])
  BY DEF ContextIsTranscript, PrepareHttpRequest
<1>1. CASE HandlePrompt(u)
  <2>1. /\ PrepareHttpRequest(asked'[u]) = stored'[asked'[u].session]
        /\ stored'[asked'[u].session] \in Seq(Talk)
    BY <1>1, PromptOrders
  <2> QED BY <2>1, PrefixSelf
<1>2. CASE ~HandlePrompt(u)
  <2>1. ~Restart
    BY DEF Restart
  <2>2. asked'[u] = asked[u] /\ phase[u] # "idle"
    BY <1>2, <2>1, AskedStays
  <2>3. PICK s \in minted : s = asked[u].session
    BY <2>2 DEF Accounted
  <2>4. /\ s \in DOMAIN stored
        /\ stored'[s] = stored[s] \/ \E m \in Talk : stored'[s] = Append(stored[s], m)
    BY <2>2, <2>3, LogsGrow
  <2>5. IsPrefix(PrepareHttpRequest(asked[u]), stored[s])
    BY <2>2, <2>3, <2>4 DEF ContextIsTranscript
  <2>6. stored[s] \in Seq(Talk) /\ PrepareHttpRequest(asked[u]) \in Seq(Talk)
    <3>1. stored[s] \in Seq(Talk) /\ asked[u] \in Request
      BY <2>4 DEF Telling, HistoryTyped, WindowTyped
    <3>2. asked[u].context \in Seq(Talk) /\ asked[u].text \in Text
      BY <3>1 DEF Request
    <3> QED BY <3>1, <3>2, TalkType, AppendProperties DEF PrepareHttpRequest
  <2> QED BY <2>2, <2>3, <2>4, <2>5, <2>6, PrefixOfMore
<1> QED BY <1>1, <1>2

\* m is followed by n.
Paired(log, m, n) == \E i \in DOMAIN log \ {1} : log[i - 1] = m /\ log[i] = n

\* A pair stays one when a message is appended, and the last two are one.
LEMMA PairedInMore ==
  ASSUME NEW S, NEW log \in Seq(S), NEW e \in S, NEW m, NEW n
  PROVE  /\ Paired(log, m, n) => Paired(Append(log, e), m, n)
         /\ log # <<>> => Paired(Append(log, e), Last(log), e)
<1> DEFINE a == Append(log, e)
           k == Len(log)
<1>1. /\ a \in Seq(S) /\ Len(a) = k + 1 /\ k \in Nat /\ DOMAIN log = 1..k /\ DOMAIN a = 1..(k + 1)
      /\ \A i \in 1..k : a[i] = log[i]
      /\ a[k + 1] = e
  BY AppendProperties, LenProperties
<1> HIDE DEF a
<1>2. ASSUME Paired(log, m, n) PROVE Paired(a, m, n)
  <2>1. PICK i \in DOMAIN log \ {1} : log[i - 1] = m /\ log[i] = n
    BY <1>2 DEF Paired
  <2>2. i \in 1..k /\ i - 1 \in 1..k /\ i \in DOMAIN a \ {1}
    BY <1>1, <2>1
  <2> QED BY <1>1, <2>1, <2>2 DEF Paired
<1>3. ASSUME log # <<>> PROVE Paired(a, Last(log), e)
  <2>1. k # 0
    BY <1>3, EmptySeq
  <2>2. k + 1 \in DOMAIN a \ {1} /\ (k + 1) - 1 = k /\ k \in 1..k
    BY <1>1, <2>1
  <2> QED BY <1>1, <2>2 DEF Paired, Last
<1> QED BY <1>2, <1>3 DEF a

Rendered(t) ==
  asked[t].session \in DOMAIN stored /\ Answer(t) # <<>> =>
     Paired(stored[asked[t].session], UserTalk(asked[t].text), AssistantTalk(Answer(t)))

\* The property, in the terms of these lemmas.
LEMMA AnswersArePaired ==
  AnswerInItsSession <=> (faults = 0 => \A t \in Task : Done(t) => Rendered(t))
BY DEF AnswerInItsSession, Done, Rendered, Paired

\* A task that runs has not had its last event handled.
LEMMA RunningIsNotDone == \A t \in Task : Telling /\ Running(t) => ~Done(t)
BY RunningIsBusy

\* What was stored of a session stays there.
LEMMA PairStays ==
  ASSUME Telling, Inductive, faults = 0, faults' = 0, Accounted, [Next]_vars,
         NEW u \in Task, phase[u] # "idle", Rendered(u), asked'[u] = asked[u], Answer(u)' = Answer(u)
  PROVE  Rendered(u)'
<1> SUFFICES ASSUME asked[u].session \in DOMAIN stored', Answer(u) # <<>>
             PROVE  Paired(stored'[asked[u].session], UserTalk(asked[u].text),
                           AssistantTalk(Answer(u)))
  BY DEF Rendered
<1>1. PICK s \in minted : s = asked[u].session
  BY DEF Accounted
<1>2. /\ s \in DOMAIN stored
      /\ stored'[s] = stored[s] \/ \E m \in Talk : stored'[s] = Append(stored[s], m)
  BY <1>1, LogsGrow
<1>3. Paired(stored[s], UserTalk(asked[u].text), AssistantTalk(Answer(u)))
  BY <1>1, <1>2 DEF Rendered
<1>4. stored[s] \in Seq(Talk)
  BY <1>2 DEF Telling, HistoryTyped
<1> QED BY <1>1, <1>2, <1>3, <1>4, PairedInMore

\* Each step keeps the answers where they belong: only the end of an answer adds one.
LEMMA AnswersKeep ==
  ASSUME Telling, Inductive, faults = 0, faults' = 0, Accounted, Orderly, AnswerInItsSession,
         [Next]_vars, Telling'
  PROVE  AnswerInItsSession'
<1>1. (AnswerInItsSession <=> (faults = 0 => \A t \in Task : Done(t) => Rendered(t)))'
  BY AnswersArePaired, PTL
<1>2. (\A t \in Task : Telling /\ Running(t) => ~Done(t))'
  BY RunningIsNotDone, PTL
<1>3. \A t \in Task : Done(t) => Rendered(t)
  BY AnswersArePaired
<1>4. SUFFICES ASSUME NEW u \in Task, Done(u)' PROVE Rendered(u)'
  BY <1>1
<1>5. ~Running(u)' /\ phase'[u] = "settled" /\ ~Restart
  BY <1>2, <1>4 DEF Done, Restart
<1>6. /\ posted \in Seq(Contract!Client!Events) /\ Len(posted) \in Nat
      /\ DOMAIN posted = 1..Len(posted) /\ delivered \in Nat
  BY PostedType, LenProperties DEF Telling, Told
<1>7. ~HandlePrompt(u)
  BY <1>5, PromptOrders
<1>8. asked'[u] = asked[u] /\ phase[u] # "idle"
  BY <1>5, <1>7, AskedStays
<1>9. CASE Work
  <2>1. PICK t \in Task :
           /\ Running(t)'
           /\ \A v \in Task \ {t} : phase'[v] = phase[v]
           /\ Contract!Grown(posted, posted') /\ Contract!AddedBy(t, posted, posted')
    BY <1>9, WorkOrders
  <2>2. u # t /\ phase[u] = "settled" /\ delivered' = delivered
    BY <1>5, <1>9, <2>1 DEF Work
  <2>3. \A i \in DOMAIN posted : i \in DOMAIN posted' /\ posted'[i] = posted[i]
    <3>1. DOMAIN posted' = 1..Len(posted')
      BY <2>1, LenProperties DEF Contract!Grown
    <3> QED BY <1>6, <2>1, <3>1 DEF Contract!Grown
  <2>4. Done(u)
    BY <1>4, <2>2, <2>3 DEF Done
  <2>5. Answer(u)' = Answer(u)
    BY <1>6, <2>1, <2>2, AnswerKept DEF Answer
  <2> QED BY <1>3, <1>8, <2>4, <2>5, PairStays
<1>10. CASE HandleToken
  <2>1. PICK t \in Task : Running(t) /\ Running(t)'
    BY <1>10, TokenOrders
  <2>2. /\ u # t /\ UNCHANGED <<phase, posted>>
        /\ delivered' = delivered + 1 /\ delivered < Len(posted)
    BY <1>5, <1>10, <2>1 DEF HandleToken, network
  <2>3. posted[delivered + 1].task = t
    BY <1>6, <2>1, <2>2 DEF Running
  <2>4. Done(u)
    BY <1>4, <1>6, <2>2, <2>3 DEF Done
  <2> QED BY <1>3, <1>8, <2>2, <2>4, PairStays DEF Answer
<1>11. CASE HandleFinal
  <2>1. UNCHANGED <<phase, posted, asked>> /\ delivered' = delivered + 1
    BY <1>11 DEF HandleFinal, network
  <2>2. PICK t \in Task :
          /\ Running(t) /\ Answer(t) = panel.stream /\ posted[delivered + 1].task = t
          /\ panel.stream # <<>> =>
               /\ current \in DOMAIN stored /\ DOMAIN stored' = DOMAIN stored
               /\ stored'[current] = Append(stored[current], AssistantTalk(panel.stream))
    BY <1>11, FinalOrders
  <2>3. CASE u # t
    <3>1. Done(u)
      BY <1>4, <1>6, <2>1, <2>2, <2>3 DEF Done
    <3> QED BY <1>3, <1>8, <2>1, <3>1, PairStays DEF Answer
  <2>4. CASE u = t
    <3> SUFFICES ASSUME Answer(u) # <<>>
                 PROVE  Paired(stored'[asked[u].session], UserTalk(asked[u].text),
                               AssistantTalk(Answer(u)))
      BY <2>1 DEF Rendered, Answer
    <3>1. /\ asked[u].session = current /\ stored[current] # <<>>
          /\ Last(stored[current]) = UserTalk(asked[u].text)
      BY <2>2, <2>4 DEF Running
    <3>2. /\ current \in DOMAIN stored
          /\ stored'[current] = Append(stored[current], AssistantTalk(Answer(u)))
      BY <2>2, <2>4
    <3>3. stored[current] \in Seq(Talk) /\ AssistantTalk(Answer(u)) \in Talk
      BY <2>2, <2>4, <3>2, TalkType DEF Telling, HistoryTyped, WindowTyped, Panel
    <3>4. Paired(Append(stored[current], AssistantTalk(Answer(u))), Last(stored[current]),
                 AssistantTalk(Answer(u)))
      BY <3>1, <3>3, PairedInMore
    <3> QED BY <3>1, <3>2, <3>4
  <2> QED BY <2>3, <2>4
<1>12. CASE ~Work /\ ~HandleToken /\ ~HandleFinal
  <2>1. UNCHANGED <<posted, delivered>> /\ phase'[u] = phase[u]
    <3>1. ASSUME NEW t \in Task, HandlePrompt(t)
          PROVE  UNCHANGED <<posted, delivered>> /\ phase'[u] = phase[u]
      <4>1. phase' = [phase EXCEPT ![t] = "waiting"] /\ UNCHANGED <<posted, delivered>>
        BY <3>1 DEF HandlePrompt, Network!Submit
      <4>2. t # u
        BY <1>7, <3>1
      <4>3. phase \in [Task -> Contract!Client!Phases]
        BY <1>2 DEF Telling, NetworkHolds, Contract!Inductive
      <4> QED BY <4>1, <4>2, <4>3
    <3>2. CASE ~\E t \in Task : HandlePrompt(t)
      BY <1>5, <1>12, <3>2 DEF Next, vars, network, NewChat, CancelGeneration, OpenMenu, Dismiss,
                TogglePin, Rename, DeleteChat, DropPrompt, Send, SelectSession
    <3> QED BY <3>1, <3>2
  <2>2. Done(u)
    BY <1>4, <2>1 DEF Done
  <2> QED BY <1>3, <1>8, <2>1, <2>2, PairStays DEF Answer
<1> QED BY <1>9, <1>10, <1>11, <1>12

-----------------------------------------------------------------------------
(* Theorems about a considerate user who attaches nothing. *)

\* What holds throughout such a conversation, until a statement fails.
Conversing ==
  faults = 0 => Accounted /\ Orderly /\ ContextIsTranscript /\ AnswerInItsSession

\* At the start everything is at rest.
LEMMA InitConverses ==
  ASSUME Init
  PROVE  Conversing
<1>1. /\ phase = [t \in Task |-> "idle"] /\ Len(posted) = 0
      /\ submitted = <<>> /\ delivered = 0 /\ current = Nowhere /\ panel = BlankPanel
  BY DEF Init, Network!Init
<1>2. Accounted /\ ContextIsTranscript /\ AnswerInItsSession
  BY <1>1 DEF Accounted, ContextIsTranscript, AnswerInItsSession
<1>3. Rest
  BY <1>1 DEF Rest, AtRest, Flushed, BlankPanel, Saved
<1> QED BY <1>2, <1>3 DEF Conversing, Orderly

\* A user who waits for each answer moves the window from rest to a queued prompt, to a
\* running task and back to rest; contexts and answers stay where they belong, all until a
\* statement fails.
THEOREM ConversingInvariant ==
  ASSUME Considerate, PlainDrafts
  PROVE  Spec => [](Inductive /\ Telling /\ Conversing)
<1>1. Init => Conversing
  BY InitConverses
<1>2. Inductive /\ Telling /\ Telling' /\ Conversing /\ [Next]_vars => Conversing'
  <2> SUFFICES ASSUME Inductive, Telling, Telling', Conversing, [Next]_vars, faults' = 0
               PROVE  (Accounted /\ Orderly /\ ContextIsTranscript /\ AnswerInItsSession)'
    BY DEF Conversing
  <2>1. faults = 0
    BY CountedKeeps DEF Telling
  <2>2. Accounted /\ Orderly /\ ContextIsTranscript /\ AnswerInItsSession
    BY <2>1 DEF Conversing
  <2>3. Accounted' /\ Orderly'
    BY <2>1, <2>2, AccountedKeeps, OrderlyKeeps
  <2>4. ContextIsTranscript' /\ AnswerInItsSession'
    BY <2>1, <2>2, ContextKeeps, AnswersKeep
  <2> QED BY <2>3, <2>4
<1> QED BY <1>1, <1>2, TellingInvariant, PTL DEF Spec

\* At rest, if no statement has failed, what is stored of the open session is what the panel
\* shows of it, also after a session was selected or deleted, a chat begun, an answer refused
\* or the process restarted.
THEOREM SavedAsShown ==
  ASSUME Considerate, PlainDrafts
  PROVE  Spec => []SavedIsShown
<1>1. Telling /\ Conversing => SavedIsShown
  BY RestStage DEF Conversing, SavedIsShown, Saved
<1> QED BY <1>1, ConversingInvariant, PTL

\* main.cpp gives a task the messages of the panel but the last one: if no statement has
\* failed, these are what is stored of the session it was asked in, up to its prompt.
THEOREM ContextsAreTranscripts ==
  ASSUME Considerate, PlainDrafts
  PROVE  Spec => []ContextIsTranscript
<1>1. Conversing => ContextIsTranscript
  BY DEF Conversing, ContextIsTranscript
<1> QED BY <1>1, ConversingInvariant, PTL

\* Once the final event of a task is handled, and if no statement has failed, its answer is
\* stored right after its prompt, in the session it was asked in.
THEOREM AnswersStayInTheirSessions ==
  ASSUME Considerate, PlainDrafts
  PROVE  Spec => []AnswerInItsSession
<1>1. Conversing => AnswerInItsSession
  BY DEF Conversing, AnswerInItsSession
<1> QED BY <1>1, ConversingInvariant, PTL
=============================================================================
