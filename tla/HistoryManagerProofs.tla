-------------------------- MODULE HistoryManagerProofs --------------------------
(* Proofs about HistoryManager. *)
EXTENDS HistoryManager, FiniteSetTheorems, SequenceTheorems, TLAPS

\* The part of the type invariant that does not need to know in which order rows are loaded.
TablesOK ==
  /\ running \in BOOLEAN
  /\ usable \in BOOLEAN
  /\ minted \subseteq Session
  /\ held \subseteq minted
  /\ DOMAIN sessions \subseteq minted
  /\ sessions \in [DOMAIN sessions -> Metadata]
  /\ messages \in Seq(Row)
  /\ calling \in Session \cup {Nobody}
  /\ clock \in 0..MaxClock
  /\ faults \in 0..MaxFaults

\* Rows name sessions whose identifier was generated, and no row is from the future.
RowsGenuine ==
  /\ \A i \in DOMAIN messages : messages[i].session \in minted /\ messages[i].time <= clock
  /\ calling # Nobody => calling \in minted

\* The database can only be unusable after a fault.
UsableUnlessFault == running /\ faults = 0 => usable

\* Without a fault, only the session whose AppendMessage is between its two
\* statements may have a message newer than its last use.
Abreast ==
  faults = 0 =>
    \A i \in DOMAIN messages :
       messages[i].session \in DOMAIN sessions /\ messages[i].session # calling =>
          messages[i].time <= sessions[messages[i].session].updated

IInv == TablesOK /\ RowsGenuine /\ UsableUnlessFault /\ Abreast

\* Every action adds at most one to the number of faults.
LEMMA FaultsGrow ==
  ASSUME TablesOK, [Next]_vars
  PROVE  faults' \in 0..MaxFaults /\ faults <= faults'
<1>1. UNCHANGED faults \/ Fault
  <2>1. ASSUME NEW ok \in BOOLEAN, Statement(ok)
        PROVE  UNCHANGED faults \/ Fault
    BY <2>1 DEF Statement
  <2>2. CASE Open
    BY <2>2 DEF Open
  <2>3. ASSUME NEW s \in Session, CreateSession(s) \/ DeleteSession(s) \/ UpdateSession(s)
                                 \/ ToggleSessionPin(s)
        PROVE  UNCHANGED faults \/ Fault
    BY <2>1, <2>3 DEF CreateSession, DeleteSession, UpdateSession, ToggleSessionPin
  <2>4. ASSUME NEW s \in Session, NEW m \in Message, AppendMessage(s, m) \/ ToggleMessageStar(s, m)
        PROVE  UNCHANGED faults \/ Fault
    BY <2>1, <2>4 DEF AppendMessage, ToggleMessageStar
  <2>5. CASE TouchSession
    BY <2>1, <2>5 DEF TouchSession
  <2>6. CASE Close \/ Crash \/ Tick \/ UNCHANGED vars
    BY <2>6 DEF Close, Crash, Tick, vars
  <2>7. ASSUME NEW s \in Session, LoadSession(s)
        PROVE  UNCHANGED faults \/ Fault
    BY <2>7 DEF LoadSession
  <2> QED  BY <2>2, <2>3, <2>4, <2>5, <2>6, <2>7 DEF Next
<1> QED  BY <1>1, MaxFaultsAssumption DEF TablesOK, Fault

\* What can be said of any row of table messages.
LEMMA RowTypes ==
  ASSUME TablesOK
  PROVE  /\ \A i \in DOMAIN messages : messages[i] \in Row /\ messages[i].time \in Nat
         /\ clock \in Nat
<1>1. \A i \in DOMAIN messages : messages[i] \in Row
  BY DEF TablesOK
<1>2. \A row \in Row : row.time \in Nat
  BY MaxClockAssumption DEF Row
<1> QED  BY <1>1, <1>2, MaxClockAssumption DEF TablesOK

\* What UPDATE ... WHERE session_id = s does to the table.
LEMMA UpdateRowType ==
  ASSUME TablesOK, NEW s, NEW row, s \in DOMAIN sessions => row \in Metadata, UpdateRow(s, row)
  PROVE  /\ DOMAIN sessions' = DOMAIN sessions
         /\ sessions' \in [DOMAIN sessions' -> Metadata]
         /\ \A u \in DOMAIN sessions : u # s => sessions'[u] = sessions[u]
         /\ s \in DOMAIN sessions => sessions'[s] = row
<1>1. CASE s \in DOMAIN sessions
  <2>1. sessions' = [sessions EXCEPT ![s] = row]  BY <1>1 DEF UpdateRow
  <2>2. row \in Metadata  BY <1>1
  <2> QED  BY <1>1, <2>1, <2>2 DEF TablesOK
<1>2. CASE s \notin DOMAIN sessions
  <2>1. sessions' = sessions  BY <1>2 DEF UpdateRow
  <2> QED  BY <1>2, <2>1 DEF TablesOK
<1> QED  BY <1>1, <1>2

LEMMA TouchedType ==
  ASSUME TablesOK, NEW s \in DOMAIN sessions
  PROVE  /\ Touched(s) \in Metadata /\ Touched(s).updated = clock
         /\ [sessions[s] EXCEPT !.pinned = ~@] \in Metadata
         /\ [sessions[s] EXCEPT !.pinned = ~@].updated = sessions[s].updated
BY DEF TablesOK, Touched, Metadata

\* The type invariant is preserved by every step.
LEMMA TypeStep ==
  ASSUME TablesOK, calling # Nobody => calling \in minted, [Next]_vars
  PROVE  TablesOK'
<1>f. faults' \in 0..MaxFaults  BY FaultsGrow
<1>1. CASE Open
  BY <1>1, <1>f DEF TablesOK, Open, database
<1>2. ASSUME NEW s \in Session, CreateSession(s)
      PROVE  TablesOK'
  <2>1. DOMAIN sessions' \subseteq minted' /\ sessions' \in [DOMAIN sessions' -> Metadata]
    BY <1>2, MaxClockAssumption DEF TablesOK, CreateSession, Metadata
  <2> QED  BY <1>2, <1>f, <2>1 DEF TablesOK, CreateSession, handle
<1>3. ASSUME NEW s \in Session, DeleteSession(s)
      PROVE  TablesOK'
  <2>1. DOMAIN sessions' \subseteq minted' /\ sessions' \in [DOMAIN sessions' -> Metadata]
    BY <1>3 DEF TablesOK, DeleteSession
  <2>2. held' \subseteq minted'
    BY <1>3 DEF TablesOK, DeleteSession
  <2> QED  BY <1>3, <1>f, <2>1, <2>2 DEF TablesOK, DeleteSession, handle
<1>4. ASSUME NEW s \in Session, UpdateSession(s)
      PROVE  TablesOK'
  <2>1. DOMAIN sessions' \subseteq minted /\ sessions' \in [DOMAIN sessions' -> Metadata]
    BY <1>4, UpdateRowType, TouchedType DEF TablesOK, UpdateSession
  <2> QED  BY <1>4, <1>f, <2>1 DEF TablesOK, UpdateSession, handle, callers
<1>5. ASSUME NEW s \in Session, ToggleSessionPin(s)
      PROVE  TablesOK'
  <2>1. DOMAIN sessions' \subseteq minted /\ sessions' \in [DOMAIN sessions' -> Metadata]
    BY <1>5, UpdateRowType, TouchedType DEF TablesOK, ToggleSessionPin
  <2> QED  BY <1>5, <1>f, <2>1 DEF TablesOK, ToggleSessionPin, handle, callers
<1>6. ASSUME NEW s \in Session, NEW m \in Message, AppendMessage(s, m)
      PROVE  TablesOK'
  <2>1. [id |-> m, session |-> s, time |-> clock, starred |-> FALSE] \in Row
    BY DEF TablesOK, Row
  <2>2. messages' \in Seq(Row)
    BY <1>6, <2>1 DEF TablesOK, AppendMessage
  <2> QED  BY <1>6, <1>f, <2>2 DEF TablesOK, AppendMessage, handle, callers
<1>7. CASE TouchSession
  <2>1. DOMAIN sessions' \subseteq minted /\ sessions' \in [DOMAIN sessions' -> Metadata]
    BY <1>7, UpdateRowType, TouchedType DEF TablesOK, TouchSession
  <2> QED  BY <1>7, <1>f, <2>1 DEF TablesOK, TouchSession, handle, callers
<1>8. ASSUME NEW s \in Session, NEW m \in Message, ToggleMessageStar(s, m)
      PROVE  TablesOK'
  <2>1. \A i \in DOMAIN messages : [messages[i] EXCEPT !.starred = ~@] \in Row
    BY RowTypes DEF Row
  <2>2. PICK n \in Nat : DOMAIN messages = 1..n
    BY DEF TablesOK
  <2>3. CASE messages' = messages
    BY <1>8, <1>f, <2>3 DEF TablesOK, ToggleMessageStar, handle, callers
  <2>4. CASE messages' = [i \in DOMAIN messages |->
                            IF messages[i].session = s /\ messages[i].id = m
                              THEN [messages[i] EXCEPT !.starred = ~@] ELSE messages[i]]
    <3>1. messages' \in [1..n -> Row]
      BY <2>1, <2>2, <2>4, RowTypes
    <3>2. messages' \in Seq(Row)
      BY <3>1
    <3> QED  BY <1>8, <1>f, <3>2 DEF TablesOK, ToggleMessageStar, handle, callers
  <2> QED  BY <1>8, <2>3, <2>4 DEF ToggleMessageStar
<1>9. CASE Close \/ Crash
  BY <1>9, <1>f DEF TablesOK, Close, Crash, callers, database
<1>10. CASE Tick
  <2>1. clock' \in 0..MaxClock
    BY <1>10, MaxClockAssumption DEF TablesOK, Tick
  <2> QED  BY <1>10, <1>f, <2>1 DEF TablesOK, Tick, handle, callers, database
<1>11. CASE UNCHANGED vars
  BY <1>11, <1>f DEF TablesOK, vars, handle, callers, database
<1>12. ASSUME NEW s \in Session, LoadSession(s)
       PROVE  TablesOK'
  BY <1>12, <1>f DEF TablesOK, LoadSession, handle, database
<1> QED
  BY <1>1, <1>2, <1>3, <1>4, <1>5, <1>6, <1>7, <1>8, <1>9, <1>10, <1>11, <1>12 DEF Next

\* Rows stay genuine.
LEMMA GenuineStep ==
  ASSUME IInv, [Next]_vars
  PROVE  RowsGenuine'
<1> USE DEF IInv
<1>1. ASSUME UNCHANGED messages
      PROVE  RowsGenuine'
  <2>1. clock \in Nat /\ clock' \in Nat /\ \A i \in DOMAIN messages : messages[i].time \in Nat
    BY RowTypes, TypeStep, MaxClockAssumption DEF TablesOK, RowsGenuine
  <2>2. minted \subseteq minted' /\ clock <= clock' /\ (calling' # Nobody => calling' \in minted')
    <3>1. CASE Open \/ Close \/ Crash \/ TouchSession \/ UNCHANGED vars
      BY <3>1, <2>1 DEF RowsGenuine, Open, Close, Crash, TouchSession, vars, callers, handle
    <3>2. CASE Tick
      BY <3>2, <2>1 DEF RowsGenuine, Tick, callers
    <3>3. ASSUME NEW s \in Session, CreateSession(s) \/ DeleteSession(s) \/ UpdateSession(s)
                                   \/ ToggleSessionPin(s) \/ LoadSession(s)
          PROVE  /\ minted \subseteq minted' /\ clock <= clock'
                 /\ calling' # Nobody => calling' \in minted'
      BY <3>3, <2>1 DEF RowsGenuine, CreateSession, DeleteSession, UpdateSession,
         ToggleSessionPin, LoadSession, callers
    <3>4. ASSUME NEW s \in Session, NEW m \in Message, AppendMessage(s, m) \/ ToggleMessageStar(s, m)
          PROVE  /\ minted \subseteq minted' /\ clock <= clock'
                 /\ calling' # Nobody => calling' \in minted'
      BY <3>4, <2>1 DEF RowsGenuine, AppendMessage, ToggleMessageStar, callers, TablesOK
    <3> QED  BY <3>1, <3>2, <3>3, <3>4 DEF Next
  <2> QED  BY <1>1, <2>1, <2>2 DEF RowsGenuine
<1>2. ASSUME NEW s \in Session, NEW m \in Message, AppendMessage(s, m), messages' # messages
      PROVE  RowsGenuine'
  <2>1. PICK row \in {[id |-> m, session |-> s, time |-> clock, starred |-> FALSE]} :
           messages' = Append(messages, row)
    BY <1>2 DEF AppendMessage
  <2>2. row.session = s /\ row.time = clock /\ s \in minted
    BY <1>2 DEF AppendMessage, Ready, TablesOK
  <2>3. \A i \in DOMAIN messages' :
           messages'[i] = row \/ (i \in DOMAIN messages /\ messages'[i] = messages[i])
    BY <2>1 DEF TablesOK
  <2>4. clock <= clock  BY MaxClockAssumption DEF TablesOK
  <2> QED  BY <1>2, <2>2, <2>3, <2>4 DEF RowsGenuine, AppendMessage, callers
<1>3. ASSUME NEW s \in Session, NEW m \in Message, ToggleMessageStar(s, m), messages' # messages
      PROVE  RowsGenuine'
  <2>1. DOMAIN messages' = DOMAIN messages
    BY <1>3 DEF ToggleMessageStar
  <2>2. \A i \in DOMAIN messages :
           messages'[i].session = messages[i].session /\ messages'[i].time = messages[i].time
    BY <1>3 DEF ToggleMessageStar, TablesOK, Row
  <2> QED  BY <1>3, <2>1, <2>2 DEF RowsGenuine, ToggleMessageStar, callers
<1> QED
  BY <1>1, <1>2, <1>3 DEF Next, vars, database, Open, CreateSession, DeleteSession,
     UpdateSession, ToggleSessionPin, TouchSession, LoadSession, Close, Crash, Tick

\* UsableUnlessFault is preserved: an opening that fails is a fault.
LEMMA UsableStep ==
  ASSUME IInv, [Next]_vars
  PROVE  UsableUnlessFault'
<1> USE DEF IInv
<1>1. faults' = 0 => faults = 0
  BY FaultsGrow, MaxFaultsAssumption DEF TablesOK
<1>2. CASE Open
  BY <1>2, MaxFaultsAssumption DEF UsableUnlessFault, Open, Fault, TablesOK
<1>3. CASE Close \/ Crash
  BY <1>3 DEF UsableUnlessFault, Close, Crash
<1>4. CASE UNCHANGED handle
  BY <1>1, <1>4 DEF UsableUnlessFault, handle
<1>5. UNCHANGED handle \/ Open \/ Close \/ Crash
  BY DEF Next, vars, CreateSession, DeleteSession, UpdateSession, ToggleSessionPin,
     AppendMessage, TouchSession, ToggleMessageStar, LoadSession, Tick
<1> QED  BY <1>2, <1>3, <1>4, <1>5

\* Abreast is preserved.  A new session cannot have rows already, because its identifier
\* is new; a row that is inserted belongs to the call in progress; and the second
\* statement of that call brings its session up to the clock.
LEMMA AbreastStep ==
  ASSUME IInv, [Next]_vars, faults' = 0
  PROVE  Abreast'
<1> USE DEF IInv
<1>0. faults = 0
  BY FaultsGrow, MaxFaultsAssumption DEF TablesOK
<1>a. \A ok \in BOOLEAN : running /\ Statement(ok) => ok
  BY <1>0, MaxFaultsAssumption DEF Statement, Fault, UsableUnlessFault
<1>t. \A i \in DOMAIN messages : messages[i].time \in Nat /\ messages[i].time <= clock
  BY RowTypes DEF RowsGenuine
<1>1. CASE UNCHANGED <<messages, sessions, calling>>
  BY <1>0, <1>1 DEF Abreast
<1>2. ASSUME NEW s \in Session, CreateSession(s)
      PROVE  Abreast'
  <2>1. \A i \in DOMAIN messages : messages[i].session # s
    BY <1>2 DEF CreateSession, NewIdentifier, RowsGenuine
  <2>2. \A u \in DOMAIN sessions' : u # s => u \in DOMAIN sessions /\ sessions'[u] = sessions[u]
    BY <1>2 DEF CreateSession
  <2> QED  BY <1>0, <1>2, <2>1, <2>2 DEF Abreast, CreateSession
<1>3. ASSUME NEW s \in Session, DeleteSession(s)
      PROVE  Abreast'
  <2>1. \A u \in DOMAIN sessions' : u \in DOMAIN sessions /\ sessions'[u] = sessions[u]
    BY <1>3 DEF DeleteSession
  <2> QED  BY <1>0, <1>3, <2>1 DEF Abreast, DeleteSession
<1>4. ASSUME NEW s \in Session, UpdateSession(s)
      PROVE  Abreast'
  <2>1. UpdateRow(s, Touched(s))
    BY <1>4, <1>a DEF UpdateSession, Ready
  <2>2. /\ DOMAIN sessions' = DOMAIN sessions
        /\ \A u \in DOMAIN sessions : u # s => sessions'[u] = sessions[u]
        /\ s \in DOMAIN sessions => sessions'[s].updated = clock
    <3> DEFINE row == Touched(s)
    <3>1. s \in DOMAIN sessions => row \in Metadata /\ row.updated = clock
      BY TouchedType
    <3>2. UpdateRow(s, row)
      BY <2>1
    <3> HIDE DEF row
    <3> QED  BY <3>1, <3>2, UpdateRowType
  <2> QED  BY <1>0, <1>4, <1>t, <2>2 DEF Abreast, UpdateSession
<1>5. ASSUME NEW s \in Session, ToggleSessionPin(s)
      PROVE  Abreast'
  <2>1. UpdateRow(s, [sessions[s] EXCEPT !.pinned = ~@])
    BY <1>5, <1>a DEF ToggleSessionPin, Ready
  <2>2. /\ DOMAIN sessions' = DOMAIN sessions
        /\ \A u \in DOMAIN sessions : sessions'[u].updated = sessions[u].updated
    <3>1. s \in DOMAIN sessions => [sessions[s] EXCEPT !.pinned = ~@] \in Metadata
      BY TouchedType
    <3>2. /\ DOMAIN sessions' = DOMAIN sessions
          /\ \A u \in DOMAIN sessions : u # s => sessions'[u] = sessions[u]
          /\ s \in DOMAIN sessions => sessions'[s] = [sessions[s] EXCEPT !.pinned = ~@]
      BY <2>1, <3>1, UpdateRowType
    <3>3. s \in DOMAIN sessions => [sessions[s] EXCEPT !.pinned = ~@].updated = sessions[s].updated
      BY TouchedType
    <3>4. s \in DOMAIN sessions => sessions'[s].updated = sessions[s].updated
      BY <3>2, <3>3
    <3> QED  BY <3>2, <3>4
  <2> QED  BY <1>0, <1>5, <2>2 DEF Abreast, ToggleSessionPin
<1>6. ASSUME NEW s \in Session, NEW m \in Message, AppendMessage(s, m)
      PROVE  Abreast'
  <2> DEFINE row == [id |-> m, session |-> s, time |-> clock, starred |-> FALSE]
  <2>1. messages' = Append(messages, row) /\ calling' = s /\ calling = Nobody
    BY <1>6, <1>a DEF AppendMessage, Ready
  <2>2. row.session = s
    OBVIOUS
  <2> HIDE DEF row
  <2>3. \A i \in DOMAIN messages' :
           messages'[i] = row \/ (i \in DOMAIN messages /\ messages'[i] = messages[i])
    BY <2>1 DEF TablesOK
  <2>4. \A i \in DOMAIN messages : messages[i].session \in minted /\ messages[i].session # calling
    BY <2>1, NobodyAssumption DEF RowsGenuine, TablesOK
  <2> QED  BY <1>0, <1>6, <2>1, <2>2, <2>3, <2>4 DEF Abreast, AppendMessage
<1>7. CASE TouchSession
  <2>1. UpdateRow(calling, Touched(calling))
    BY <1>7, <1>a DEF TouchSession
  <2>2. /\ DOMAIN sessions' = DOMAIN sessions
        /\ \A u \in DOMAIN sessions : u # calling => sessions'[u] = sessions[u]
        /\ calling \in DOMAIN sessions => sessions'[calling].updated = clock
    <3> DEFINE row == Touched(calling)
    <3>1. calling \in DOMAIN sessions => row \in Metadata /\ row.updated = clock
      BY TouchedType
    <3>2. UpdateRow(calling, row)
      BY <2>1
    <3> HIDE DEF row
    <3> QED  BY <3>1, <3>2, UpdateRowType
  <2> QED  BY <1>0, <1>7, <1>t, <2>2 DEF Abreast, TouchSession
<1>8. ASSUME NEW s \in Session, NEW m \in Message, ToggleMessageStar(s, m)
      PROVE  Abreast'
  <2>1. DOMAIN messages' = DOMAIN messages
    BY <1>8 DEF ToggleMessageStar
  <2>2. \A i \in DOMAIN messages : /\ messages'[i].session = messages[i].session
                                   /\ messages'[i].time = messages[i].time
    BY <1>8, RowTypes DEF ToggleMessageStar, Row
  <2> QED  BY <1>0, <1>8, <2>1, <2>2 DEF Abreast, ToggleMessageStar
<1>9. CASE Crash
  BY <1>9, MaxFaultsAssumption DEF Crash, Fault, TablesOK
<1>10. CASE Open \/ Close \/ Tick \/ UNCHANGED vars
  BY <1>1, <1>10 DEF Open, Close, Tick, vars, database
<1>11. ASSUME NEW s \in Session, LoadSession(s)
       PROVE  Abreast'
  BY <1>1, <1>11 DEF LoadSession, database
<1> QED
  BY <1>11, <1>2, <1>3, <1>4, <1>5, <1>6, <1>7, <1>8, <1>9, <1>10 DEF Next

\* What makes StartupOpensLatest inductive: rows are never from the future, and lag behind
\* their session only inside a call or after a fault.
THEOREM InductiveInvariant == Spec => []IInv
<1>1. ASSUME Init
      PROVE  IInv
  <2>1. messages \in Seq(Row) /\ DOMAIN messages = {}
    BY <1>1 DEF Init
  <2>2. sessions \in [DOMAIN sessions -> Metadata] /\ DOMAIN sessions = {}
    BY <1>1 DEF Init
  <2>3. TablesOK
    <3>1. clock = 0 /\ faults = 0 /\ 0 \in 0..MaxClock /\ 0 \in 0..MaxFaults
      BY <1>1, MaxClockAssumption, MaxFaultsAssumption DEF Init
    <3>2. running \in BOOLEAN /\ usable \in BOOLEAN /\ minted = {} /\ held = {} /\ calling = Nobody
      BY <1>1 DEF Init
    <3> QED  BY <2>1, <2>2, <3>1, <3>2 DEF TablesOK
  <2>4. RowsGenuine /\ UsableUnlessFault /\ Abreast
    BY <1>1, <2>1 DEF Init, RowsGenuine, UsableUnlessFault, Abreast
  <2> QED  BY <2>3, <2>4 DEF IInv
<1>2. ASSUME IInv, [Next]_vars
      PROVE  IInv'
  <2>1. TablesOK'
    BY <1>2, TypeStep DEF IInv, RowsGenuine
  <2>2. faults' = 0 \/ Abreast'
    BY DEF Abreast
  <2> QED  BY <1>2, <2>1, <2>2, GenuineStep, UsableStep, AbreastStep DEF IInv
<1> QED  BY <1>1, <1>2, PTL DEF Spec

\* Without a fault the session opened at startup is as recent as any message: AppendMessage
\* and LoadMostRecentSessionOnStartup agree about what the last used session is.
THEOREM StartupIsLatest == Spec => []StartupOpensLatest
<1>1. ASSUME IInv
      PROVE  StartupOpensLatest
  <2> SUFFICES ASSUME calling = Nobody, faults = 0,
                      NEW s \in DOMAIN sessions, OpensFirst(s), ~sessions[s].pinned,
                      NEW i \in DOMAIN messages, messages[i].session \in DOMAIN sessions
               PROVE  messages[i].time <= sessions[s].updated
    BY DEF StartupOpensLatest
  <2> DEFINE u == messages[i].session
  <2>1. messages[i].time <= sessions[u].updated
    <3>1. u # calling
      BY <1>1, NobodyAssumption DEF IInv, TablesOK
    <3> QED  BY <1>1, <3>1 DEF IInv, Abreast
  <2>2. sessions[u].updated \in Nat /\ sessions[s].updated \in Nat /\ sessions[u].pinned \in BOOLEAN
        /\ sessions[s].pinned \in BOOLEAN
    <3>1. sessions[u] \in Metadata /\ sessions[s] \in Metadata
      BY <1>1 DEF IInv, TablesOK
    <3> QED  BY <3>1, MaxClockAssumption DEF Metadata
  <2>3. ~(sessions[u].updated > sessions[s].updated)
    BY <2>2 DEF OpensFirst, Before
  <2> QED  BY <1>1, <2>1, <2>2, <2>3, RowTypes DEF IInv
<1> QED  BY <1>1, InductiveInvariant, PTL
-----------------------------------------------------------------------------
(* The history implements Transcripts.                                     *)

\* Rows are in the order of their times: the clock is not set back.
TimesAscend ==
  \A i, j \in DOMAIN messages : i < j => messages[i].time <= messages[j].time

\* The rows of a session are numbered without gaps.
EveryPlaceTaken ==
  \A s \in Session : \A k \in 1..Cardinality(RowsOf(s)) :
     \E i \in RowsOf(s) : Place(s, i) = k - 1

\* The rows of a session are finitely many numbers.
LEMMA RowsFinite ==
  ASSUME TablesOK, NEW s
  PROVE  /\ IsFiniteSet(RowsOf(s)) /\ Cardinality(RowsOf(s)) \in Nat
         /\ RowsOf(s) \subseteq 1..Len(messages)
         /\ \A i : IsFiniteSet({j \in RowsOf(s) : Earlier(j, i)}) /\ Place(s, i) \in Nat
<1>1. RowsOf(s) \subseteq 1..Len(messages) /\ Len(messages) \in Nat
  BY DEF RowsOf, TablesOK
<1>2. IsFiniteSet(1..Len(messages))
  BY <1>1, FS_Interval
<1>3. IsFiniteSet(RowsOf(s))
  BY <1>1, <1>2, FS_Subset
<1>4. \A i : IsFiniteSet({j \in RowsOf(s) : Earlier(j, i)})
  BY <1>3, FS_Subset
<1> QED  BY <1>1, <1>3, <1>4, FS_CardinalityType DEF Place

\* A new row is the last one of its session, and moves no other row of any session.
LEMMA InsertedRow ==
  ASSUME TablesOK, RowsGenuine, TimesAscend, NEW row \in Row, row.time = clock,
         messages' = Append(messages, row), NEW s, NEW n \in Nat, n = Len(messages)
  PROVE  /\ row.session = s => RowsOf(s)' = RowsOf(s) \cup {n + 1}
         /\ row.session # s => RowsOf(s)' = RowsOf(s)
         /\ \A i \in RowsOf(s) : Place(s, i)' = Place(s, i) /\ messages'[i] = messages[i]
         /\ row.session = s => Place(s, n + 1)' = Cardinality(RowsOf(s))
<1>1. n \in Nat /\ DOMAIN messages = 1..n /\ DOMAIN messages' = 1..(n + 1)
  BY DEF TablesOK
<1>2. \A i \in 1..n : messages'[i] = messages[i]
  BY DEF TablesOK
<1>3. messages'[n + 1] = row
  BY DEF TablesOK
<1>t. /\ \A i \in 1..n : messages[i].time \in Nat /\ messages[i].time <= row.time
      /\ row.time \in Nat
  BY <1>1, RowTypes DEF RowsGenuine
<1>4. row.session = s => RowsOf(s)' = RowsOf(s) \cup {n + 1}
  BY <1>1, <1>2, <1>3 DEF RowsOf
<1>5. row.session # s => RowsOf(s)' = RowsOf(s)
  BY <1>1, <1>2, <1>3 DEF RowsOf
<1>6. ASSUME NEW i \in RowsOf(s)
      PROVE  Place(s, i)' = Place(s, i)
  <2>1. i \in 1..n
    BY <1>1 DEF RowsOf
  <2>2. \A j \in 1..n : Earlier(j, i)' <=> Earlier(j, i)
    BY <1>2, <2>1 DEF Earlier
  <2>3. ~Earlier(n + 1, i)'
    BY <1>1, <1>2, <1>3, <1>t, <2>1 DEF Earlier
  <2>4. {j \in RowsOf(s) : Earlier(j, i)}' = {j \in RowsOf(s) : Earlier(j, i)}
    <3>1. RowsOf(s)' \subseteq RowsOf(s) \cup {n + 1} /\ RowsOf(s) \subseteq RowsOf(s)'
      BY <1>4, <1>5
    <3>2. RowsOf(s) \subseteq 1..n
      BY <1>1 DEF RowsOf
    <3> QED  BY <2>2, <2>3, <3>1, <3>2
  <2> QED  BY <2>4 DEF Place
<1>7. ASSUME row.session = s
      PROVE  Place(s, n + 1)' = Cardinality(RowsOf(s))
  <2>1. RowsOf(s) \subseteq 1..n
    BY <1>1 DEF RowsOf
  <2>2. \A j \in 1..n : Earlier(j, n + 1)'
    <3> TAKE j \in 1..n
    <3>1. /\ messages'[j].time <= messages'[n + 1].time
          /\ messages'[j].time \in Nat /\ messages'[n + 1].time \in Nat
      BY <1>2, <1>3, <1>t
    <3>2. j < n + 1
      BY <1>1
    <3> QED  BY <3>1, <3>2 DEF Earlier
  <2>3. ~Earlier(n + 1, n + 1)'
    BY <1>1, <1>3, <1>t DEF Earlier
  <2>4. {j \in RowsOf(s) : Earlier(j, n + 1)}' = RowsOf(s)
    BY <1>4, <1>7, <2>1, <2>2, <2>3
  <2> QED  BY <2>4 DEF Place
<1> QED  BY <1>1, <1>2, <1>4, <1>5, <1>6, <1>7 DEF RowsOf

\* Inserting a row extends the transcript of its session and no other.
LEMMA InsertionExtends ==
  ASSUME TablesOK, RowsGenuine, TimesAscend, EveryPlaceTaken, NEW row \in Row, row.time = clock,
         messages' = Append(messages, row), NEW s \in Session
  PROVE  /\ InOrder(s)' = IF row.session = s THEN Append(InOrder(s), row)
                                                 ELSE InOrder(s)
         /\ \A k \in 1..Cardinality(RowsOf(s))' : \E i \in RowsOf(s)' : Place(s, i)' = k - 1
<1>n. PICK n \in Nat : n = Len(messages)
  BY DEF TablesOK
<1>c. PICK c \in Nat : c = Cardinality(RowsOf(s))
  BY RowsFinite
<1> DEFINE At(k) == CHOOSE i \in RowsOf(s) : Place(s, i) = k - 1
<1>0. /\ row.session = s => RowsOf(s)' = RowsOf(s) \cup {n + 1}
      /\ row.session # s => RowsOf(s)' = RowsOf(s)
      /\ \A i \in RowsOf(s) : Place(s, i)' = Place(s, i) /\ messages'[i] = messages[i]
      /\ row.session = s => Place(s, n + 1)' = c
  BY <1>n, <1>c, InsertedRow
<1>1. messages'[n + 1] = row /\ n + 1 \notin RowsOf(s)
  BY <1>n, RowsFinite DEF TablesOK
<1>2. Cardinality(RowsOf(s))' = IF row.session = s THEN c + 1 ELSE c
  <2>1. CASE row.session = s
    BY <1>0, <1>1, <1>c, <2>1, RowsFinite, FS_AddElement
  <2> QED  BY <1>0, <1>c, <2>1
<1>3. ASSUME NEW k \in 1..c
      PROVE  /\ At(k) \in RowsOf(s) /\ Place(s, At(k)) = k - 1
             /\ At(k)' = At(k)
  <2>1. At(k) \in RowsOf(s) /\ Place(s, At(k)) = k - 1
    BY <1>c DEF EveryPlaceTaken
  <2>2. {i \in RowsOf(s)' : Place(s, i)' = k - 1} = {i \in RowsOf(s) : Place(s, i) = k - 1}
    <3>1. row.session = s => Place(s, n + 1)' # k - 1
      BY <1>0
    <3> QED  BY <1>0, <3>1
  <2>3. \A i : i \in RowsOf(s)' /\ Place(s, i)' = k - 1 <=> i \in RowsOf(s) /\ Place(s, i) = k - 1
    BY <2>2
  <2>4. (CHOOSE i : i \in RowsOf(s)' /\ Place(s, i)' = k - 1)
          = (CHOOSE i : i \in RowsOf(s) /\ Place(s, i) = k - 1)
    BY <2>3, Zenon
  <2> QED  BY <2>1, <2>4
<1>4. ASSUME row.session = s
      PROVE  At(c + 1)' = n + 1
  <2>1. \A i \in RowsOf(s)' : Place(s, i)' = c => i = n + 1
    <3> SUFFICES ASSUME NEW i \in RowsOf(s), Place(s, i)' = c PROVE FALSE
      BY <1>0, <1>4
    <3>1. Place(s, i) = c
      BY <1>0
    <3>2. {j \in RowsOf(s) : Earlier(j, i)} \in SUBSET RowsOf(s) /\ ~Earlier(i, i)
      BY RowTypes DEF Earlier, RowsOf, TablesOK
    <3>3. {j \in RowsOf(s) : Earlier(j, i)} # RowsOf(s)
      BY <3>2
    <3> QED  BY <3>1, <3>2, <3>3, <1>c, RowsFinite, FS_Subset DEF Place
  <2>2. n + 1 \in RowsOf(s)' /\ Place(s, n + 1)' = c /\ (c + 1) - 1 = c
    BY <1>0, <1>1, <1>4
  <2> QED  BY <2>1, <2>2
<1>5. InOrder(s) = [k \in 1..c |-> messages[At(k)]]
  BY <1>c DEF InOrder
<1>6. InOrder(s)' = [k \in 1..Cardinality(RowsOf(s))' |-> messages'[At(k)']]
  BY DEF InOrder
<1> HIDE DEF At
<1>7. \A k \in 1..c : messages'[At(k)'] = messages[At(k)]
  BY <1>0, <1>3
<1>8. CASE row.session = s
  <2>1. InOrder(s)' = [k \in 1..(c + 1) |-> messages'[At(k)']]
    BY <1>2, <1>6, <1>8
  <2>2. messages'[At(c + 1)'] = row
    BY <1>1, <1>4, <1>8
  <2>3. \A i \in DOMAIN messages : messages[i] \in Row
    BY RowTypes
  <2>4. \A k \in 1..c : messages[At(k)] \in Row
    BY <1>3, <2>3 DEF RowsOf
  <2>5. InOrder(s) \in Seq(Row) /\ Len(InOrder(s)) = c
    BY <1>1, <1>5, <2>4
  <2>6. InOrder(s)' = Append(InOrder(s), row)
    <3>1. \A k \in 1..c : InOrder(s)[k] = messages[At(k)]
      BY <1>5
    <3>2. PICK q \in Seq(Row) : q = InOrder(s) /\ Len(q) = c
      BY <2>5
    <3>3. \A k \in 1..(c + 1) : messages'[At(k)'] = IF k = c + 1 THEN row ELSE q[k]
      <4>1. \A k \in 1..(c + 1) : k # c + 1 => k \in 1..c
        OBVIOUS
      <4> QED  BY <1>7, <2>2, <3>1, <3>2, <4>1
    <3>4. Append(q, row) = [k \in 1..(c + 1) |-> IF k = c + 1 THEN row ELSE q[k]]
      <4>1. /\ Append(q, row) \in Seq(Row) /\ Len(Append(q, row)) = c + 1
            /\ \A k \in 1..(c + 1) : Append(q, row)[k] = IF k = c + 1 THEN row ELSE q[k]
        BY <3>2
      <4>2. Append(q, row) \in [1..(c + 1) -> Row]
        BY <4>1, LenProperties
      <4> QED  BY <4>1, <4>2
    <3> QED  BY <2>1, <3>2, <3>3, <3>4
  <2>7. \A k \in 1..(c + 1) : \E i \in RowsOf(s)' : Place(s, i)' = k - 1
    <3> TAKE k \in 1..(c + 1)
    <3>1. CASE k \in 1..c
      BY <1>0, <1>3, <1>8, <3>1
    <3>2. CASE k = c + 1
      BY <1>0, <1>1, <1>8, <3>2
    <3> QED  BY <1>1, <3>1, <3>2
  <2> QED  BY <1>2, <1>8, <2>6, <2>7
<1>9. CASE row.session # s
  <2>1. InOrder(s)' = InOrder(s)
    BY <1>2, <1>5, <1>6, <1>7, <1>9
  <2> QED  BY <1>0, <1>2, <1>3, <1>9, <2>1
<1> QED  BY <1>8, <1>9
\* A star changes neither what a session's transcript holds nor its order.
LEMMA StarKeeps ==
  ASSUME TablesOK, NEW s, NEW u \in Session, NEW m \in Message, ToggleMessageStar(u, m)
  PROVE  /\ DOMAIN messages' = DOMAIN messages
         /\ \A i \in DOMAIN messages : /\ messages'[i].id = messages[i].id
                                       /\ messages'[i].time = messages[i].time
         /\ RowsOf(s)' = RowsOf(s)
         /\ \A i \in RowsOf(s) : Place(s, i)' = Place(s, i)
<1>1. DOMAIN messages' = DOMAIN messages
  BY DEF ToggleMessageStar
<1>2. \A i \in DOMAIN messages : /\ messages'[i].session = messages[i].session
                                 /\ messages'[i].time = messages[i].time
                                 /\ messages'[i].id = messages[i].id
  BY RowTypes DEF ToggleMessageStar, Row
<1>3. RowsOf(s)' = RowsOf(s)
  BY <1>1, <1>2 DEF RowsOf
<1>4. ASSUME NEW i \in RowsOf(s)
      PROVE  Place(s, i)' = Place(s, i)
  <2>1. \A j \in RowsOf(s) : Earlier(j, i)' <=> Earlier(j, i)
    BY <1>2 DEF RowsOf, Earlier
  <2>2. {j \in RowsOf(s)' : Earlier(j, i)'} = {j \in RowsOf(s) : Earlier(j, i)}
    BY <1>3, <2>1
  <2> QED  BY <2>2 DEF Place
<1> QED  BY <1>1, <1>2, <1>3, <1>4

\* The rows stay in the order of their times and numbered without gaps.
LEMMA OrderStep ==
  ASSUME TablesOK, RowsGenuine, TimesAscend, EveryPlaceTaken, [Next]_vars
  PROVE  TimesAscend' /\ EveryPlaceTaken'
<1>1. CASE UNCHANGED messages
  BY <1>1 DEF TimesAscend, EveryPlaceTaken, RowsOf, Place, Earlier
<1>2. ASSUME NEW s \in Session, NEW m \in Message, AppendMessage(s, m), messages' # messages
      PROVE  TimesAscend' /\ EveryPlaceTaken'
  <2>1. PICK row \in {[id |-> m, session |-> s, time |-> clock, starred |-> FALSE]} :
           messages' = Append(messages, row)
    BY <1>2 DEF AppendMessage
  <2>2. row \in Row /\ row.time = clock
    <3>1. row = [id |-> m, session |-> s, time |-> clock, starred |-> FALSE]
      OBVIOUS
    <3>2. row.id = m /\ row.session = s /\ row.time = clock
      BY <3>1
    <3>3. [id |-> m, session |-> s, time |-> clock, starred |-> FALSE] \in Row
      BY DEF TablesOK, Row
    <3> QED  BY <3>1, <3>2, <3>3
  <2>3. TimesAscend'
    <3>1. \A i \in DOMAIN messages' :
             \/ i = Len(messages) + 1 /\ messages'[i] = row
             \/ i \in DOMAIN messages /\ messages'[i] = messages[i]
      BY <2>1, <2>2 DEF TablesOK
    <3>2. \A i \in DOMAIN messages : messages[i].time \in Nat /\ messages[i].time <= clock
                                     /\ i \in Nat /\ i < Len(messages) + 1
      BY RowTypes DEF RowsGenuine, TablesOK
    <3>3. clock \in Nat /\ Len(messages) \in Nat
      BY RowTypes DEF TablesOK
    <3>4. SUFFICES ASSUME NEW i \in DOMAIN messages', NEW j \in DOMAIN messages', i < j
                   PROVE  messages'[i].time <= messages'[j].time
      BY DEF TimesAscend
    <3>5. CASE i \in DOMAIN messages /\ messages'[i] = messages[i]
      <4>1. CASE j = Len(messages) + 1 /\ messages'[j] = row
        BY <2>2, <3>2, <3>5, <4>1
      <4>2. CASE j \in DOMAIN messages /\ messages'[j] = messages[j]
        BY <3>4, <3>5, <4>2 DEF TimesAscend
      <4> QED  BY <3>1, <4>1, <4>2
    <3>6. CASE i = Len(messages) + 1
      BY <3>1, <3>2, <3>3, <3>4, <3>6
    <3> QED  BY <3>1, <3>5, <3>6
  <2>4. EveryPlaceTaken'
    BY <2>1, <2>2, InsertionExtends DEF EveryPlaceTaken
  <2> QED  BY <2>3, <2>4
<1>3. ASSUME NEW s \in Session, NEW m \in Message, ToggleMessageStar(s, m)
      PROVE  TimesAscend' /\ EveryPlaceTaken'
  <2>1. TimesAscend'
    BY <1>3, StarKeeps DEF TimesAscend
  <2>2. ASSUME NEW u \in Session, NEW k \in 1..Cardinality(RowsOf(u))'
        PROVE  \E i \in RowsOf(u)' : Place(u, i)' = k - 1
    <3>1. RowsOf(u)' = RowsOf(u) /\ \A i \in RowsOf(u) : Place(u, i)' = Place(u, i)
      BY <1>3, StarKeeps
    <3>2. \E i \in RowsOf(u) : Place(u, i) = k - 1
      BY <3>1 DEF EveryPlaceTaken
    <3> QED  BY <3>1, <3>2
  <2> QED  BY <2>1, <2>2 DEF EveryPlaceTaken
<1> QED
  BY <1>1, <1>2, <1>3 DEF Next, vars, database, Open, CreateSession, DeleteSession,
     UpdateSession, ToggleSessionPin, TouchSession, LoadSession, Close, Crash, Tick

\* The abstract variable: the messages of each session there is.
Shown == [s \in DOMAIN sessions |-> Ids(InOrder(s))]

\* As long as the rows stay as they are, so does what is loaded of each session.
LEMMA SameRowsLoadAlike ==
  ASSUME UNCHANGED messages
  PROVE  \A s : InOrder(s)' = InOrder(s)
BY DEF InOrder, RowsOf, Place, Earlier

\* The messages of a session in their order are a sequence of rows.
LEMMA InOrderType ==
  ASSUME TablesOK, EveryPlaceTaken, NEW s \in Session
  PROVE  InOrder(s) \in Seq(Row)
<1>c. PICK c \in Nat : c = Cardinality(RowsOf(s))
  BY RowsFinite
<1> DEFINE At(k) == CHOOSE i \in RowsOf(s) : Place(s, i) = k - 1
<1>1. \A k \in 1..c : At(k) \in RowsOf(s)
  BY <1>c DEF EveryPlaceTaken
<1>2. InOrder(s) = [k \in 1..c |-> messages[At(k)]]
  BY <1>c DEF InOrder
<1> HIDE DEF At
<1>3. \A k \in 1..c : messages[At(k)] \in Row
  BY <1>1, RowTypes DEF RowsOf
<1> QED  BY <1>2, <1>3

\* What a star does to the row it is set on does not reach the transcript.
LEMMA StarLoadsAlike ==
  ASSUME TablesOK, EveryPlaceTaken, NEW s \in Session, NEW u \in Session, NEW m \in Message,
         ToggleMessageStar(u, m)
  PROVE  Ids(InOrder(s))' = Ids(InOrder(s))
<1>c. PICK c \in Nat : c = Cardinality(RowsOf(s))
  BY RowsFinite
<1> DEFINE At(k) == CHOOSE i \in RowsOf(s) : Place(s, i) = k - 1
<1>1. /\ DOMAIN messages' = DOMAIN messages
      /\ \A i \in DOMAIN messages : messages'[i].id = messages[i].id
      /\ RowsOf(s)' = RowsOf(s)
      /\ \A i \in RowsOf(s) : Place(s, i)' = Place(s, i)
  BY StarKeeps
<1>2. \A k \in 1..c : At(k) \in RowsOf(s)
  BY <1>c DEF EveryPlaceTaken
<1>3. ASSUME NEW k \in 1..c
      PROVE  At(k)' = At(k)
  <2>1. \A i : i \in RowsOf(s)' /\ Place(s, i)' = k - 1 <=> i \in RowsOf(s) /\ Place(s, i) = k - 1
    BY <1>1
  <2>2. (CHOOSE i : i \in RowsOf(s)' /\ Place(s, i)' = k - 1)
          = (CHOOSE i : i \in RowsOf(s) /\ Place(s, i) = k - 1)
    BY <2>1, Zenon
  <2> QED  BY <2>2
<1>4. InOrder(s) = [k \in 1..c |-> messages[At(k)]]
  BY <1>c DEF InOrder
<1>5. InOrder(s)' = [k \in 1..c |-> messages'[At(k)']]
  BY <1>1, <1>c DEF InOrder
<1> HIDE DEF At
<1>6. \A k \in 1..c : messages'[At(k)'].id = messages[At(k)].id
  BY <1>1, <1>2, <1>3 DEF RowsOf
<1> QED  BY <1>4, <1>5, <1>6 DEF Ids

\* Every step of the history is a step of the contract, or changes no transcript.
LEMMA HistoryStep ==
  ASSUME IInv, TimesAscend, EveryPlaceTaken, [Next]_vars
  PROVE  [History!Next]_Shown
<1> USE DEF IInv
<1>1. CASE UNCHANGED messages /\ DOMAIN sessions' = DOMAIN sessions
  BY <1>1, SameRowsLoadAlike DEF Shown, Ids
<1>2. ASSUME NEW s \in Session, CreateSession(s), DOMAIN sessions' # DOMAIN sessions
      PROVE  History!Create(s)
  <2>1. s \notin DOMAIN sessions /\ DOMAIN sessions' = DOMAIN sessions \cup {s}
    BY <1>2 DEF CreateSession, NewIdentifier, TablesOK
  <2>2. UNCHANGED messages
    BY <1>2 DEF CreateSession
  <2>3. RowsOf(s) = {}
    BY <1>2 DEF CreateSession, NewIdentifier, RowsOf, RowsGenuine
  <2>4. Ids(InOrder(s)) = <<>>
    <3>1. Cardinality(RowsOf(s)) = 0
      BY <2>3, FS_EmptySet
    <3>2. 1..0 = {}
      OBVIOUS
    <3>3. DOMAIN InOrder(s) = {}
      BY <3>1, <3>2 DEF InOrder
    <3>4. DOMAIN Ids(InOrder(s)) = {}
      BY <3>3 DEF Ids
    <3>5. Ids(InOrder(s)) = [i \in {} |-> <<>>]
      BY <3>3 DEF Ids
    <3> QED  BY <3>5
  <2>5. Shown' = [u \in DOMAIN Shown \cup {s} |-> IF u = s THEN <<>> ELSE Shown[u]]
    BY <2>1, <2>2, <2>4, SameRowsLoadAlike DEF Shown, Ids
  <2> QED  BY <2>1, <2>5 DEF Shown, History!Create, History!With
<1>3. ASSUME NEW s \in Session, DeleteSession(s), DOMAIN sessions' # DOMAIN sessions
      PROVE  History!Delete(s)
  <2>1. s \in DOMAIN sessions /\ DOMAIN sessions' = DOMAIN sessions \ {s} /\ UNCHANGED messages
    BY <1>3 DEF DeleteSession
  <2>2. Shown' = [u \in DOMAIN Shown \ {s} |-> Shown[u]]
    BY <2>1, SameRowsLoadAlike DEF Shown, Ids
  <2> QED  BY <2>1, <2>2 DEF Shown, History!Delete, History!Without
<1>4. ASSUME NEW s \in Session, NEW m \in Message, AppendMessage(s, m), messages' # messages
      PROVE  History!Extend(s, m) \/ UNCHANGED Shown
  <2>1. PICK row \in {[id |-> m, session |-> s, time |-> clock, starred |-> FALSE]} :
           messages' = Append(messages, row)
    BY <1>4 DEF AppendMessage
  <2>2. row \in Row /\ row.time = clock /\ row.session = s /\ row.id = m
    <3>1. row = [id |-> m, session |-> s, time |-> clock, starred |-> FALSE]
      OBVIOUS
    <3>2. row.id = m /\ row.session = s /\ row.time = clock
      BY <3>1
    <3>3. [id |-> m, session |-> s, time |-> clock, starred |-> FALSE] \in Row
      BY DEF TablesOK, Row
    <3> QED  BY <3>1, <3>2, <3>3
  <2>3. \A u \in Session : InOrder(u)' = IF u = s THEN Append(InOrder(u), row)
                                                       ELSE InOrder(u)
    BY <2>1, <2>2, InsertionExtends
  <2>4. UNCHANGED sessions /\ DOMAIN sessions \subseteq Session
    BY <1>4 DEF AppendMessage, TablesOK
  <2>5. ASSUME NEW q \in Seq(Row)
        PROVE  Ids(Append(q, row)) = Append(Ids(q), m)
    BY <2>2 DEF Ids
  <2>6. \A u \in DOMAIN sessions :
           Ids(InOrder(u))' = IF u = s THEN Append(Ids(InOrder(u)), m)
                                           ELSE Ids(InOrder(u))
    BY <2>3, <2>4, <2>5, InOrderType DEF Ids
  <2>7. CASE s \in DOMAIN sessions
    <3>1. Shown' = [Shown EXCEPT ![s] = Append(@, m)]
      BY <2>4, <2>6, <2>7 DEF Shown
    <3> QED  BY <2>7, <3>1 DEF Shown, History!Extend, History!Extended
  <2>8. CASE s \notin DOMAIN sessions
    BY <2>4, <2>6, <2>8 DEF Shown
  <2> QED  BY <2>7, <2>8
<1>5. ASSUME NEW s \in Session, NEW m \in Message, ToggleMessageStar(s, m)
      PROVE  UNCHANGED Shown
  <2>1. UNCHANGED sessions /\ DOMAIN sessions \subseteq Session
    BY <1>5 DEF ToggleMessageStar, TablesOK
  <2>2. \A u \in Session : Ids(InOrder(u))' = Ids(InOrder(u))
    BY <1>5, StarLoadsAlike
  <2> QED  BY <2>1, <2>2 DEF Shown
<1>6. ASSUME NEW s \in Session, UpdateSession(s) \/ ToggleSessionPin(s)
      PROVE  UNCHANGED messages /\ DOMAIN sessions' = DOMAIN sessions
  BY <1>6 DEF UpdateSession, ToggleSessionPin, UpdateRow
<1>7. CASE TouchSession
  BY <1>1, <1>7 DEF TouchSession, UpdateRow
<1>8. CASE Open \/ Close \/ Crash \/ Tick \/ UNCHANGED vars
  BY <1>1, <1>8 DEF Open, Close, Crash, Tick, vars, database
<1>11. ASSUME NEW s \in Session, LoadSession(s)
       PROVE  UNCHANGED Shown
  <2>1. UNCHANGED <<sessions, messages>>
    BY <1>11 DEF LoadSession, database
  <2> QED  BY <2>1, SameRowsLoadAlike DEF Shown, Ids
<1>9. ASSUME NEW s \in Session, CreateSession(s) \/ DeleteSession(s)
      PROVE  UNCHANGED messages
  BY <1>9 DEF CreateSession, DeleteSession
<1>10. ASSUME NEW s \in Session, NEW m \in Message, AppendMessage(s, m)
       PROVE  UNCHANGED sessions
  BY <1>10 DEF AppendMessage
<1> QED
  BY <1>1, <1>2, <1>3, <1>4, <1>5, <1>6, <1>7, <1>8, <1>9, <1>10, <1>11 DEF Next, History!Next

\* The order of the rows, and what was loaded of them.
LoadedTyped == loaded \in [session : minted, messages : Seq(Message)] \cup {NullOpt}
Ordered == IInv /\ TimesAscend /\ EveryPlaceTaken /\ LoadedTyped

\* A session comes into being with an identifier that is new.
LEMMA NewSessionsAreNew ==
  ASSUME [Next]_vars
  PROVE  DOMAIN sessions' \subseteq DOMAIN sessions \cup (Session \ minted)
<1>1. ASSUME NEW s \in Session, CreateSession(s) \/ DeleteSession(s) \/ UpdateSession(s)
                               \/ ToggleSessionPin(s) \/ LoadSession(s)
      PROVE  DOMAIN sessions' \subseteq DOMAIN sessions \cup (Session \ minted)
  BY <1>1 DEF CreateSession, NewIdentifier, DeleteSession, UpdateSession, ToggleSessionPin,
     LoadSession, UpdateRow, database
<1>2. ASSUME NEW s \in Session, NEW m \in Message, AppendMessage(s, m) \/ ToggleMessageStar(s, m)
      PROVE  UNCHANGED sessions
  BY <1>2 DEF AppendMessage, ToggleMessageStar
<1>3. CASE TouchSession
  BY <1>3 DEF TouchSession, UpdateRow
<1>4. CASE Open \/ Close \/ Crash \/ Tick \/ UNCHANGED vars
  BY <1>4 DEF Open, Close, Crash, Tick, vars, database
<1> QED  BY <1>1, <1>2, <1>3, <1>4 DEF Next

\* Only LoadSession gives a result, and only the end of the process takes it away.
LEMMA LoadedChanges ==
  ASSUME [Next]_vars
  PROVE  loaded' \in {loaded, NullOpt} \/ \E s \in Session : LoadSession(s)
BY DEF Next, vars, callers, Open, CreateSession, DeleteSession, UpdateSession,
   ToggleSessionPin, AppendMessage, TouchSession, ToggleMessageStar, Close, Crash, Tick

\* Identifiers never get lost.
LEMMA MintedGrows ==
  ASSUME [Next]_vars
  PROVE  minted \subseteq minted'
BY DEF Next, vars, callers, Open, CreateSession, DeleteSession, UpdateSession,
   ToggleSessionPin, AppendMessage, TouchSession, ToggleMessageStar, LoadSession, Close,
   Crash, Tick

\* What LoadSession returns of a session: its first messages, or nothing.
LEMMA LoadedFirst ==
  ASSUME Ordered, NEW s \in Session, LoadSession(s)
  PROVE  \/ loaded' = NullOpt
         \/ \E n \in 0..Len(Ids(InOrder(s))) : loaded' = FirstOf(s, n)
<1>1. InOrder(s) \in Seq(Row)
  BY InOrderType DEF Ordered, IInv
<1>2. Len(Ids(InOrder(s))) = Len(InOrder(s)) /\ Len(InOrder(s)) \in Nat
  BY <1>1 DEF Ids
<1>3. Len(InOrder(s)) \in 0..Len(InOrder(s))
  BY <1>2
<1> QED  BY <1>2, <1>3 DEF LoadSession

\* The identifiers of the messages of a session, in their order.
LEMMA IdsType ==
  ASSUME TablesOK, EveryPlaceTaken, NEW s \in Session
  PROVE  Ids(InOrder(s)) \in Seq(Message)
<1>1. PICK q \in Seq(Row) : q = InOrder(s)
  BY InOrderType
<1>2. \A i \in 1..Len(q) : q[i].id \in Message
  <2>1. \A row \in Row : row.id \in Message
    BY DEF Row
  <2> QED  BY <2>1
<1> QED  BY <1>1, <1>2 DEF Ids

\* The first elements of a sequence are some of its elements.
LEMMA FirstElements ==
  ASSUME NEW S, NEW q \in Seq(S), NEW n \in 0..Len(q)
  PROVE  SubSeq(q, 1, n) \in Seq(S) /\ Len(SubSeq(q, 1, n)) = n
BY SubSeqProperties

\* The order of the rows, and the type of what is loaded, are kept.
LEMMA OrderedStep ==
  ASSUME Ordered, IInv', [Next]_vars
  PROVE  Ordered'
<1>1. TimesAscend' /\ EveryPlaceTaken'
  BY OrderStep DEF Ordered, IInv
<1>2. LoadedTyped'
  <2>1. CASE loaded' \in {loaded, NullOpt}
    BY <2>1, MintedGrows DEF Ordered, LoadedTyped
  <2>2. ASSUME NEW s \in Session, LoadSession(s)
        PROVE  LoadedTyped'
    <3>1. s \in minted
      BY <2>2 DEF LoadSession, Ordered, IInv, TablesOK
    <3>2. ASSUME NEW n \in 0..Len(Ids(InOrder(s)))
          PROVE  FirstOf(s, n) \in [session : minted, messages : Seq(Message)]
      <4>1. PICK q \in Seq(Message) : q = Ids(InOrder(s))
        BY IdsType DEF Ordered, IInv
      <4>2. SubSeq(q, 1, n) \in Seq(Message)
        BY <4>1, FirstElements
      <4> QED  BY <3>1, <4>1, <4>2 DEF FirstOf
    <3>3. minted' = minted
      BY <2>2 DEF LoadSession
    <3> QED  BY <2>2, <3>2, <3>3, LoadedFirst DEF LoadedTyped
  <2> QED  BY <2>1, <2>2, LoadedChanges
<1> QED  BY <1>1, <1>2 DEF Ordered

\* Rows are loaded in the order they were written, in every behaviour.
THEOREM OrderedInvariant == Spec => []Ordered
<1>1. ASSUME Init
      PROVE  TimesAscend /\ EveryPlaceTaken /\ LoadedTyped
  <2>1. DOMAIN messages = {} /\ loaded = NullOpt
    BY <1>1 DEF Init
  <2>2. \A s : RowsOf(s) = {} /\ Cardinality(RowsOf(s)) = 0
    BY <2>1, FS_EmptySet DEF RowsOf
  <2>3. 1..0 = {}
    OBVIOUS
  <2> QED  BY <2>1, <2>2, <2>3 DEF TimesAscend, EveryPlaceTaken, LoadedTyped
<1>2. IInv /\ TimesAscend /\ EveryPlaceTaken /\ LoadedTyped => Ordered
  BY DEF Ordered
<1>3. Ordered /\ IInv' /\ [Next]_vars => Ordered'
  BY OrderedStep
<1> QED  BY <1>1, <1>2, <1>3, InductiveInvariant, PTL DEF Spec

\* The tables, the open call, the counters and what was loaded keep their types in every
\* behaviour of HistoryManager, crashes and failed statements included.
THEOREM TypeCorrect == Spec => []TypeOK
<1>1. Ordered => TypeOK
  BY DEF Ordered, IInv, LoadedTyped, TablesOK, TypeOK
<1> QED  BY <1>1, OrderedInvariant, PTL

\* The messages of a session that stays are at most extended by one at their end.
LEMMA IdsOnlyGrow ==
  ASSUME Ordered, [Next]_vars, NEW s \in DOMAIN sessions, s \in DOMAIN sessions'
  PROVE  \/ Ids(InOrder(s))' = Ids(InOrder(s))
         \/ \E m \in Message : Ids(InOrder(s))' = Append(Ids(InOrder(s)), m)
<1>1. [History!Next]_Shown
  BY HistoryStep DEF Ordered
<1>2. DOMAIN Shown = DOMAIN sessions /\ DOMAIN Shown' = DOMAIN sessions'
  BY DEF Shown
<1>3. Shown[s] = Ids(InOrder(s)) /\ Shown'[s] = Ids(InOrder(s))'
  BY DEF Shown
<1>4. CASE UNCHANGED Shown
  BY <1>3, <1>4
<1>5. ASSUME NEW u \in Session, History!Create(u) PROVE Shown'[s] = Shown[s]
  BY <1>2, <1>5 DEF History!Create, History!With, Shown
<1>6. ASSUME NEW u \in Session, History!Delete(u) PROVE Shown'[s] = Shown[s]
  <2>1. Shown' = History!Without(Shown, u)
    BY <1>6 DEF History!Delete, Shown
  <2> QED  BY <1>2, <2>1 DEF History!Without
<1>7. ASSUME NEW u \in Session, NEW m \in Message, History!Extend(u, m)
      PROVE  Shown'[s] \in {Shown[s], Append(Shown[s], m)}
  <2>1. u \in DOMAIN Shown /\ Shown' = History!Extended(Shown, u, m)
    BY <1>7 DEF History!Extend, Shown
  <2>2. Shown' = [Shown EXCEPT ![u] = Append(Shown[u], m)]
    BY <2>1 DEF History!Extended
  <2> QED  BY <1>2, <2>1, <2>2
<1> QED  BY <1>1, <1>3, <1>4, <1>5, <1>6, <1>7 DEF History!Next

\* The first elements of a sequence are those of a longer one.
LEMMA FirstOfLonger ==
  ASSUME NEW S, NEW q \in Seq(S), NEW e \in S, NEW n \in 0..Len(q)
  PROVE  /\ n \in 0..Len(Append(q, e))
         /\ SubSeq(Append(q, e), 1, n) = SubSeq(q, 1, n)
<1>1. PICK l \in Nat : l = Len(q)
  BY LenProperties
<1>2. /\ Append(q, e) \in Seq(S) /\ Len(Append(q, e)) = l + 1
      /\ \A i \in 1..l : Append(q, e)[i] = q[i]
  BY <1>1, AppendProperties
<1>3. n \in 0..(l + 1) /\ n \in 0..l
  BY <1>1
<1>4. SubSeq(Append(q, e), 1, n) = [i \in 1..n |-> Append(q, e)[i]]
  BY <1>2, <1>3
<1>5. SubSeq(q, 1, n) = [i \in 1..n |-> q[i]]
  BY <1>1, <1>3
<1> QED  BY <1>1, <1>2, <1>3, <1>4, <1>5

\* Whatever is written after a session was loaded, what was loaded stays its beginning.
THEOREM LoadedStaysBeginning == Spec => []LoadedIsBeginning
<1>1. Init => LoadedIsBeginning
  BY DEF Init, LoadedIsBeginning
<1>2. ASSUME Ordered, LoadedIsBeginning, [Next]_vars
      PROVE  LoadedIsBeginning'
  <2>1. CASE loaded' = NullOpt
    BY <2>1 DEF LoadedIsBeginning
  <2>2. ASSUME loaded' = loaded, loaded # NullOpt PROVE LoadedIsBeginning'
    <3>1. PICK s \in minted : s = loaded.session
      BY <1>2, <2>2 DEF Ordered, LoadedTyped
    <3>2. SUFFICES ASSUME s \in DOMAIN sessions'
                   PROVE  \E n \in 0..Len(Ids(InOrder(s))') :
                             loaded.messages = SubSeq(Ids(InOrder(s))', 1, n)
      BY <2>2, <3>1 DEF LoadedIsBeginning
    <3>3. s \in DOMAIN sessions /\ s \in Session
      BY <1>2, <3>1, <3>2, NewSessionsAreNew DEF Ordered, IInv, TablesOK
    <3>4. PICK q \in Seq(Message) : q = Ids(InOrder(s))
      BY <1>2, <3>3, IdsType DEF Ordered, IInv
    <3>5. PICK n \in 0..Len(q) : loaded.messages = SubSeq(q, 1, n)
      BY <1>2, <2>2, <3>1, <3>3, <3>4 DEF LoadedIsBeginning
    <3>6. CASE Ids(InOrder(s))' = q
      BY <3>5, <3>6
    <3>7. ASSUME NEW m \in Message, Ids(InOrder(s))' = Append(q, m)
          PROVE  \E k \in 0..Len(Ids(InOrder(s))') :
                    loaded.messages = SubSeq(Ids(InOrder(s))', 1, k)
      BY <3>5, <3>7, FirstOfLonger
    <3> QED  BY <1>2, <3>2, <3>3, <3>4, <3>6, <3>7, IdsOnlyGrow
  <2>3. ASSUME NEW s \in Session, LoadSession(s), loaded' # NullOpt PROVE LoadedIsBeginning'
    <3>1. PICK n \in 0..Len(Ids(InOrder(s))) : loaded' = FirstOf(s, n)
      BY <1>2, <2>3, LoadedFirst
    <3>2. Ids(InOrder(s))' = Ids(InOrder(s))
      BY <2>3, SameRowsLoadAlike DEF LoadSession, database, Ids
    <3>3. loaded'.session = s /\ loaded'.messages = SubSeq(Ids(InOrder(s)), 1, n)
      BY <3>1 DEF FirstOf
    <3> QED  BY <3>1, <3>2, <3>3 DEF LoadedIsBeginning
  <2> QED  BY <1>2, <2>1, <2>2, <2>3, LoadedChanges
<1> QED  BY <1>1, <1>2, OrderedInvariant, PTL DEF Spec

\* HistoryManager implements Transcripts: whatever statements fail, whenever the process is
\* killed, what there is to load of a session starts empty, grows at its end by one message at a time
\* and disappears as a whole.
THEOREM HistoryIsTranscripts == Spec => TranscriptSpec
<1>1. ASSUME Init
      PROVE  History!Init
  <2>1. DOMAIN sessions = {} /\ DOMAIN messages = {}
    BY <1>1 DEF Init
  <2>2. Shown = [s \in {} |-> <<>>]
    BY <2>1 DEF Shown
  <2> QED  BY <2>2 DEF Shown, History!Init
<1>2. ASSUME Ordered, [Next]_vars
      PROVE  [History!Next]_Shown
  BY <1>2, HistoryStep DEF Ordered
<1>3. [History!Next]_Shown <=> [History!Next]_([s \in DOMAIN sessions |-> Ids(InOrder(s))])
  BY DEF Shown
<1> QED  BY <1>1, <1>2, <1>3, OrderedInvariant, PTL DEF Spec, TranscriptSpec, History!Spec
=============================================================================
