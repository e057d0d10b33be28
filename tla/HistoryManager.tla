---------------------------- MODULE HistoryManager ----------------------------
(***************************************************************************)
(* HistoryManager (engine/storage/history_manager.cpp) and the SQLite file *)
(* it keeps.                                                               *)
(*                                                                         *)
(* The mutex of the class makes its operations exclude each other, so a    *)
(* call is one action unless it runs several statements: each statement is *)
(* a transaction of its own, and the process may be killed between two of  *)
(* them.  The result of a statement is dropped everywhere, so a statement  *)
(* that fails (disk full, file locked by another process, a database that  *)
(* could not be opened) is a statement without effect.                     *)
(*                                                                         *)
(* SQLite is external: a statement that succeeds is durable, foreign keys  *)
(* are not enforced (no connection turns them on), and ORDER BY keeps rows *)
(* with equal keys in the order they were inserted.  The wall clock counts *)
(* whole seconds and is not set back.                                      *)
(***************************************************************************)
EXTENDS Naturals, Sequences, FiniteSets

CONSTANTS Session,    \* identifiers GenerateUuidString may return for a session
          Message,    \* identifiers it may return for a message
          Nobody,     \* no call is in progress
          NullOpt,    \* what LoadSession returns of a session it cannot read
          MaxClock,   \* bound: seconds the clock counts
          MaxFaults   \* bound: crashes, failed statements and failed openings

ASSUME NobodyAssumption == Nobody \notin Session
ASSUME MaxClockAssumption == MaxClock \in Nat
ASSUME MaxFaultsAssumption == MaxFaults \in Nat

VARIABLES
  running,   \* the process runs, its HistoryManager is constructed
  usable,    \* InitializeDatabase succeeded, statements can be prepared
  minted,    \* session identifiers generated so far
  held,      \* sessions a caller may name: created or listed, and not deleted
  sessions,  \* table sessions: [identifier -> created, updated, pinned]
  messages,  \* table messages, in the order of insertion
  calling,   \* session of the AppendMessage that is between its two statements
  clock,     \* GetCurrentEpoch()
  faults,    \* crashes, failed statements and failed openings so far
  loaded     \* what LoadSession returned last: [session, messages] or NullOpt

handle == <<running, usable>>
callers == <<minted, held, loaded>>
database == <<sessions, messages>>
vars == <<handle, callers, database, calling, clock, faults>>

Row == [id : Message, session : Session, time : 0..MaxClock, starred : BOOLEAN]
Metadata == [created : 0..MaxClock, updated : 0..MaxClock, pinned : BOOLEAN]

TypeOK ==
  /\ running \in BOOLEAN
  /\ usable \in BOOLEAN
  /\ minted \subseteq Session
  /\ held \subseteq minted
  /\ loaded \in [session : minted, messages : Seq(Message)] \cup {NullOpt}
  /\ DOMAIN sessions \subseteq minted
  /\ sessions \in [DOMAIN sessions -> Metadata]
  /\ messages \in Seq(Row)
  /\ calling \in Session \cup {Nobody}
  /\ clock \in 0..MaxClock
  /\ faults \in 0..MaxFaults

\* A first start: there is no database file yet.
Init ==
  /\ running = FALSE
  /\ usable = FALSE
  /\ minted = {}
  /\ held = {}
  /\ loaded = NullOpt
  /\ sessions = [s \in {} |-> [created |-> 0, updated |-> 0, pinned |-> FALSE]]
  /\ messages = <<>>
  /\ calling = Nobody
  /\ clock = 0
  /\ faults = 0

-----------------------------------------------------------------------------
(* Statements.                                                             *)

Fault == faults < MaxFaults /\ faults' = faults + 1

\* A statement takes effect (ok) or does not; nobody looks.
Statement(ok) ==
  \/ usable /\ ok /\ UNCHANGED faults
  \/ usable /\ ~ok /\ Fault
  \/ ~usable /\ ~ok /\ UNCHANGED faults

\* No call holds the mutex.
Ready == running /\ calling = Nobody

\* UPDATE sessions SET ... WHERE session_id = s
UpdateRow(s, row) ==
  sessions' = IF s \in DOMAIN sessions THEN [sessions EXCEPT ![s] = row] ELSE sessions

\* Mutant: the clock is read wrongly.
TouchedAhead(s) == [sessions[s] EXCEPT !.updated = clock + 1]

\* The row of s with updated_at set to now.
Touched(s) == [sessions[s] EXCEPT !.updated = clock]

-----------------------------------------------------------------------------
(* Operations.                                                             *)

\* The constructor and InitializeDatabase, whose result is dropped too.  The
\* sessions that are listed then are the ones a caller can name.
Open ==
  /\ ~running
  /\ running' = TRUE
  /\ \/ usable' = TRUE /\ held' = DOMAIN sessions /\ UNCHANGED faults
     \/ usable' = FALSE /\ held' = {} /\ Fault
  /\ UNCHANGED <<minted, loaded, database, calling, clock>>

\* Mutant: an identifier is new if no session in the table has it.
NewInTable(s) == s \notin DOMAIN sessions

\* GenerateUuidString never returns an identifier twice.
NewIdentifier(s) == s \notin minted

\* The caller gets a new identifier even if the row could not be inserted.
CreateSession(s) ==
  /\ Ready /\ NewIdentifier(s)
  /\ minted' = minted \cup {s}
  /\ held' = held \cup {s}
  /\ \E ok \in BOOLEAN :
        /\ Statement(ok)
        /\ sessions' =
             IF ok THEN [u \in DOMAIN sessions \cup {s} |->
                           IF u = s THEN [created |-> clock, updated |-> clock, pinned |-> FALSE]
                                    ELSE sessions[u]]
                   ELSE sessions
  /\ UNCHANGED <<handle, loaded, messages, calling, clock>>

\* The rows of its messages stay: the cascade is declared but not enforced.
DeleteSession(s) ==
  /\ Ready /\ s \in held
  /\ \E ok \in BOOLEAN :
        /\ Statement(ok)
        /\ sessions' = IF ok THEN [u \in DOMAIN sessions \ {s} |-> sessions[u]] ELSE sessions
        /\ held' = IF ok THEN held \ {s} ELSE held
  /\ UNCHANGED <<handle, minted, loaded, messages, calling, clock>>

\* UpdateSessionTitle and UpdateSessionParameters: a change of the row that also
\* counts as use of the session.
UpdateSession(s) ==
  /\ Ready /\ s \in held
  /\ \E ok \in BOOLEAN :
        /\ Statement(ok)
        /\ IF ok THEN UpdateRow(s, Touched(s)) ELSE UNCHANGED sessions
  /\ UNCHANGED <<handle, callers, messages, calling, clock>>

\* A pin does not.
ToggleSessionPin(s) ==
  /\ Ready /\ s \in held
  /\ \E ok \in BOOLEAN :
        /\ Statement(ok)
        /\ IF ok THEN UpdateRow(s, [sessions[s] EXCEPT !.pinned = ~@]) ELSE UNCHANGED sessions
  /\ UNCHANGED <<handle, callers, messages, calling, clock>>

\* AppendMessage, first statement: insert the row, stamped by the caller.
AppendMessage(s, m) ==
  /\ Ready /\ s \in held
  /\ \A i \in DOMAIN messages : messages[i].id # m
  /\ \E ok \in BOOLEAN :
        /\ Statement(ok)
        /\ messages' = IF ok
                         THEN Append(messages, [id |-> m, session |-> s,
                                                time |-> clock, starred |-> FALSE])
                         ELSE messages
  /\ calling' = s
  /\ UNCHANGED <<handle, callers, sessions, clock>>

\* AppendMessage, second statement: touch the session.
TouchSession ==
  /\ running /\ calling # Nobody
  /\ \E ok \in BOOLEAN :
        /\ Statement(ok)
        /\ IF ok THEN UpdateRow(calling, Touched(calling)) ELSE UNCHANGED sessions
  /\ calling' = Nobody
  /\ UNCHANGED <<handle, callers, messages, clock>>

ToggleMessageStar(s, m) ==
  /\ Ready /\ s \in held
  /\ \E ok \in BOOLEAN :
        /\ Statement(ok)
        /\ messages' = IF ok
                         THEN [i \in DOMAIN messages |->
                                 IF messages[i].session = s /\ messages[i].id = m
                                   THEN [messages[i] EXCEPT !.starred = ~@] ELSE messages[i]]
                         ELSE messages
  /\ UNCHANGED <<handle, callers, sessions, calling, clock>>

-----------------------------------------------------------------------------
(* LoadSession.                                                            *)

\* The rows of a session's messages, by their place in the table.
RowsOf(s) == {i \in DOMAIN messages : messages[i].session = s}

\* Mutant: rows of the same second in the opposite order.
EarlierLastFirst(i, j) ==
  \/ messages[i].time < messages[j].time
  \/ messages[i].time = messages[j].time /\ i > j

\* ORDER BY timestamp ASC: rows of the same second in the order of insertion.
Earlier(i, j) ==
  \/ messages[i].time < messages[j].time
  \/ messages[i].time = messages[j].time /\ i < j

\* How many rows of session s come before row i.
Place(s, i) == Cardinality({j \in RowsOf(s) : Earlier(j, i)})

\* The rows of the messages of s in that order.
InOrder(s) ==
  [k \in 1..Cardinality(RowsOf(s)) |->
     messages[CHOOSE i \in RowsOf(s) : Place(s, i) = k - 1]]

Ids(rows) == [i \in DOMAIN rows |-> rows[i].id]

\* The first n messages of s.
FirstOf(s, n) == [session |-> s, messages |-> SubSeq(Ids(InOrder(s)), 1, n)]

\* Without the row of s, and with a statement for it that fails, there is no result; the
\* loop over the messages ends at the first step that gives no row, for whatever reason,
\* and what was read until then is returned.
LoadSession(s) ==
  /\ Ready /\ s \in held
  /\ \/ /\ usable /\ UNCHANGED faults
        /\ loaded' = IF s \in DOMAIN sessions THEN FirstOf(s, Len(InOrder(s))) ELSE NullOpt
     \/ /\ usable /\ Fault
        /\ \/ loaded' = NullOpt
           \/ /\ s \in DOMAIN sessions
              /\ \E n \in 0..Len(InOrder(s)) : loaded' = FirstOf(s, n)
     \/ ~usable /\ loaded' = NullOpt /\ UNCHANGED faults
  /\ UNCHANGED <<handle, minted, held, database, calling, clock>>

-----------------------------------------------------------------------------
(* The end of the process, and the clock.                                  *)

\* The destructor closes the database once no call holds the mutex.
Close ==
  /\ Ready
  /\ running' = FALSE
  /\ usable' = FALSE
  /\ loaded' = NullOpt
  /\ UNCHANGED <<minted, held, database, calling, clock, faults>>

\* The process is killed, possibly between the two statements of a call.
Crash ==
  /\ running /\ Fault
  /\ running' = FALSE
  /\ usable' = FALSE
  /\ calling' = Nobody
  /\ loaded' = NullOpt
  /\ UNCHANGED <<minted, held, database, clock>>

Tick ==
  /\ clock < MaxClock
  /\ clock' = clock + 1
  /\ UNCHANGED <<handle, callers, database, calling, faults>>

Next ==
  \/ Open \/ TouchSession \/ Close \/ Crash \/ Tick
  \/ \E s \in Session :
        \/ LoadSession(s)
        \/ CreateSession(s) \/ DeleteSession(s) \/ UpdateSession(s) \/ ToggleSessionPin(s)
        \/ \E m \in Message : AppendMessage(s, m) \/ ToggleMessageStar(s, m)

Spec == Init /\ [][Next]_vars

-----------------------------------------------------------------------------
(* The startup.                                                            *)

\* The order in which the sidebar and the startup arrange LoadAllMetadata.
Before(a, b) ==
  IF a.pinned # b.pinned THEN a.pinned ELSE a.updated > b.updated

\* Session s may be the one LoadMostRecentSessionOnStartup opens.
OpensFirst(s) ==
  s \in DOMAIN sessions /\ \A u \in DOMAIN sessions : ~Before(sessions[u], sessions[s])

-----------------------------------------------------------------------------
(* Properties.                                                             *)

\* As long as nothing failed, the session opened at startup, unless it is pinned,
\* has been used no earlier than any message of any unpinned session was written:
\* AppendMessage keeps updated_at abreast of the messages, whatever is created,
\* renamed, pinned and deleted in between.
StartupOpensLatest ==
  calling = Nobody /\ faults = 0 =>
     \A s \in DOMAIN sessions : OpensFirst(s) /\ ~sessions[s].pinned =>
        \A i \in DOMAIN messages :
           messages[i].session \in DOMAIN sessions =>
              messages[i].time <= sessions[s].updated

\* What was loaded of a session stays the beginning of its transcript as long as the
\* session exists, whatever is written, starred and renamed since, and however much of the
\* session could be read: a panel that goes on from it shows the messages in their order.
LoadedIsBeginning ==
  loaded # NullOpt /\ loaded.session \in DOMAIN sessions =>
     LET transcript == Ids(InOrder(loaded.session)) IN
     \E n \in 0..Len(transcript) : loaded.messages = SubSeq(transcript, 1, n)

-----------------------------------------------------------------------------
(* The abstract specification this one implements.                         *)

History == INSTANCE Transcripts
             WITH transcript <- [s \in DOMAIN sessions |-> Ids(InOrder(s))]

\* What there is to load of a session only ever grows by one message at its end,
\* until the session is deleted; no operation, failure, crash or restart changes the
\* transcript of another session, and the rows a deleted session leaves behind never
\* turn up in a new one.
TranscriptSpec == History!Spec
=============================================================================
