------------------------------ MODULE Transcripts ------------------------------
(***************************************************************************)
(* What the desktop may rely on of the chat history: each session that     *)
(* exists has a transcript, which starts empty, grows at its end by one    *)
(* message at a time, and disappears as a whole.  Tables, timestamps,      *)
(* statements, crashes and restarts are taken away.                        *)
(***************************************************************************)
EXTENDS Sequences

CONSTANTS Session,  \* identifiers a session can get
          Message   \* identifiers a message can get

VARIABLE transcript  \* the messages of each session there is, in their order

TypeOK ==
  /\ DOMAIN transcript \subseteq Session
  /\ \A s \in DOMAIN transcript : transcript[s] \in Seq(Message)

Init == transcript = [s \in {} |-> <<>>]

\* A map of transcripts with a new one, with a longer one, with one fewer.
With(log, s)        == [u \in DOMAIN log \cup {s} |-> IF u = s THEN <<>> ELSE log[u]]
Extended(log, s, m) == [log EXCEPT ![s] = Append(@, m)]
Without(log, s)     == [u \in DOMAIN log \ {s} |-> log[u]]

Create(s) ==
  /\ s \notin DOMAIN transcript
  /\ transcript' = With(transcript, s)

Extend(s, m) ==
  /\ s \in DOMAIN transcript
  /\ transcript' = Extended(transcript, s, m)

Delete(s) ==
  /\ s \in DOMAIN transcript
  /\ transcript' = Without(transcript, s)

Next ==
  \E s \in Session : Create(s) \/ Delete(s) \/ \E m \in Message : Extend(s, m)

Spec == Init /\ [][Next]_transcript
=============================================================================
