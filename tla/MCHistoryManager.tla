--------------------------- MODULE MCHistoryManager ---------------------------
(* Instances of HistoryManager for TLC. *)
EXTENDS HistoryManager, TLC

CONSTANTS s1, s2, m1, m2, m3

\* Identifiers are interchangeable.
MCSymmetry == Permutations(Session) \cup Permutations(Message)
=============================================================================
