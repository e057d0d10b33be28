----------------------------- MODULE MCStreamWorker -----------------------------
(* An instance of StreamWorker for TLC. *)
EXTENDS StreamWorker, TLC

CONSTANTS t1, t2

MCOpen == <<"<", "think>">>
MCClose == <<"<", "/think>">>

\* A plain token, tags with and without text around them, a block in one token, and the
\* two halves of a tag.
MCSpelling ==
  [plain  |-> <<"a">>,      open   |-> <<"b">> \o MCOpen,
   close  |-> <<"c">> \o MCClose \o <<"d">>,
   block  |-> <<"e">> \o MCOpen \o <<"f">> \o MCClose \o <<"g">>,
   left   |-> <<"<">>,      right  |-> <<"think>">>,
   notice |-> <<"stopped">>]

\* One request, asked again: its answer may be replayed as one token.
MCKey == [p \in Prompt |-> "any"]

MCSymmetry == Permutations(Task)
=============================================================================
