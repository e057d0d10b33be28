---------------------------- MODULE MCOllamaClient ----------------------------
(* Instances of OllamaClient for TLC. *)
EXTENDS OllamaClient

CONSTANTS t1, t2, w1, w2, done, junk

\* Two requests, neither of which carries images.
MCPrompt == {[text |-> "p", images |-> <<>>], [text |-> "q", images |-> <<>>]}

\* An answer of two words, a reply whose first line does not parse and whose second has no
\* content, and one whose only line never ends.  A lost connection leaves the others without
\* their last newline too.
MCAnswer == {[lines |-> <<w1, w2>>, terminated |-> TRUE],
             [lines |-> <<junk, done>>, terminated |-> TRUE],
             [lines |-> <<w2>>, terminated |-> FALSE]}
=============================================================================
