------------------------------- MODULE MCDesktop -------------------------------
(* Instances of Desktop for TLC. *)
EXTENDS Desktop, TLC

CONSTANTS t1, t2, s1, s2, a, b, w

\* Prompts for a user who attaches nothing, and does not begin one like another.
MCPlain == {[typed |-> <<a>>, documents |-> FALSE, images |-> FALSE],
            [typed |-> <<b>>, documents |-> FALSE, images |-> FALSE]}

\* A prompt with a document, and images alone.
MCAttached == {[typed |-> <<a>>, documents |-> TRUE,  images |-> FALSE],
               [typed |-> <<>>,  documents |-> FALSE, images |-> TRUE]}

MCSymmetry == Permutations(Task) \cup Permutations(Session)

\* In MCPlain the two texts are interchangeable as well.
MCSymmetryPlain == MCSymmetry \cup Permutations({a, b})

\* What tasks were asked is only recorded, and no property of the run but the type of it
\* looks at it.
MCView ==
  <<network, history, current, panel, spinner, sidebar, dialog, submitted, delivered,
    loaded, counters>>
=============================================================================
