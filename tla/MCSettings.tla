------------------------------- MODULE MCSettings -------------------------------
(* Instances of Settings for TLC. *)
EXTENDS Settings, TLC

CONSTANTS home, lab, small, large, light, dark, s1, s2

MCDefault == [endpoint |-> home, model |-> small, thinking |-> FALSE, look |-> light]

MCSymmetry == Permutations(Session)
=============================================================================
