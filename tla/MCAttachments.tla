----------------------------- MODULE MCAttachments -----------------------------
(* Instances of Attachments for TLC. *)
EXTENDS Attachments

CONSTANTS photo, report, p1, p2

\* Sizes are in megabytes.  A file with some text, one whose text rounds down to no token
\* at all, one without text that is too large for an image but not for a PDF, and one
\* that is too large for both.
MCContent == {[size |-> 1, parses |-> TRUE, chars |-> 2],
              [size |-> 1, parses |-> TRUE, chars |-> 1],
              [size |-> 5, parses |-> TRUE, chars |-> 0],
              [size |-> 7, parses |-> FALSE, chars |-> 0]}
=============================================================================
