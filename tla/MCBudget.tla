-------------------------------- MODULE MCBudget --------------------------------
(* An instance of Budget for TLC. *)
EXTENDS Budget

\* A prompt, one it is the beginning of, and nothing: only images, or only a document.
MCPrompts == {<<>>, <<"a">>, <<"a", "b", "a">>}

MCFiles == {[image |-> TRUE, text |-> <<>>], [image |-> FALSE, text |-> <<"b", "b">>]}

MCTokens == {<<"b", "a">>}

\* num_ctx as it is by default, at the size of a few messages, and not set.
MCDefault == [context |-> 9, system |-> <<>>]
MCParams == {MCDefault, [context |-> 4, system |-> <<"b">>], [context |-> 0, system |-> <<>>]}

MCIndicator == <<"i">>

\* A session that was left after a prompt and its answer.
MCChats ==
  {[messages |-> <<[role |-> "user", content |-> <<"a", "b", "a">>],
                   [role |-> "assistant", content |-> <<"b">>]>>,
    params |-> [context |-> 4, system |-> <<"b">>]]}
=============================================================================
