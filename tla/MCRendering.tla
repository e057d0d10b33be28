------------------------------ MODULE MCRendering ------------------------------
(* Instances of Rendering for TLC. *)
EXTENDS Rendering

CONSTANTS light, dark
MCSymmetry == Permutations({light, dark})

MCWords ==
  {"System Channel", "ready", "synchronized", "User", "malama", "System Context", "w", "v"}

\* Pieces of lines and of several lines, so that two of them open, continue, close and
\* cut every kind of block.
MCTokens ==
  {<<"w">>, <<Break>>, <<Fence>>, <<Break, Rule>>, <<Hash, "w">>, <<Bullet, "w", Break>>,
   <<Bullet, "w", Break, Number, "v">>, <<"w", Pipe>>, <<Break, Rule, Pipe, Break, "v">>,
   <<"w", Pipe, Break, Rule, Pipe, Break, Bullet, "v">>,
   <<Fence, "v", Break, "w", Break>>, <<Fence, Break, "w", Break, Fence>>}

\* A prompt, its beginning, and one that opens a block of code and does not close it.
MCPrompts == {<<"w", "v">>, <<"w">>, <<Fence, Break, "w">>}

\* A session that ends with prompts no answer came to, and one with a list, a table whose
\* rows are longer and shorter than its header, and code without and with a language.
MCHistories ==
  {<<User(<<Fence, Break, "w", Break, Fence, Break, Fence, "v", Break, "w", Break, Fence>>),
     User(<<"v">>)>>,
   <<User(<<"w">>),
     Assistant(<<Bullet, "v", Break, Number, "w", Break, Rule, Break,
                 "w", Pipe, "v", Break, Rule, Pipe, Rule, Break,
                 Pipe, "v", Pipe, Break, "w", Pipe, "v", Pipe, "w", Break,
                 Fence, Break, "w", Break, Fence, Break,
                 Fence, "v", Break, "w", Break, Fence>>)>>}
=============================================================================
