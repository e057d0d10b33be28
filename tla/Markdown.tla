-------------------------------- MODULE Markdown --------------------------------
(***************************************************************************)
(* engine::markdown::Pipeline (engine/markdown/pipeline.cpp) up to the     *)
(* decoration of its fragments: tokenize splits a text into blocks, emit   *)
(* turns the blocks into the elements of a page.                           *)
(*                                                                         *)
(* A text is a sequence of pieces: the marks the splitter looks for, the   *)
(* end of a line, the blank that joins lines, and words, which stand for   *)
(* any other run of characters.  The six levels of headings are one mark,  *)
(* as are the two bullets; escaped pipes are words.  Highlighting inside a *)
(* code block and emphasis inside a line are left to the fragments of      *)
(* Rendering.                                                              *)
(***************************************************************************)
EXTENDS Naturals, Sequences, FiniteSets, SequencesExt, FiniteSetsExt

CONSTANT Words  \* runs of characters without a mark

Break == "newline"
Blank == "blank"
Fence == "fence"
Hash == "hash"
Rule == "dashes"
Bullet == "bullet"
Number == "number"
Pipe == "pipe"
Piece == Words \cup {Break, Blank, Fence, Hash, Rule, Bullet, Number, Pipe}

\* A run of characters without a mark is no mark.
ASSUME MarkAssumption == Words \cap {Break, Blank, Fence, Hash, Rule, Bullet, Number, Pipe} = {}

Text == Seq(Piece)

(***************************************************************************)
(* Lines                                                                   *)
(***************************************************************************)

\* The parts of a sequence between the separators, one more than there are separators.
SplitAt(text, separator) ==
  LET parts[i \in 0..Len(text)] ==
        IF i = 0 THEN << <<>> >>
        ELSE LET before == parts[i - 1]
             IN  IF text[i] = separator
                 THEN Append(before, <<>>)
                 ELSE [before EXCEPT ![Len(before)] = Append(@, text[i])]
  IN  parts[Len(text)]

\* The loop of tokenize takes no line after a last newline.
Lines(text) == LET all == SplitAt(text, Break)
               IN  IF Last(all) = <<>> THEN Front(all) ELSE all

Trim(text) ==
  LET ink == {i \in DOMAIN text : text[i] \notin {Blank, Break}}
  IN  IF ink = {} THEN <<>> ELSE SubSeq(text, Min(ink), Max(ink))

StartsWith(line, mark) == line # <<>> /\ line[1] = mark

\* is_divider_line; is_valid_delimiter_cell is the same test of a trimmed cell.
IsDivider(line) == line # <<>> /\ \A i \in DOMAIN line : line[i] = Rule

HasTablePipe(text) == Contains(text, Pipe)

(***************************************************************************)
(* tokenize: blocks                                                        *)
(***************************************************************************)

Token == [type : {"paragraph", "heading", "bullet", "number", "code"},
          content : Text, language : Text]

\* TokenizerState::push_buffer: nothing happens when the buffer is empty, so that a
\* divider, an empty heading and an empty list item leave no token.
PushBuffer(s, type) ==
  IF s.buffer = <<>>
  THEN s
  ELSE [s EXCEPT !.tokens = Append(@, [type |-> type, content |-> s.buffer,
                                       language |-> s.language]),
                 !.buffer = <<>>, !.language = <<>>]

\* A block of one line: what was read before it is a paragraph.
PushLine(s, type, content) ==
  PushBuffer([PushBuffer(s, "paragraph") EXCEPT !.buffer = content], type)

\* A row of a table stays a token of its own, whatever the language in the state.
PushRow(s, line) ==
  [PushBuffer(s, "paragraph") EXCEPT
     !.tokens = Append(@, [type |-> "paragraph", content |-> line, language |-> <<>>])]

ParseMarkdownElements(s, line) ==
  CASE StartsWith(line, Hash)   -> PushLine(s, "heading", Tail(line))
    [] IsDivider(line)          -> PushLine(s, "divider", <<>>)
    [] StartsWith(line, Bullet) -> PushLine(s, "bullet", Tail(line))
    [] StartsWith(line, Number) -> PushLine(s, "number", Tail(line))
    [] HasTablePipe(line) /\ line[1] \notin {Hash, Bullet, Number} -> PushRow(s, line)
    [] line = <<>>              -> [s EXCEPT !.buffer = Append(@, Break)]
    [] OTHER                    -> [s EXCEPT !.buffer = @ \o line \o <<Blank>>]

\* Mutant: the lines of a code block are joined by blanks, as those of a paragraph.
CodeLineJoined(s, line) == [s EXCEPT !.buffer = @ \o line \o <<Blank>>]

CodeLine(s, line) == [s EXCEPT !.buffer = @ \o line \o <<Break>>]

\* Mutant: a fence closes a block only if nothing follows it on its line.
EvaluateLineStrict(s, line) ==
  CASE line = <<Fence>> /\ s.inside ->
         [PushBuffer(s, "code") EXCEPT !.inside = FALSE]
    [] StartsWith(line, Fence) /\ ~s.inside ->
         [PushBuffer(s, "paragraph") EXCEPT !.inside = TRUE,
                                            !.language = Trim(Tail(line))]
    [] line # <<Fence>> /\ s.inside -> CodeLine(s, line)
    [] ~StartsWith(line, Fence) /\ ~s.inside -> ParseMarkdownElements(s, line)

EvaluateLine(s, line) ==
  CASE StartsWith(line, Fence) /\ s.inside ->
         [PushBuffer(s, "code") EXCEPT !.inside = FALSE]
    [] StartsWith(line, Fence) /\ ~s.inside ->
         [PushBuffer(s, "paragraph") EXCEPT !.inside = TRUE,
                                            !.language = Trim(Tail(line))]
    [] ~StartsWith(line, Fence) /\ s.inside -> CodeLine(s, line)
    [] ~StartsWith(line, Fence) /\ ~s.inside -> ParseMarkdownElements(s, line)

\* Mutant: what is left in the buffer at the end is forgotten.
TokenizeUnfinished(text) ==
  LET start == [tokens |-> <<>>, buffer |-> <<>>, language |-> <<>>, inside |-> FALSE]
  IN  FoldLeft(EvaluateLine, start, Lines(text)).tokens

\* What is left at the end is a paragraph, also when it is code without a closing fence.
Tokenize(text) ==
  LET start == [tokens |-> <<>>, buffer |-> <<>>, language |-> <<>>, inside |-> FALSE]
  IN  PushBuffer(FoldLeft(EvaluateLine, start, Lines(text)), "paragraph").tokens

(***************************************************************************)
(* Tables: a run of paragraphs with pipes, the second one all dashes.      *)
(***************************************************************************)

IsCandidate(token) == token.type = "paragraph" /\ HasTablePipe(token.content)

\* parse_row_cells
RowCells(text) ==
  LET row   == Trim(text)
      first == IF row[1] = Pipe THEN 2 ELSE 1
      last  == IF Len(row) > 1 /\ Last(row) = Pipe THEN Len(row) - 1 ELSE Len(row)
  IN  SplitAt(SubSeq(row, first, last), Pipe)

\* Where the run of candidates that starts at token i ends.
RunEnd(tokens, i) ==
  Max({k \in i - 1..Len(tokens) : \A j \in i..k : IsCandidate(tokens[j])})

\* scan_and_emit_table, its tests
IsTable(tokens, i) ==
  /\ RunEnd(tokens, i) > i
  /\ LET separator == RowCells(tokens[i + 1].content)
     IN  /\ Len(separator) = Len(RowCells(tokens[i].content))
         /\ \A c \in DOMAIN separator : IsDivider(Trim(separator[c]))

(***************************************************************************)
(* emit: elements.  Those in Decorated carry a fragment of text.           *)
(***************************************************************************)

Decorated == {"heading", "paragraph", "li", "th", "td", "code"}

Mark(tag) == [tag |-> tag, text |-> <<>>, language |-> <<>>]
Element(tag, text) == [tag |-> tag, text |-> text, language |-> <<>>]

\* A row is cut or filled up to the columns of the header.
Row(tag, cells, columns) ==
  <<Mark("tr")>> \o
  [c \in 1..columns |-> Element(tag, IF c \in DOMAIN cells THEN Trim(cells[c]) ELSE <<>>)] \o
  <<Mark("/tr")>>

Table(tokens, i) ==
  LET header  == RowCells(tokens[i].content)
      DataRow(k) == Row("td", RowCells(tokens[k].content), Len(header))
  IN  <<Mark("table")>> \o Row("th", header, Len(header)) \o
      FoldLeft(LAMBDA rows, k : rows \o DataRow(k), <<>>,
               [n \in 1..RunEnd(tokens, i) - i - 1 |-> i + 1 + n]) \o
      <<Mark("/table")>>

\* Mutant: both kinds of list end as an item does.
CloseItem(e, list) ==
  IF e[list] THEN [e EXCEPT !.out = Append(@, Mark("/li")), ![list] = FALSE] ELSE e

\* The state of emit: elements so far, the open lists, the next token.
Close(e, list) ==
  IF e[list] THEN [e EXCEPT !.out = Append(@, Mark(IF list = "ul" THEN "/ul" ELSE "/ol")),
                            ![list] = FALSE]
             ELSE e

CloseActiveLists(e) == Close(Close(e, "ul"), "ol")

\* Mutant: a list of the other kind stays open.
HandleListInside(e, token, list, alternative) ==
  LET opened == IF e[list] THEN e ELSE [e EXCEPT !.out = Append(@, Mark(list)), ![list] = TRUE]
  IN  [opened EXCEPT !.out = Append(@, Element("li", token.content))]

HandleList(e, token, list, alternative) ==
  LET closed == Close(e, alternative)
      opened == IF closed[list]
                THEN closed
                ELSE [closed EXCEPT !.out = Append(@, Mark(list)), ![list] = TRUE]
  IN  [opened EXCEPT !.out = Append(@, Element("li", token.content))]

EmitToken(e, token) ==
  CASE token.type = "bullet" -> HandleList(e, token, "ul", "ol")
    [] token.type = "number" -> HandleList(e, token, "ol", "ul")
    [] token.type \in {"heading", "paragraph"} ->
         [CloseActiveLists(e) EXCEPT !.out = Append(@, Element(token.type, token.content))]
    [] token.type = "code" ->
         [CloseActiveLists(e) EXCEPT
            !.out = Append(@, [tag |-> "code", text |-> token.content,
                               language |-> token.language])]

\* One turn of the loop of emit; the tokens of a table are taken together.
EmitFrom(tokens, e, i) ==
  IF i < e.next THEN e
  ELSE IF IsTable(tokens, i)
       THEN [CloseActiveLists(e) EXCEPT !.out = @ \o Table(tokens, i),
                                        !.next = RunEnd(tokens, i) + 1]
       ELSE [EmitToken(e, tokens[i]) EXCEPT !.next = i + 1]

Emit(tokens) ==
  LET start == [out |-> <<>>, ul |-> FALSE, ol |-> FALSE, next |-> 1]
  IN  CloseActiveLists(FoldLeft(LAMBDA e, i : EmitFrom(tokens, e, i), start,
                                [i \in DOMAIN tokens |-> i])).out

\* Pipeline::process, before its fragments are decorated
Elements(text) == Emit(Tokenize(text))
=============================================================================
