----------------------------- MODULE CodeBlock -----------------------------
(***************************************************************************)
(* How a fenced block of code becomes a part of the page                   *)
(* (src/src/engine/markdown/pipeline.cpp, Pipeline::decorate_code_block),  *)
(* with the grammars it is coloured by (syntax_registry.cpp) and the links *)
(* that copy and save it (src/src/ui/chat_panel.cpp).                      *)
(*                                                                         *)
(* A scan looks, from its position on, for the leftmost place where a rule *)
(* of the language's grammar matches, appends the code before that place   *)
(* and then what the rule puts for the match, and goes on behind it.  What *)
(* it appends goes through replacements that escape it, lay it out and     *)
(* turn the marks of the rules into tags.  The code itself travels, byte   *)
(* by byte in hexadecimal, in the links.                                   *)
(*                                                                         *)
(* A text is a sequence of atoms: a character, or a whole word of letters, *)
(* digits, _ and -, so that \b is where an atom that is a word begins or   *)
(* ends.  The words of a keyword rule are a constant; its operators, which *)
(* match between two words only, change a colour and are left out.  The    *)
(* cache of finished blocks is in module Rendering.                        *)
(***************************************************************************)
EXTENDS Integers, Sequences, FiniteSetsExt, SequencesExt

CONSTANTS
  Words,      \* the atoms that are words
  Characters, \* the other atoms
  Keywords,   \* the words of each grammar's keyword rule
  Codes,      \* the blocks of code shown, for each language
  Chars       \* the characters, signed, that each atom is made of

Atoms == Words \cup Characters

ASSUME CodesAssumption ==
  \A l \in DOMAIN Codes : Codes[l] \subseteq Seq(Atoms)
ASSUME WordsAssumption ==
  /\ Words \cap Characters = {}
  /\ {"<", ">", "&", " ", "\t", "\n", "\r", "\"", "'", "/", "*", "("} \subseteq Characters
ASSUME CharsAssumption == Chars \in [Atoms -> Seq(-128..127)]

VARIABLES
  lang,    \* the language of the block
  code,    \* the code between the fences
  pc,      \* how far the decoration is
  pos,     \* current_pos of the scan
  result,  \* what has been appended, and then what replaced it
  link,    \* the payload of the links, in hexadecimal digits
  copied   \* the characters put on the clipboard or into a file

vars == <<lang, code, pc, pos, result, link, copied>>

White == {" ", "\t", "\n", "\r"}
-----------------------------------------------------------------------------
(* Regular expressions.  An item matches atoms from a place on.            *)

One(S)      == [kind |-> "one", of |-> S]       \* [S]
Many(S)     == [kind |-> "any", of |-> S]       \* [S]*
Optional(S) == [kind |-> "optional", of |-> S]  \* [S]?
Until(s)    == [kind |-> "until", of |-> s]     \* [\s\S]*?s
Ahead(S)    == [kind |-> "ahead", of |-> S]     \* (?=[S])

AnyOf(s) == [i \in 1..Len(s) |-> One({s[i]})]
Some(S) == <<One(S), Many(S)>>
Name == <<One(Words)>>

(* The place behind what an item matches at place i of a text; 0 if it     *)
(* does not match.                                                         *)
Behind(item, text, i) ==
  LET is(S) == i <= Len(text) /\ text[i] \in S
  IN CASE item.kind = "one" -> IF is(item.of) THEN i + 1 ELSE 0
       [] item.kind = "any" ->
            Min({k \in i..Len(text) : text[k] \notin item.of} \cup {Len(text) + 1})
       [] item.kind = "optional" -> IF is(item.of) THEN i + 1 ELSE i
       [] item.kind = "ahead" -> IF is(item.of) THEN i ELSE 0
       [] item.kind = "until" ->
            LET ends == {k \in i + Len(item.of)..Len(text) + 1 :
                           SubSeq(text, k - Len(item.of), k - 1) = item.of}
            IN IF ends = {} THEN 0 ELSE Min(ends)

BehindAll(items, text, i) ==
  LET behind[n \in 0..Len(items)] ==
        IF n = 0 THEN i
        ELSE LET p == behind[n - 1] IN IF p = 0 THEN 0 ELSE Behind(items[n], text, p)
  IN behind[Len(items)]

(* A rule is a set of alternatives, of which at most one matches at a      *)
(* place; an alternative is a sequence of parts, a part its items and what *)
(* the replacement puts for them: the group between two marks, the text    *)
(* itself, one blank, or nothing.                                          *)
Group(mark, items) == [items |-> items, put |-> "group", mark |-> mark]
Itself(items)      == [items |-> items, put |-> "text", mark |-> "none"]
Blank(items)       == [items |-> items, put |-> "blank", mark |-> "none"]
Nothing(items)     == [items |-> items, put |-> "nothing", mark |-> "none"]

Marks == [string  |-> <<"x01", "x02">>, comment |-> <<"x03", "x04">>,
          keyword |-> <<"x05", "x06">>, type    |-> <<"x07", "x08">>,
          punct   |-> <<"x0F", "x10">>, header  |-> <<"x11", "x12">>,
          call    |-> <<"x13", "x14">>]

(* The place behind the first n parts; 0 if they do not match.             *)
End(parts, n, text, i) ==
  LET end[k \in 0..n] ==
        IF k = 0 THEN i
        ELSE LET p == end[k - 1] IN IF p = 0 THEN 0 ELSE BehindAll(parts[k].items, text, p)
  IN end[n]

Final(parts, text, i) == End(parts, Len(parts), text, i)

Matches(parts, text, i) == Final(parts, text, i) # 0
-----------------------------------------------------------------------------
(* The grammars.                                                           *)

Quoted(mark, quotes) ==
  {<<Group(mark, <<One({q}), Many(Atoms \ {q}), One({q})>>)>> : q \in quotes}

Tripled == {<<Group("string", AnyOf(<<q, q, q>>) \o <<Until(<<q, q, q>>)>>)>> : q \in {"\"", "'"}}

LineComment(s) == {<<Group("comment", AnyOf(s) \o <<Many(Atoms \ {"\n"})>>)>>}
BlockComment == {<<Group("comment", AnyOf(<<"/", "*">>) \o <<Until(<<"*", "/">>)>>)>>}
Comments == LineComment(<<"/", "/">>) \cup BlockComment

Call(mark) == {<<Group(mark, Name), Nothing(<<Many(White), Ahead({"("})>>)>>}
Keyword(l) == {<<Group("keyword", <<One(Keywords[l])>>)>>}
Punctuation == {<<Group("punct", <<One({"{", "}", "[", "]", "(", ")"})>>)>>}
Prefixed(S) == {<<Group("type", <<One(S), One(Words)>>)>>}
Definition(S) == {<<Group("keyword", <<One(S)>>), Blank(Some(White)), Group("type", Name)>>}

Cpp ==
  LET scope == <<Group("type", Name), Itself(AnyOf(<<":", ":">>))>>
      header == {<<One({"<"}), One(Atoms \ {">"}), Many(Atoms \ {">"}), One({">"})>>,
                 <<One({"\""}), One(Atoms \ {"\""}), Many(Atoms \ {"\""}), One({"\""})>>}
  IN <<Quoted("string", {"\""}),
       Comments,
       {<<Group("keyword", AnyOf(<<"#", "include">>) \o Some(White)), Group("header", h)>> :
          h \in header},
       {scope \o <<Group("call", Name), Nothing(<<Many(White), Ahead({"("})>>)>>},
       {scope \o <<Itself(Name)>>},
       Definition({"class", "struct", "enum"} \cap Words),
       Call("type"),
       {<<Group("keyword", <<One({"#"}), Many(White), One(Words)>>)>>},
       Keyword("cpp"),
       Punctuation>>

Python ==
  <<Tripled, Quoted("string", {"\"", "'"}), LineComment(<<"#">>), Prefixed({"@"}),
    Definition({"class", "def"} \cap Words), Call("call"), Keyword("python"), Punctuation>>

Css ==
  <<Quoted("string", {"\"", "'"}), BlockComment, Prefixed({".", "#"}),
    {<<Group("keyword", Name), Nothing(<<Many(White), Ahead({":"})>>)>>},
    {<<Group("punct", <<One({"{", "}", "(", ")"})>>)>>}>>

(* The first pattern is (), which matches nothing, everywhere.             *)
Html ==
  <<{<<Group("comment", <<>>)>>},
    {<<Group("keyword", <<One({"<"}), Optional({"/"})>> \o Some(Words \cup {":"}))>>},
    {<<Group("type", Name), Itself(<<One({"="})>>)>>},
    Quoted("string", {"\"", "'"})>>

JavaScript ==
  <<Quoted("string", {"\"", "'", "backtick"}), Comments, Keyword("javascript"), Call("call"),
    Punctuation>>

Java ==
  <<Quoted("string", {"\"", "'"}), Comments, Prefixed({"@"}), Keyword("java"), Call("call"),
    Punctuation>>

Php ==
  <<Quoted("string", {"\"", "'"}), Comments \cup LineComment(<<"#">>), Prefixed({"$"}),
    Keyword("php"), Call("call"), Punctuation>>

Rust ==
  <<Quoted("string", {"\""}), Comments, Keyword("rust"),
    {<<Group("type", <<One(Words), One({"!"})>>)>>}, Call("call"), Punctuation>>

Kotlin ==
  <<Quoted("string", {"\"", "'"}), Comments, Keyword("kotlin"), Call("call"), Punctuation>>

(* A language that is not registered has no grammar, and nothing of its    *)
(* code is coloured.                                                       *)
GetSyntaxFor(l) ==
  CASE l \in {"cpp", "c++", "c"} -> Cpp
    [] l \in {"python", "py"} -> Python
    [] l = "css" -> Css
    [] l = "html" -> Html
    [] l \in {"javascript", "typescript", "js", "ts"} -> JavaScript
    [] l = "java" -> Java
    [] l = "php" -> Php
    [] l \in {"rust", "rs"} -> Rust
    [] l \in {"kotlin", "kt"} -> Kotlin
    [] OTHER -> <<>>
-----------------------------------------------------------------------------
(* The scan.                                                               *)

Processed == SelectSeq(code, LAMBDA a : a # "\r")

(* Where each rule matches from a place on, the end of the code excepted.  *)
Starts(from) ==
  LET text == Processed
  IN [n \in DOMAIN GetSyntaxFor(lang) |->
        {i \in from..Len(text) : \E parts \in GetSyntaxFor(lang)[n] : Matches(parts, text, i)}]

Found(starts) == {n \in DOMAIN starts : starts[n] # {}}

(* A mutant of Best: the first rule that matches anywhere.                 *)
BestInOrder(starts) ==
  LET rule == Min(Found(starts)) IN [rule |-> rule, start |-> Min(starts[rule])]

(* The leftmost match, and of those that start there the first rule's.     *)
Best(starts) ==
  LET start == Min(UNION Range(starts))
  IN [rule |-> Min({n \in Found(starts) : start \in starts[n]}), start |-> start]

(* best_match.format: what the rule puts for a match.                      *)
Formatted(parts, i) ==
  LET text(n) == SubSeq(Processed, End(parts, n - 1, Processed, i),
                        End(parts, n, Processed, i) - 1)
      put(n) == CASE parts[n].put = "group" ->
                       <<Marks[parts[n].mark][1]>> \o text(n) \o <<Marks[parts[n].mark][2]>>
                  [] parts[n].put = "text" -> text(n)
                  [] parts[n].put = "blank" -> <<" ">>
                  [] parts[n].put = "nothing" -> <<>>
  IN FlattenSeq([n \in DOMAIN parts |-> put(n)])

(* Mutant: no step over a match of nothing.                                *)
AdvancedAsMatched(from, final) == final

(* Where the scan goes on behind a match that ends at final.               *)
Advanced(from, final) == IF final = from THEN from + 1 ELSE final

Scanning == pc = "scan" /\ pos <= Len(Processed)

Highlight ==
  /\ Scanning
  /\ LET starts == Starts(pos)
         best == Best(starts)
         parts == CHOOSE p \in GetSyntaxFor(lang)[best.rule] : Matches(p, Processed, best.start)
     IN /\ Found(starts) # {}
        /\ result' = result \o SubSeq(Processed, pos, best.start - 1)
                            \o Formatted(parts, best.start)
        /\ pos' = Advanced(pos, Final(parts, Processed, best.start))
  /\ UNCHANGED <<lang, code, pc, link, copied>>

AppendRest ==
  /\ Scanning
  /\ Found(Starts(pos)) = {}
  /\ result' = result \o SubSeq(Processed, pos, Len(Processed))
  /\ pc' = "format"
  /\ UNCHANGED <<lang, code, pos, link, copied>>

EndScan ==
  /\ pc = "scan"
  /\ pos > Len(Processed)
  /\ pc' = "format"
  /\ UNCHANGED <<lang, code, pos, result, link, copied>>
-----------------------------------------------------------------------------
(* Escaping, layout, tags.  A tag is "<" and the rest of it, an entity "&" *)
(* and the rest of it.                                                     *)

Replaced(text, S, by) ==
  FlattenSeq([i \in DOMAIN text |-> IF text[i] \in S THEN by ELSE <<text[i]>>])

(* A mutant of Escaped: the ampersand last.                                *)
EscapedLate(text) ==
  Replaced(Replaced(Replaced(text, {"<"}, <<"&", "lt;">>), {">"}, <<"&", "gt;">>),
           {"&"}, <<"&", "amp;">>)

Escaped(text) ==
  Replaced(Replaced(Replaced(text, {"&"}, <<"&", "amp;">>), {"<"}, <<"&", "lt;">>),
           {">"}, <<"&", "gt;">>)

Nbsp == <<"&", "nbsp;">>

(* Pairs of blanks, from the left.                                         *)
Spaced(text) ==
  LET from[i \in 1..Len(text) + 1] ==
        IF i > Len(text) THEN <<>>
        ELSE IF i < Len(text) /\ text[i] = " " /\ text[i + 1] = " "
             THEN Nbsp \o Nbsp \o from[i + 2]
             ELSE <<text[i]>> \o from[i + 1]
  IN from[1]

LaidOut(text) ==
  Spaced(Replaced(Replaced(text, {"\n"}, <<"<", "br>">>), {"\t"}, Nbsp \o Nbsp \o Nbsp \o Nbsp))

Tagged(text) ==
  Replaced(Replaced(text, {Marks[m][1] : m \in DOMAIN Marks}, <<"<", "font>">>),
           {Marks[m][2] : m \in DOMAIN Marks}, <<"<", "/font>">>)

Format ==
  /\ pc = "format"
  /\ result' = Tagged(LaidOut(Escaped(result)))
  /\ pc' = "encode"
  /\ UNCHANGED <<lang, code, pos, link, copied>>
-----------------------------------------------------------------------------
(* The links.                                                              *)

HexDigits == <<"0", "1", "2", "3", "4", "5", "6", "7", "8", "9", "A", "B", "C", "D", "E", "F">>

CharsOf(text) == FlattenSeq([i \in DOMAIN text |-> Chars[text[i]]])

(* A mutant of Payload: what is shown rather than the code.                *)
PayloadProcessed(text) ==
  LET digits(char) == <<HexDigits[((char % 256) \div 16) + 1], HexDigits[(char % 16) + 1]>>
      chars == CharsOf(Processed)
  IN FlattenSeq([i \in DOMAIN chars |-> digits(chars[i])])

(* Each character as an unsigned byte, its higher half first.              *)
Payload(text) ==
  LET digits(char) == <<HexDigits[((char % 256) \div 16) + 1], HexDigits[(char % 16) + 1]>>
      chars == CharsOf(text)
  IN FlattenSeq([i \in DOMAIN chars |-> digits(chars[i])])

GetHexValue(digit) == (CHOOSE n \in DOMAIN HexDigits : HexDigits[n] = digit) - 1

DecodeHexPayload(payload) ==
  [i \in 1..Len(payload) \div 2 |->
     LET byte == GetHexValue(payload[2 * i - 1]) * 16 + GetHexValue(payload[2 * i])
     IN IF byte > 127 THEN byte - 256 ELSE byte]

Encode ==
  /\ pc = "encode"
  /\ link' = Payload(code)
  /\ pc' = "shown"
  /\ UNCHANGED <<lang, code, pos, result, copied>>

(* The user copies or saves the block.                                     *)
TakeCode ==
  /\ pc = "shown"
  /\ copied' = DecodeHexPayload(link)
  /\ pc' = "taken"
  /\ UNCHANGED <<lang, code, pos, result, link>>
-----------------------------------------------------------------------------
DecorateCodeBlock(l, c) ==
  /\ lang = l
  /\ code = c
  /\ pc = IF GetSyntaxFor(l) = <<>> THEN "format" ELSE "scan"
  /\ pos = 1
  /\ result = IF GetSyntaxFor(l) = <<>> THEN Processed ELSE <<>>
  /\ link = <<>>
  /\ copied = <<>>

Init == \E l \in DOMAIN Codes : \E c \in Codes[l] : DecorateCodeBlock(l, c)

Next == Highlight \/ AppendRest \/ EndScan \/ Format \/ Encode \/ TakeCode

Spec == Init /\ [][Next]_vars
-----------------------------------------------------------------------------
(* Each turn of the scan leaves it further on in the code, and never past  *)
(* its end by more than one place, for every code and every grammar, one   *)
(* whose patterns match nothing included: no block keeps the window busy   *)
(* for ever (pipeline.cpp:498).                                            *)
ScanAdvances ==
  [][pc = "scan" /\ pc' = "scan" => pos' \in pos + 1..Len(Processed) + 1]_vars

(* What an HTML window shows of a text: entities read back, tags dropped   *)
(* except the end of a line.                                               *)
Entities == [x \in {"amp;", "lt;", "gt;", "nbsp;"} |->
               CASE x = "amp;" -> "&" [] x = "lt;" -> "<" [] x = "gt;" -> ">" [] x = "nbsp;" -> " "]

Seen(text) ==
  LET from[i \in 1..Len(text) + 2] ==
        IF i > Len(text) THEN <<>>
        ELSE IF text[i] = "<" /\ i < Len(text)
        THEN (IF text[i + 1] = "br>" THEN <<"\n">> ELSE <<>>) \o from[i + 2]
        ELSE IF text[i] = "&" /\ i < Len(text) /\ text[i + 1] \in DOMAIN Entities
        THEN <<Entities[text[i + 1]]>> \o from[i + 2]
        ELSE <<text[i]>> \o from[i + 1]
  IN from[1]

(* A grammar may drop white space, line ends too, before a bracket or      *)
(* between class and its name; without a grammar only the width of blanks  *)
(* may change.                                                             *)
Visible(text) ==
  SelectSeq(text, LAMBDA a : a \notin IF GetSyntaxFor(lang) = <<>> THEN White \ {"\n"} ELSE White)

Decorated == pc \in {"encode", "shown", "taken"}

(* The window shows the code and nothing but the code, apart from white    *)
(* space: nothing between two matches, in a match or behind the last is    *)
(* lost or repeated, and the page's own characters are escaped once        *)
(* (pipeline.cpp:495-509).  HTML blocks are excepted: nothing of them is   *)
(* shown, since each match of their first pattern is stepped over.         *)
ShownIsCode == Decorated /\ lang # "html" => Visible(Seen(result)) = Visible(code)

(* Where a reader of the code who knows only its strings and comments      *)
(* stands after each atom, literal by literal: the places that are not     *)
(* inside a string or a comment.                                           *)
Literals(l) ==
  CASE l \in {"cpp", "c++", "c", "rust", "rs"} -> <<Quoted("string", {"\""}), Comments>>
    [] l \in {"python", "py"} -> <<Tripled, Quoted("string", {"\"", "'"}), LineComment(<<"#">>)>>
    [] l = "css" -> <<Quoted("string", {"\"", "'"}), BlockComment>>
    [] l \in {"javascript", "typescript", "js", "ts"} ->
         <<Quoted("string", {"\"", "'", "backtick"}), Comments>>
    [] l = "php" -> <<Quoted("string", {"\"", "'"}), Comments \cup LineComment(<<"#">>)>>
    [] l \in {"java", "kotlin", "kt"} -> <<Quoted("string", {"\"", "'"}), Comments>>
    [] OTHER -> <<>>

OutsideLiterals ==
  LET text == Processed
      next(i) ==
        LET fits == {n \in DOMAIN Literals(lang) :
                       \E p \in Literals(lang)[n] : Matches(p, text, i)}
            parts == CHOOSE p \in Literals(lang)[Min(fits)] : Matches(p, text, i)
        IN IF fits = {} THEN i + 1 ELSE Final(parts, text, i)
      reached[n \in 0..Len(text)] ==
        IF n = 0 THEN {1}
        ELSE LET places == reached[n - 1]
             IN places \cup {next(i) : i \in places \cap DOMAIN text}
  IN reached[Len(text)]

(* The scan never stands inside a string or a comment, so that no rule     *)
(* colours a part of one: a quote in a comment opens no string, a comment  *)
(* sign in a string opens no comment, whatever the order of the rules      *)
(* (pipeline.cpp:466-488).  HTML, whose first pattern matches everywhere,  *)
(* is excepted.                                                            *)
LiteralsWhole == lang # "html" => pos \in OutsideLiterals

(* What is copied or saved is the code, byte by byte: the carriage returns *)
(* that the window drops, and bytes above 127 that are negative characters *)
(* (pipeline.cpp:548-554, chat_panel.cpp:52-78).                           *)
TakenIsCode == pc = "taken" => copied = CharsOf(code)
=============================================================================
