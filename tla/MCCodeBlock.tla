---------------------------- MODULE MCCodeBlock ----------------------------
(***************************************************************************)
(* Small blocks of code for CodeBlock: for each language every text of up  *)
(* to Length atoms over the atoms its rules speak of, and texts written    *)
(* out for the rules that need more atoms than that.                       *)
(***************************************************************************)
EXTENDS CodeBlock

CONSTANTS Length, Languages

MCWords == {"class", "def", "include", "if", "name"}

MCCharacters ==
  {"<", ">", "&", " ", "\t", "\n", "\r", "\"", "'", "backtick", "/", "*", "(", ")", "{", "#", "@", "$",
   ".", ":", "=", "!", "eacute"}

MCKeywords ==
  [l \in {"cpp", "python", "javascript", "java", "php", "rust", "kotlin"} |->
     CASE l = "cpp" -> {"if"} [] l = "rust" -> {"if"}
       [] l = "python" -> {"class", "def", "if"} [] OTHER -> {"class", "if"}]

(* Only one atom is more than ASCII, and only its bytes are told apart.    *)
MCChars ==
  [a \in MCWords \cup MCCharacters |->
     CASE a = "eacute" -> <<-61, -87>> [] a = "\r" -> <<13>> [] a = "\n" -> <<10>>
       [] a = "if" -> <<105, 102>> [] OTHER -> <<127>>]

MCAlphabet(l) ==
  CASE l = "cpp" -> {"\"", "/", "*", "\n", "<", "if", "name", "(", " "}
    [] l = "python" -> {"\"", "'", "#", "\n", "def", "name", "(", "@"}
    [] l = "css" -> {"\"", "/", "*", "name", ":", ".", "#", " "}
    [] l = "html" -> {"<", "/", "name", "=", "\""}
    [] l = "javascript" -> {"\"", "backtick", "/", "\n", "if", "name", "(", "&"}
    [] l = "java" -> {"'", "/", "*", "\n", "@", "name", "("}
    [] l = "php" -> {"'", "/", "#", "\n", "$", "name", "("}
    [] l = "rust" -> {"\"", "/", "*", "if", "name", "!", "("}
    [] l = "kotlin" -> {"'", "\"", "/", "\n", "if", "("}
    [] OTHER -> {"<", "&", ">", "\t", " ", "\n", "\r", "eacute"}

MCWritten(l) ==
  CASE l = "cpp" ->
         {<<"#", "include", " ", "<", "name", ">", "\n", "#", " ", "if">>,
          <<"#", "include", "\t", "\"", "name", "\"">>,
          <<"name", ":", ":", "name", "\n", "(", "name", ":", ":", "if", ")">>,
          <<"class", "\n", "name", "{", "\"", "/", "/", "\"", "/", "/", "\"", "\n", "eacute", "\r">>,
          <<"/", "*", "\"", "*", "/", "\"", "*", "/", "\"", "&", "name">>}
    [] l = "python" ->
         {<<"\"", "\"", "\"", "'", "\n", "#", "\"", "\"", "\"", "'", "#", "'">>,
          <<"class", "\t", " ", "name", "(", ")", ":", "\r", "\n", "#", "'">>,
          <<"'", "'", "'", "\"", "'", "'", "'", "\"", "'", "\"">>}
    [] l = "html" -> {<<"<", "name", " ", "class", "=", "\"", "eacute", "\"", ">">>}
    [] OTHER -> {<<"name", " ", " ", " ", "(", "&", "\t", "<", ">", "eacute", "\r", "\n", "'">>}

(* A word is a run of letters, so no two of them stand side by side.       *)
MCWhole(text) ==
  \A i \in 1..Len(text) - 1 : ~({text[i], text[i + 1]} \subseteq MCWords)

MCCodes ==
  [l \in Languages |->
     {c \in UNION {[1..n -> MCAlphabet(l)] : n \in 0..Length} : MCWhole(c)} \cup MCWritten(l)]
=============================================================================
