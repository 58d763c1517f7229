------------------------------- MODULE Scanner -------------------------------
(***************************************************************************)
(* tokenizer/scanner.cpp: the source text cut into tokens, one at a time.  *)
(* A text is a string and offsets count its characters from 0, as in the   *)
(* code.  The type of a token of the two tables is its spelling, "<<" for  *)
(* TK_BITWISE_SHL; the other types have the names of the code.  A scanner  *)
(* is a record that holds its last token too; thrown says that             *)
(* source.at() was called beyond the text and std::out_of_range is on its  *)
(* way out.                                                                *)
(***************************************************************************)
LOCAL INSTANCE Integers
LOCAL INSTANCE Sequences
LOCAL INSTANCE FiniteSetsExt

EndsOfLine == {"\r\n", "\n"}

tokens == EndsOfLine \cup
  {"//", "/*", "*/", " ", "\t", "+", "-", "*", "/", "%", "&", "|", "~", "^", "<<", ">>",
   "=", "+=", "-=", "*=", "/=", "%=", "&=", "|=", "^=", "<<=", ">>=", "&&", "||", "!", "++", "--",
   "==", "!=", ">", "<", ">=", "<=", "(", ")", "[", "]", "{", "}", ",", ".", ":", ";", "->", "<-", "..."}

reserved_words ==
  {"var", "const", "int", "float", "bool", "string", "array", "map", "struct", "interface", "func",
   "type", "typeof", "true", "false", "null", "return", "if", "else", "switch", "case", "default",
   "for", "do", "while", "break", "continue", "try", "catch", "throw", "co", "import", "export",
   "package", "as"}

Digits == {"0", "1", "2", "3", "4", "5", "6", "7", "8", "9"}
HexDigits == Digits \cup {"a", "b", "c", "d", "e", "f", "A", "B", "C", "D", "E", "F"}
Letters == {"a", "b", "c", "d", "e", "f", "g", "h", "i", "j", "k", "l", "m", "n", "o", "p", "q", "r", "s",
            "t", "u", "v", "w", "x", "y", "z", "A", "B", "C", "D", "E", "F", "G", "H", "I", "J", "K", "L",
            "M", "N", "O", "P", "Q", "R", "S", "T", "U", "V", "W", "X", "Y", "Z", "_"}

\* The nodes of the trie: every beginning of a spelling.
trie_root == UNION {{SubSeq(t, 1, k) : k \in 1..Len(t)} : t \in tokens}

\* scanner::scanner.
Scan(text) == [source |-> text, offset |-> 0, milestone |-> 0, mode |-> 0, thrown |-> FALSE,
               type |-> "TK_UNKNOWN", literal |-> ""]

Length(s) == Len(s.source)
At(s, i) == SubSeq(s.source, i + 1, i + 1)
Text(s, end) == SubSeq(s.source, s.offset + 1, Min({end, Length(s)}))

\* A token of this type that reaches to end; get_literal cuts what is beyond the text.
Taken(s, type, end) == [s EXCEPT !.type = type, !.literal = Text(s, end), !.milestone = s.offset, !.offset = end]

\* Where a run of such characters ends.
RECURSIVE RunEnd(_, _, _)
RunEnd(s, i, chars) == IF i < Length(s) /\ At(s, i) \in chars THEN RunEnd(s, i + 1, chars) ELSE i

\* step_to_eos, mistaken: a quote after a backslash ends the text.
RECURSIVE Bug_escapes_nothing(_, _, _)
Bug_escapes_nothing(s, i, quote) ==
  IF i >= Length(s) THEN i
  ELSE IF At(s, i) = quote THEN i + 1 ELSE Bug_escapes_nothing(s, i + 1, quote)

\* step_to_eos: the character after a backslash is stepped over unseen, even beyond the text.
RECURSIVE StringEnd(_, _, _)
StringEnd(s, i, quote) ==
  IF i >= Length(s) THEN i
  ELSE CASE At(s, i) = "\\" -> StringEnd(s, i + 2, quote)
         [] At(s, i) = quote -> i + 1
         [] OTHER -> StringEnd(s, i + 1, quote)

\* step_to_eond: digits with at most one point.
Decimal(s) ==
  LET whole == RunEnd(s, s.offset, Digits) IN
  IF whole < Length(s) /\ At(s, whole) = "."
  THEN Taken(s, "TK_LITERAL_DOUBLE", RunEnd(s, whole + 1, Digits))
  ELSE Taken(s, "TK_LITERAL_LONG", whole)

\* step_to_eon: the character after a zero is read whether there is one or not.
Number(s) ==
  LET second == s.offset + 1 IN
  IF At(s, s.offset) # "0" THEN Decimal(s)
  ELSE IF second >= Length(s) THEN [s EXCEPT !.thrown = TRUE, !.milestone = s.offset, !.offset = second + 1]
  ELSE CASE At(s, second) \in {"b", "B"} -> Taken(s, "TK_LITERAL_LONG", RunEnd(s, second + 1, {"0", "1"}))
         [] At(s, second) \in {"x", "X"} -> Taken(s, "TK_LITERAL_LONG", RunEnd(s, second + 1, HexDigits))
         [] OTHER -> Decimal(s)

\* step_to_eoi.
Word(s) ==
  LET end == RunEnd(s, s.offset, Letters \cup Digits) IN
  Taken(s, IF Text(s, end) \in reserved_words THEN Text(s, end) ELSE "TK_IDENTIFIER", end)

\* step_to_eot: down the trie as far as the text goes, which is the end of the token; its type is
\* the last one met on the way.  In mode 1 the first one met is the token.
StepToEot(s) ==
  LET path == {j \in (s.offset + 1)..Min({s.offset + 3, Length(s)}) : Text(s, j) \in trie_root}
      found == {j \in path : Text(s, j) \in tokens}
  IN CASE found # {} /\ s.mode = 1 -> Taken(s, Text(s, Min(found)), Min(found))
       [] found # {} /\ s.mode = 0 -> Taken(s, Text(s, Max(found)), Max(path))
       [] OTHER -> Taken(s, "TK_UNKNOWN", Max(path \cup {s.offset + 1}))

\* scanner::next.
ScanNext(s) ==
  IF s.offset >= Length(s) THEN [s EXCEPT !.type = "TK_EOF", !.literal = ""]
  ELSE LET n == At(s, s.offset) IN
       CASE n = "\"" -> Taken(s, "TK_LITERAL_STRING", StringEnd(s, s.offset + 1, n))
         [] n = "'" -> Taken(s, "TK_LITERAL_CHAR", StringEnd(s, s.offset + 1, n))
         [] n \in Digits -> Number(s)
         [] n \in Letters -> Word(s)
         [] OTHER -> StepToEot(s)

\* scanner::set_mode.
SetMode(s, m) == [s EXCEPT !.mode = m]
=============================================================================
