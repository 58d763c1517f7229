------------------------------ MODULE FrontEnd ------------------------------
(***************************************************************************)
(* The front end of xscript.cpp: a scanner whose mode its user may change  *)
(* before every token, and parser/syntax.cpp, the cache of parsed          *)
(* packages, over a file that may be edited between two loads.             *)
(*                                                                         *)
(* A file is its text and, known to nobody but the properties, the lexemes *)
(* it was written from, whether there are spaces between them (tight), the *)
(* comment in it (remark) and the number of the lexeme it stands behind.   *)
(***************************************************************************)
EXTENDS Scanner
LOCAL INSTANCE Integers
LOCAL INSTANCE Sequences
LOCAL INSTANCE FiniteSetsExt
G == INSTANCE Grammar

CONSTANTS Parser(_), \* what ast::parse leaves of the parser of a text, Parse(Ast(text)) of module Statements
          Texts,  \* what the scanner is tried on
          Files,  \* what there is to load
          Drafts  \* the files that are edited into each other

NoFile == [text |-> "", lexemes |-> <<>>, tight |-> FALSE, remark |-> "", behind |-> -1]
NoPackage == [file |-> NoFile, kids |-> <<>>, whole |-> FALSE]

VARIABLES scan,     \* the scanner
          file,     \* the source file, NoFile when it cannot be opened
          package,  \* what packages holds under its path: the children of the root, whether parse() returned
          loaded    \* what happened to the last call of load: "true", "false", "thrown"; "none" before it

vars == <<scan, file, package, loaded>>

Init ==
  /\ package = NoPackage
  /\ loaded = "none"
  /\ \/ file = NoFile /\ scan \in {Scan(t) : t \in Texts}
     \/ file \in Files /\ scan = Scan("")

TakeToken ==
  /\ scan.source # "" /\ ~scan.thrown /\ scan.type # "TK_EOF"
  /\ \E m \in {0, 1} : scan' = ScanNext(SetMode(scan, m))
  /\ UNCHANGED <<file, package, loaded>>

\* syntax::load, with what the cache holds when it starts.  An exception leaves the package behind.
LoadInto(held) ==
  LET p == Parser(file.text) IN
  CASE held # NoPackage -> package' = held /\ loaded' = "true"
    [] held = NoPackage /\ file = NoFile -> package' = held /\ loaded' = "false"
    [] held = NoPackage /\ file # NoFile /\ p.ok ->
         package' = [file |-> file, kids |-> p.kids, whole |-> TRUE] /\ loaded' = "true"
    [] held = NoPackage /\ file # NoFile /\ p.thrown = "out_of_range" ->
         package' = [file |-> file, kids |-> p.kids, whole |-> FALSE] /\ loaded' = "thrown"
    [] OTHER -> package' = NoPackage /\ loaded' = "false"

\* main calls nothing more after an exception.
Loading == scan.source = "" /\ loaded # "thrown"
Load == Loading /\ LoadInto(package) /\ UNCHANGED <<scan, file>>
Reload == Loading /\ LoadInto(NoPackage) /\ UNCHANGED <<scan, file>>

Edit ==
  /\ Loading /\ file \in Drafts
  /\ file' \in Drafts \ {file}
  /\ loaded' = "none"
  /\ UNCHANGED <<scan, package>>

Next == TakeToken \/ Load \/ Reload \/ Edit
Spec == Init /\ [][Next]_vars

(***************************************************************************)
(* The scanner                                                             *)
(***************************************************************************)
\* The last token begins with k characters like these.
Rest(k) == SubSeq(scan.source, scan.milestone + 1, scan.milestone + k)
Left == Length(scan) - scan.milestone

\* step_to_eot goes on for the ellipsis after the first point and keeps both points as one.
TwoPoints == scan.literal = ".." /\ scan.type = "." /\ scan.mode = 0
\* step_to_eos: a literal that is never closed takes the whole text.
NeverClosed ==
  /\ Rest(1) \in {"\"", "'"} /\ \A k \in 1..Left : ~G!IsQuoted(Rest(k))
  /\ scan.literal = Rest(Left) /\ scan.type = IF Rest(1) = "'" THEN "TK_LITERAL_CHAR" ELSE "TK_LITERAL_STRING"
\* step_to_eon looks behind the zero that is the last character.
LastZero == scan.thrown /\ Left = 1 /\ Rest(1) = "0"

\* Every token is the longest lexeme the text goes on with - in mode 1, which the parser uses for the
\* brackets of types, the shortest operator - and the next one begins where it ends: no character is
\* lost, none is read twice, and the type is that of the spelling (scanner::next).  The exceptions are
\* the three above, and a character no lexeme begins with, which is a token by itself.
TokensAreLongest ==
  (scan.source # "" /\ (scan.literal # "" \/ scan.thrown)) =>
    LET lexemes == {k \in 1..Left : G!IsLexeme(Rest(k))}
        operators == {k \in lexemes : Rest(k) \in tokens}
        size == CASE scan.mode = 1 /\ operators # {} -> Min(operators)
                  [] ~(scan.mode = 1 /\ operators # {}) /\ lexemes # {} -> Max(lexemes)
                  [] OTHER -> 1
    IN \/ TwoPoints \/ NeverClosed \/ LastZero
       \/ /\ ~scan.thrown
          /\ scan.literal = Rest(size) /\ scan.offset = scan.milestone + size
          /\ scan.type = G!KindOf(Rest(size))

(***************************************************************************)
(* The parser and the cache                                                *)
(***************************************************************************)
Follows(l, one, other) == \E i \in 1..(Len(l) - 1) : l[i] \in one /\ l[i + 1] \in other
Has(l, words) == \E i \in DOMAIN l : l[i] \in words
Labels == {"case", "default"}
InType(l, i, j) == \A k \in i..j : l[k] \in {"<", ">", ","} \/ G!KindOf(l[k]) \in {"int", "float", "bool", "string", "array", "map", "TK_IDENTIFIER"}

\* ast.cpp:926: a token is stepped over between the type and the semicolon of a type declaration.
StepsOverAToken(l) == Has(l, {"type"})
\* ast.cpp:951, 1001, 1044: there need not be a condition.
EmptyCondition(l) == \E i \in 1..(Len(l) - 2) : l[i] \in {"if", "while"} /\ l[i + 1] = "(" /\ l[i + 2] = ")"
\* ast.cpp:800: the parameters may end with a comma.
TrailingComma(l) == Follows(l, {","}, {")"})
\* ast.cpp:1231-1244: blocks and statements take turns under a label.
MixedLabel(l) == Has(l, Labels) /\ (Follows(l, {";", "}"}, {"{"}) \/ Follows(l, {"}"}, {";", "a"}))

\* ast.cpp:1361-1372: no statement begins with a literal, a list or another operator than ++, -- and co.
OddStatement(l) ==
  \E i \in 1..(Len(l) - 1) :
    l[i] \in {"{", "}", ";", ":"} /\ G!KindOf(l[i + 1]) \in G!Literals \cup {"!", "~", "-", "typeof", "[", "{"}
\* ast.cpp:973, 1240: else if returns the opposite of its success, and a label believes it.
ElseIfInLabel(l) == Has(l, Labels) /\ Follows(l, {"else"}, {"if"})
\* ast.cpp:425: a type in brackets that is closed inside another puts the mode back to 0, and two closing
\* brackets of the outer ones are read as one operator.
LosesTheMode(f) ==
  LET l == f.lexemes IN
  f.tight /\ \E i \in DOMAIN l : \E j \in (i + 2)..(Len(l) - 1) :
    /\ l[i] = ">" /\ l[j] = ">" /\ l[j + 1] \in {">", "="}
    /\ InType(l, i, j) /\ \A k \in i..j : l[k] \notin {"array", "map"}
\* ast.cpp:398-425: in mode 1 no comment begins, up to the token after the closing bracket.
CommentInType(f) ==
  \E i \in 1..f.behind : f.lexemes[i] \in {"array", "map"} /\ InType(f.lexemes, i, f.behind)
\* ast.cpp:45, 54: what is in a comment is cut into tokens, and a literal or a longer operator swallows its end.
TokensInComment(f) ==
  LET part(i, n) == SubSeq(f.remark, i, Min({i + n - 1, Len(f.remark)})) IN
  \E i \in 1..Len(f.remark) : \/ part(i, 1) \in {"'", "\""}
                              \/ i > 2 /\ part(i, 3) = "/*/"

Admits(f) == LET l == f.lexemes IN StepsOverAToken(l) \/ EmptyCondition(l) \/ TrailingComma(l) \/ MixedLabel(l)
Refuses(f) ==
  LET l == f.lexemes IN
  \/ StepsOverAToken(l) \/ OddStatement(l) \/ ElseIfInLabel(l)
  \/ LosesTheMode(f) \/ CommentInType(f) \/ TokensInComment(f)

\* The lexemes of e in package p ; var x = e ; and nothing else.
Initializer(l) == SubSeq(l, 7, Len(l) - 1)
IsInitializer(l) ==
  /\ Len(l) > 7 /\ SubSeq(l, 1, 6) = <<"package", "p", ";", "var", "x", "=">>
  /\ ~Has(Initializer(l), {";", ",", "{"})

\* The file that was loaded is in the cache if and only if it is a sentence of the grammar in the comments
\* of ast.cpp, but for the differences named above, each with its lines; an expression has the tree that
\* the documented precedence and associativity give it (docs/README.md:262-288); only a zero at the end
\* of the text makes load() throw, which leaves the package in the cache half parsed (syntax.cpp:27).
\* What is cached stays what it was when the file is edited, until reload().
ParsesTheGrammar ==
  /\ package.whole =>
       LET l == package.file.lexemes IN
       /\ G!IsSentence(l) \/ Admits(package.file)
       /\ IsInitializer(l) => package.kids[2].kids[2].kids = <<G!ExpressionTree(Initializer(l))>>
  /\ loaded = "false" /\ file # NoFile => ~G!IsSentence(file.lexemes) \/ Refuses(file)
  /\ loaded = "thrown" => package # NoPackage /\ ~package.whole /\ file.lexemes[Len(file.lexemes)] = "0"
  /\ loaded = "false" => package = NoPackage
=============================================================================
