----------------------------- MODULE MCFrontEnd -----------------------------
EXTENDS Statements, FrontEnd
LOCAL INSTANCE Integers
LOCAL INSTANCE Sequences
LOCAL INSTANCE FiniteSetsExt
LOCAL INSTANCE FiniteSets

Parsed(text) == LET p == Parse(Ast(text)) IN p

(***************************************************************************)
(* Texts for the scanner                                                   *)
(***************************************************************************)
RECURSIVE Strings(_, _)
Strings(chars, n) == IF n = 0 THEN {""} ELSE {c \o t : c \in chars, t \in Strings(chars, n - 1)}

ScannerTexts ==
  (UNION {Strings(chars, 5) : chars \in { {".", "0", "1", "x"}, {"\"", "\\", "a", " "}, {"<", "=", "-", ">"},
                                          {"0", "b", "1", "."}, {"'", "\"", "\\", "\n"} }})
  \cup Strings({"/", "*", "\n", "+", "&", "|"}, 4)
  \cup Strings({".", "0", "a", "\"", "\\", "=", "<", ">", "@", "\r", "\n", "/"}, 3)
  \cup {w \o t : w \in {"if", "i", "var", "_co"}, t \in Strings({"f", "0", ".", "(", " "}, 2)}

(***************************************************************************)
(* Files                                                                   *)
(***************************************************************************)
\* The words of a text with one space between them.
Words(text) ==
  LET n == Len(text)
      at(i) == SubSeq(text, i, i)
      ends == {i \in 1..n : at(i) # " " /\ (i = n \/ at(i + 1) = " ")}
      wordTo(e) == LET starts == {i \in 1..e : \A j \in i..e : at(j) # " "} IN SubSeq(text, Min(starts), e)
      sorted[k \in 1..Cardinality(ends)] == wordTo(CHOOSE e \in ends : Cardinality({d \in ends : d <= e}) = k)
  IN sorted

RECURSIVE Joined(_, _, _)
Gap(l, i, tight) == IF ~tight \/ \A j \in {i, i + 1} : SubSeq(l[j], 1, 1) \in Letters \cup Digits THEN " " ELSE ""
Joined(l, i, tight) == IF i = Len(l) THEN l[i] ELSE l[i] \o Gap(l, i, tight) \o Joined(l, i + 1, tight)

File(l, tight) == [text |-> Joined(l, 1, tight), lexemes |-> l, tight |-> tight, remark |-> "", behind |-> 0]

Commented(l, k, remark) ==
  [text |-> Joined(SubSeq(l, 1, k), 1, FALSE) \o remark \o Joined(SubSeq(l, k + 1, Len(l)), 1, FALSE),
   lexemes |-> l, tight |-> FALSE, remark |-> remark, behind |-> k]

InFunction(text) == Words("package p ; func f ( ) { " \o text \o " }")
InPackage(text) == Words("package p ; " \o text)
Value(text) == InPackage("var x = " \o text \o " ;")

Bodies == {InFunction(t) : t \in {
  "if ( a ) { } else if ( b ) { a ; } else { }",
  "while ( a < 1 ) { continue ; }",
  "do { break ; } while ( a ) ;",
  "for ( var i = 0 ; i < 1 ; i = 1 ) { a ( ) ; }",
  "for ( a ; b ; a ) { }",
  "switch ( a ) { case 1 : a ; default : { } }",
  "switch ( a ) { case 1 : if ( a ) { } else { } a ; b ; }",
  "switch ( a ) { case 1 : if ( a ) { } else if ( b ) { } default : }",
  "try { throw a ; } catch ( var e ) { } catch ( ) { }",
  "return ; return a . b ;",
  "co f ( a , b ) ; ++ a ; ( a ) = 1 ;",
  "var a int = 1 ; const b = a ; a = b = 1 ;",
  "1 ; a ;"} }

Declarations == {InPackage(t) : t \in {
  "import a . b as c ; import d ; var x = 1 ;",
  "func f ( var a int , var b array < int > ) map < string , int > { }",
  "var a ; var b float ; const c t = 1.5 ;",
  "type t int ;",
  "var a = [ 1 , 'c' , [ ] ] ; var b = { string : 1 , string : { } } ;",
  "func f ( ) { { }",
  "func f ( var a , ) { }",
  "var a = 0"} }

TypesWritten == {InPackage("var a " \o t) : t \in {
  "array < array < int > > = 1 ;",
  "array < map < array < int > , int > > ;",
  "map < array < int > , array < int > > = 1 ;",
  "array < array < array < int > > > = 1 ;",
  "array < map < int , array < array < int > > > > ;",
  "array < int > = 1 ;"} }

Drop(l, i) == SubSeq(l, 1, i - 1) \o SubSeq(l, i + 1, Len(l))
Put(l, i, t) == SubSeq(l, 1, i - 1) \o t \o SubSeq(l, i + 1, Len(l))
\* One lexeme left out, written twice, changed with its neighbour, or replaced.
Slips(l) ==
  {Drop(l, i) : i \in DOMAIN l} \cup {Put(l, i, <<l[i], l[i]>>) : i \in DOMAIN l}
  \cup {Put(Drop(l, i + 1), i, <<l[i + 1], l[i]>>) : i \in 1..(Len(l) - 1)}
  \cup {Put(l, i, <<t>>) : i \in 4..Len(l), t \in {";", ")", "}", "a"}}

Operators == {"->", "*", "+", "<<", ">", "==", "&", "^", "|", "&&", "||", "="}
Sums == {Value("a " \o o \o " b " \o q \o " c") : o, q \in Operators}
        \cup {Value("a " \o o \o " b " \o q \o " c " \o r \o " d") : o, q, r \in {".", "-", "&&", "="}}
        \cup {Value("- a " \o o \o " ! b " \o q \o " c") : o, q \in Operators \ {"->"}}
        \cup {Value("a " \o o \o " ( b " \o q \o " c )") : o, q \in {"->", "-", "&&", "="}}
        \cup {Value(v) : v \in {"a ( )", "a ( b ) ( c )", "a [ ]", "a [ b ] [ c ] . d", "a . b ( c ) . d [ 1 ]",
                                "- a . b [ c ]", "co a ( b + c ) * d", "a + b ( c = d ) - ( a )", "- - a * b", "( ( a ) )"}}

Remarks == {" // r\n", " /* r\n 0 **/ ", "/***/", " // don't\n", "/* a/*/"}

Edited == {NoFile, File(Value("a"), FALSE), File(Value("( a"), FALSE), File(Value("0 - b"), TRUE)}

ProgramFiles ==
  Edited
  \cup {File(l, FALSE) : l \in Bodies \cup Declarations \cup TypesWritten \cup Sums}
  \cup {File(l, TRUE) : l \in TypesWritten \cup Bodies \cup Declarations}
  \cup {File(k, FALSE) : k \in UNION {Slips(l) : l \in Bodies \cup Declarations}}
  \cup {Commented(l, k, r) : l \in {InPackage("var a array < int > = b ; const c = 1 ;")}, k \in 1..16, r \in Remarks}
=============================================================================
