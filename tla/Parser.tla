------------------------------- MODULE Parser -------------------------------
(***************************************************************************)
(* parser/ast.cpp: recursive descent over the scanner's tokens.  A parser  *)
(* is a record: its scanner, the current token (cur, its spelling in       *)
(* literal), the number of errors, the exception under way in thrown, the  *)
(* children of the node under construction in kids, and in ok what the     *)
(* last function called returned.  An exception leaves every function:     *)
(* nothing changes a parser that has thrown.                               *)
(***************************************************************************)
EXTENDS Scanner
LOCAL INSTANCE Integers
LOCAL INSTANCE Sequences

MaxErrors == 9

Node(kind, text, kids) == [kind |-> kind, text |-> text, kids |-> kids]

\* if (!f()) return false;
Then(p, F(_)) == IF p.ok THEN F(p) ELSE p
\* The value returned is not looked at.
Anyway(p) == [p EXCEPT !.ok = p.thrown = ""]

(***************************************************************************)
(* Tokens                                                                  *)
(***************************************************************************)
\* The loops of next() that skip a comment.
RECURSIVE SkipTo(_, _)
SkipTo(s, types) == IF s.thrown \/ s.type \in types \cup {"TK_EOF"} THEN s ELSE SkipTo(ScanNext(s), types)

RECURSIVE NextOf(_)
NextOf(s) ==
  LET t == ScanNext(s) IN
  IF t.thrown THEN t
  ELSE CASE t.type \in {" ", "\t"} \cup EndsOfLine -> NextOf(t)
         [] t.type = "//" -> NextOf(SkipTo(t, EndsOfLine))
         [] t.type = "/*" -> NextOf(SkipTo(t, {"*/"}))
         [] OTHER -> t

NextToken(p) ==
  IF p.thrown # "" THEN p
  ELSE LET s == NextOf(p.scan) IN
       IF s.thrown THEN [p EXCEPT !.scan = s, !.thrown = "out_of_range", !.ok = FALSE]
       ELSE [p EXCEPT !.scan = s, !.cur = s.type, !.literal = s.literal]

Mode(p, m) == IF p.thrown # "" THEN p ELSE [p EXCEPT !.scan = SetMode(p.scan, m)]

SyntaxError(p) ==
  IF p.thrown # "" THEN p
  ELSE [p EXCEPT !.errors = @ + 1, !.ok = FALSE, !.thrown = IF p.errors >= MaxErrors THEN "to many errors" ELSE ""]

RECURSIVE SkipTokens(_, _)
SkipTokens(p, types) ==
  IF p.thrown # "" \/ p.cur \in types \cup {"TK_EOF"} THEN p ELSE SkipTokens(NextToken(p), types)

\* process_failover: skip to one of the types, and over it.
Failbefore(p, types) == [SkipTokens(p, types) EXCEPT !.ok = FALSE]
Failover(p, types) ==
  LET q == Failbefore(p, types) IN IF q.cur = "TK_EOF" THEN q ELSE [NextToken(q) EXCEPT !.ok = FALSE]
Unrecognized(p) == Failover(SyntaxError(p), {";"})

\* if (cur_token != type) return syntax_error(...); next();
Need(p, type) == IF p.cur = type THEN NextToken(p) ELSE SyntaxError(p)
\* The same with return failover(...).
Start(p, type) == IF p.cur = type THEN NextToken(p) ELSE Unrecognized(p)
\* The same without return: the token is stepped over only when it is the one wanted ...
Want(p, type) == Anyway(Need(p, type))
\* ... or in any case.
WantAny(p, type) == NextToken(IF p.cur = type THEN p ELSE Anyway(SyntaxError(p)))
\* if (!f()) failbefore(...);
Tolerant(p, types) == IF p.ok THEN p ELSE Anyway(Failbefore(Anyway(p), types))

(***************************************************************************)
(* Nodes: add_child, replace_child and what is added to the new node       *)
(***************************************************************************)
Under(p, kids, kind, F(_)) ==
  LET q == F([p EXCEPT !.kids = kids]) IN [q EXCEPT !.kids = <<Node(kind, "", q.kids)>>]
In(kind, p, F(_)) ==
  IF p.thrown # "" THEN p ELSE LET q == Under(p, <<>>, kind, F) IN [q EXCEPT !.kids = p.kids \o @]
Replace(kind, p, F(_)) ==
  LET n == Len(p.kids)
      q == Under(p, SubSeq(p.kids, n, n), kind, F)
  IN [q EXCEPT !.kids = SubSeq(p.kids, 1, n - 1) \o @]
\* parse_token.
ParseToken(p) ==
  IF p.thrown # "" THEN p ELSE NextToken([p EXCEPT !.kids = Append(@, Node("TOKEN", p.literal, <<>>))])
Identifier(p) == IF p.cur = "TK_IDENTIFIER" THEN ParseToken(p) ELSE Unrecognized(p)

(***************************************************************************)
(* Expressions                                                             *)
(***************************************************************************)
AssignmentOperators == {"=", "+=", "-=", "*=", "/=", "%=", "&=", "|=", "^=", "<<=", ">>="}
RightAssociative == {"&&", "||"} \cup AssignmentOperators
UnaryOperators == {"!", "~", "-", "++", "--", "co", "typeof"}
Basics == {"TK_LITERAL_LONG", "TK_LITERAL_DOUBLE", "TK_LITERAL_STRING", "TK_LITERAL_CHAR", "true", "false",
           "null", "TK_IDENTIFIER"}

operator_precedence(t) ==
  CASE t \in {"(", "["} -> 0
    [] t \in {".", "->"} -> 1
    [] t \in {"*", "/", "%"} -> 3
    [] t \in {"+", "-"} -> 4
    [] t \in {"<<", ">>"} -> 5
    [] t \in {">", "<", ">=", "<="} -> 6
    [] t \in {"==", "!="} -> 7
    [] t = "&" -> 8
    [] t = "^" -> 9
    [] t = "|" -> 10
    [] t = "&&" -> 11
    [] t = "||" -> 12
    [] t \in AssignmentOperators -> 14
    [] OTHER -> -1

\* Whether an operator takes the operand before it away from one of this precedence, if it
\* forgets that an operator of the same precedence on the left comes first.
Bug_associates_to_the_right(t, precedence) ==
  LET mine == operator_precedence(t) IN mine >= 0 /\ mine <= precedence

Continues(t, precedence) ==
  LET mine == operator_precedence(t) IN
  mine >= 0 /\ IF t \in RightAssociative THEN mine <= precedence ELSE mine < precedence

RECURSIVE Expression(_, _)
RECURSIVE Operations(_, _)
RECURSIVE ListRest(_, _, _)

\* The rest of a list literal: one element, then one after each comma.
ListRest(p, Element(_), close) ==
  LET q == Tolerant(Element(p), {",", close}) IN
  IF q.cur = "," /\ q.ok THEN ListRest(NextToken(q), Element, close) ELSE q

\* parse_array_literal and parse_object_literal.
ListLiteral(kind, open, close, p, Element(_)) ==
  In(kind, p, LAMBDA n :
    Then(Need(n, open), LAMBDA q : Need(IF q.cur = close THEN q ELSE ListRest(q, Element, close), close)))

KeyValuePair(p) == In("KEY_VALUE_PAIR", p, LAMBDA n : Expression(WantAny(WantAny(n, "string"), ":"), 15))

ArrayLiteral(p) == ListLiteral("LITERAL_ARRAY_EXPRESSION", "[", "]", p, LAMBDA n : Expression(n, 15))
ObjectLiteral(p) == ListLiteral("LITERAL_OBJECT_EXPRESSION", "{", "}", p, KeyValuePair)

BasicExpression(p) ==
  CASE p.cur \in Basics -> ParseToken(p)
    [] p.cur = "[" -> ArrayLiteral(p)
    [] p.cur = "{" -> ObjectLiteral(p)
    [] p.cur = "(" -> Then(Expression(NextToken(p), 15), LAMBDA q : Need(q, ")"))
    [] OTHER -> SyntaxError(p)

RECURSIVE Arguments(_)
Arguments(p) ==
  IF p.cur # "," \/ ~p.ok THEN p
  ELSE LET q == Expression(NextToken(p), 15) IN
       IF q.ok THEN Arguments(q) ELSE Failbefore(Anyway(q), {")"})

FunctionCallParameter(p) ==
  In("FUNCTION_CALL_PARAMETER", p, LAMBDA n : IF n.cur = ")" THEN n ELSE Then(Expression(n, 15), Arguments))

RightOperand(p, op) ==
  CASE op = "(" -> Then(FunctionCallParameter(p), LAMBDA q : Want(q, ")"))
    [] op = "[" -> Then(IF p.cur = "]" THEN p ELSE Expression(p, 15), LAMBDA q : Want(q, "]"))
    [] OTHER -> Expression(p, operator_precedence(op))

\* The loop of parse_expression.
Operations(p, precedence) ==
  IF ~p.ok \/ ~Continues(p.cur, precedence) THEN p
  ELSE Operations(Replace("BINARY_EXPRESSION", p, LAMBDA n : RightOperand(ParseToken(n), p.cur)), precedence)

Expression(p, precedence) ==
  IF p.thrown # "" THEN p
  ELSE
  LET operand == IF p.cur \in UnaryOperators
                 THEN In("UNARY_EXPRESSION", p, LAMBDA n : Expression(ParseToken(n), 2))
                 ELSE BasicExpression(p)
  IN Operations(operand, precedence)

(***************************************************************************)
(* Declarations                                                            *)
(***************************************************************************)
TypeStarts == {"int", "float", "bool", "string", "TK_IDENTIFIER", "array", "map"}

RECURSIVE TypeDeclarator(_)
RECURSIVE TypeArguments(_)

TypeArguments(p) ==
  LET q == TypeDeclarator(p) IN IF q.ok /\ q.cur = "," THEN TypeArguments(NextToken(q)) ELSE Anyway(q)

\* In mode 1 from the word array or map to the token after the closing bracket, when no type
\* inside has put the mode back.
TypeDeclarator(p) ==
  In("TYPE_DECLARATOR", p, LAMBDA n :
    CASE n.cur \in TypeStarts \ {"array", "map"} -> ParseToken(n)
      [] n.cur \in {"array", "map"} ->
           Mode(Want(TypeArguments(Want(ParseToken(Mode(n, 1)), "<")), ">"), 0)
      [] OTHER -> SyntaxError(n))

OptionalType(p) == IF p.cur \in TypeStarts THEN TypeDeclarator(p) ELSE p
VariableInitializer(p) == In("VARIABLE_INITIALIZER", p, LAMBDA n : Then(Start(n, "="), LAMBDA q : Expression(q, 15)))
OptionalInitializer(p) == IF p.cur = "=" THEN VariableInitializer(p) ELSE p

\* parse_variable_declarator and the same part of parse_constant_declaration.
Declarator(kind, word, p, F(_)) ==
  In(kind, p, LAMBDA n :
    Then(Then(Then(Then(Start(n, word), Identifier), OptionalType), OptionalInitializer), F))
VariableDeclarator(p) == Declarator("VARIABLE_DECLARATION", "var", p, LAMBDA q : q)
VariableDeclaration(p) == Then(VariableDeclarator(p), LAMBDA q : Need(q, ";"))
ConstantDeclaration(p) == Declarator("CONSTANT_DECLARATION", "const", p, LAMBDA q : Need(q, ";"))

RECURSIVE NameRest(_)
NameRest(p) == IF p.cur = "." /\ p.ok THEN NameRest(Identifier(NextToken(p))) ELSE p
PackageName(p) == In("PACKAGE_NAME", p, LAMBDA n : Then(Identifier(n), NameRest))

PackageDeclaration(p) ==
  In("PACKAGE_DECLARATION", p, LAMBDA n :
    Then(Then(Start(n, "package"), PackageName), LAMBDA q : Need(q, ";")))

PackageRename(p) == In("PACKAGE_RENAME", p, LAMBDA n : Then(Start(n, "as"), Identifier))
ImportDeclaration(p) ==
  In("IMPORT_DECLARATION", p, LAMBDA n :
    Then(Then(Then(Start(n, "import"), PackageName), LAMBDA q : IF q.cur = "as" THEN PackageRename(q) ELSE q),
         LAMBDA q : Need(q, ";")))

RECURSIVE Imports(_)
Imports(p) == IF p.cur = "import" /\ p.thrown = "" THEN Imports(Anyway(ImportDeclaration(p))) ELSE p

\* The name is not kept, and next() steps over whatever stands behind the type.
TypeDeclaration(p) ==
  In("TYPE_DECLARATION", p, LAMBDA n :
    Then(Then(Start(n, "type"), LAMBDA q : Start(q, "TK_IDENTIFIER")), LAMBDA q :
      LET r == TypeDeclarator(q) IN IF r.ok THEN Need(NextToken(r), ";") ELSE Unrecognized(Anyway(r))))

RECURSIVE Parameters(_)
Parameters(p) ==
  IF p.cur # "var" \/ p.thrown # "" THEN p
  ELSE LET q == VariableDeclarator(p) IN
       CASE ~q.ok -> Parameters(Tolerant(q, {"var", ")"}))
         [] q.ok /\ q.cur = "," -> Parameters(NextToken(q))
         [] OTHER -> q

FunctionDeclParameter(p) ==
  In("FUNCTION_DECL_PARAMETER", p, LAMBDA n :
    LET q == Parameters(WantAny(n, "(")) IN
    CASE q.cur = ")" -> NextToken(q)
      [] q.cur # ")" /\ q.kids = <<>> -> Failover(SyntaxError(q), {")"})
      [] OTHER -> SyntaxError(q))
=============================================================================
