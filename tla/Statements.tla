----------------------------- MODULE Statements -----------------------------
(***************************************************************************)
(* parser/ast.cpp: blocks, statements, functions and ast::parse.           *)
(***************************************************************************)
EXTENDS Parser
LOCAL INSTANCE Integers
LOCAL INSTANCE Sequences

predict_expression_statement(p) == p.cur \in {"TK_IDENTIFIER", "++", "--", "(", "co"}
predict_block_statement(p) ==
  \/ p.cur \in {"if", "while", "do", "for", "continue", "break", "switch", "return", "try", "co", "var", "const", "throw"}
  \/ predict_expression_statement(p)

RECURSIVE BlockStatement(_)
RECURSIVE BlockStatements(_)

\* Without a closing brace it asks for statements at the end of the file until the errors are too many.
BlockStatements(p) ==
  CASE p.thrown # "" -> p
    [] p.thrown = "" /\ predict_block_statement(p) -> BlockStatements(Anyway(BlockStatement(p)))
    [] p.thrown = "" /\ ~predict_block_statement(p) /\ p.cur # "}" -> BlockStatements(Anyway(Unrecognized(p)))
    [] OTHER -> p

Block(p) ==
  In("BLOCK", p, LAMBDA n : Then(Then(Need(n, "{"), BlockStatements), LAMBDA q : Need(q, "}")))

\* The parenthesised condition of if, while and do, which may be empty.
Condition(p) ==
  LET q == Want(p, "(") IN Want(IF q.cur = ")" THEN q ELSE Tolerant(Expression(q, 15), {")"}), ")")

\* parse_if_statement: with else if it returns the opposite of what the second one returned.
RECURSIVE IfStatement(_)
Otherwise(p) ==
  IF p.cur = "if"
  THEN LET q == IfStatement(p) IN [q EXCEPT !.ok = ~q.ok /\ q.thrown = ""]
  ELSE Block(p)
IfStatement(p) ==
  In("IF_STATEMENT", p, LAMBDA n :
    Then(Then(Then(Start(n, "if"), Condition), Block), LAMBDA q :
      IF q.cur = "else" THEN Then(NextToken(q), Otherwise) ELSE q))

WhileStatement(p) == In("WHILE_STATEMENT", p, LAMBDA n : Then(Then(Start(n, "while"), Condition), Block))

DoStatement(p) ==
  In("DO_STATEMENT", p, LAMBDA n :
    Then(Then(Then(Then(Start(n, "do"), Block), LAMBDA q : Start(q, "while")), Condition), LAMBDA q : Need(q, ";")))

\* A clause in front of a semicolon; the clause after the last one skips to a semicolon as well.
Clause(p, F(_)) == Tolerant(F(p), {";"})
ForStatement(p) ==
  In("FOR_STATEMENT", p, LAMBDA n :
    Then(Start(n, "for"), LAMBDA q :
      LET value(r) == Expression(r, 15)
          open  == Want(q, "(")
          init  == WantAny(IF open.cur = "var" THEN Clause(open, VariableDeclarator) ELSE Clause(open, value), ";")
          test  == WantAny(Clause(init, value), ";")
      IN Then(Want(Clause(test, value), ")"), Block)))

\* parse_continue_statement and parse_break_statement: a node without children.
JumpStatement(kind, word, p) == In(kind, p, LAMBDA n : Then(Start(n, word), LAMBDA q : Need(q, ";")))

\* parse_switch_label: its statements go on to the next label or the closing brace.
RECURSIVE LabelStatements(_)
LabelStatements(p) ==
  IF ~p.ok \/ p.cur \in {"case", "default", "}"} THEN p
  ELSE LabelStatements(IF p.cur = "{" THEN Block(p) ELSE BlockStatement(p))
SwitchLabel(p) ==
  In("SWITCH_LABEL", p, LAMBDA n :
    LET label == ParseToken(n) IN
    LabelStatements(Want(IF n.cur = "case" THEN Tolerant(Expression(label, 15), {":"}) ELSE label, ":")))

RECURSIVE SwitchLabels(_)
SwitchLabels(p) == IF p.ok /\ p.cur \in {"case", "default"} THEN SwitchLabels(SwitchLabel(p)) ELSE p
SwitchBlock(p) ==
  In("BLOCK", p, LAMBDA n : Then(Then(Need(n, "{"), SwitchLabels), LAMBDA q : Need(q, "}")))
SwitchStatement(p) ==
  In("SWITCH_STATEMENT", p, LAMBDA n :
    Then(Start(n, "switch"), LAMBDA q :
      Then(Want(Tolerant(Expression(Want(q, "("), 15), {")"}), ")"), SwitchBlock)))

\* A statement that ends with an expression and a semicolon; a failed expression skips over the semicolon.
Ending(p) ==
  LET q == Expression(p, 15) IN IF q.ok THEN Need(q, ";") ELSE Failover(Anyway(q), {";"})
ReturnStatement(p) ==
  In("RETURN_STATEMENT", p, LAMBDA n :
    Then(Start(n, "return"), LAMBDA q : IF q.cur = ";" THEN NextToken(q) ELSE Ending(q)))
ThrowStatement(p) == In("THROW_STATEMENT", p, LAMBDA n : Then(Start(n, "throw"), Ending))
ExpressionStatement(p) == In("EXPRESSION_STATEMENT", p, Ending)

RECURSIVE CatchBlocks(_)
CatchBlocks(p) ==
  LET q == In("CATCH_BLOCK", p, LAMBDA n : Then(Then(Start(n, "catch"), FunctionDeclParameter), Block))
  IN IF q.ok /\ q.cur = "catch" THEN CatchBlocks(q) ELSE q
TryStatement(p) == In("TRY_STATEMENT", p, LAMBDA n : Then(Then(Start(n, "try"), Block), CatchBlocks))

Statement(p) ==
  CASE p.cur = "if" -> IfStatement(p)
    [] p.cur = "while" -> WhileStatement(p)
    [] p.cur = "do" -> DoStatement(p)
    [] p.cur = "for" -> ForStatement(p)
    [] p.cur = "continue" -> JumpStatement("CONTINUE_STATEMENT", "continue", p)
    [] p.cur = "break" -> JumpStatement("BREAK_STATEMENT", "break", p)
    [] p.cur = "switch" -> SwitchStatement(p)
    [] p.cur = "return" -> ReturnStatement(p)
    [] p.cur = "try" -> TryStatement(p)
    [] p.cur = "throw" -> ThrowStatement(p)
    [] predict_expression_statement(p) -> ExpressionStatement(p)
    [] OTHER -> Unrecognized(p)

BlockStatement(p) ==
  CASE p.cur = "var" -> VariableDeclaration(p)
    [] p.cur = "const" -> ConstantDeclaration(p)
    [] OTHER -> Statement(p)

\* Parameters, type and body are all looked for, whatever is wrong with them; a body that is right
\* makes the result false, which nobody reads.
FunctionDeclaration(p) ==
  In("FUNCTION_DECLARATION", p, LAMBDA n :
    Then(Start(n, "func"), LAMBDA q :
      IF q.cur # "TK_IDENTIFIER" THEN Failbefore(SyntaxError(q), {"("})
      ELSE LET params == FunctionDeclParameter(ParseToken(q))
               type   == OptionalType(Anyway(params))
               body   == Block(Anyway(type))
           IN [body EXCEPT !.ok = params.ok /\ type.ok /\ ~body.ok /\ body.thrown = ""]))

RECURSIVE GlobalDeclarations(_)
GlobalDeclarations(p) ==
  IF p.thrown # "" THEN p
  ELSE CASE p.cur = "var" -> GlobalDeclarations(Anyway(VariableDeclaration(p)))
         [] p.cur = "const" -> GlobalDeclarations(Anyway(ConstantDeclaration(p)))
         [] p.cur = "func" -> GlobalDeclarations(Anyway(FunctionDeclaration(p)))
         [] p.cur = "type" -> GlobalDeclarations(Anyway(TypeDeclaration(p)))
         [] OTHER -> p

\* ast::ast.
Ast(text) ==
  [scan |-> Scan(text), cur |-> "TK_UNKNOWN", literal |-> "", errors |-> 0, thrown |-> "", kids |-> <<>>, ok |-> TRUE]

\* ast::parse: the root's children in kids, true in ok.  It catches the exception of too many errors, no other.
Parse(p) ==
  LET q == GlobalDeclarations(Imports(Anyway(PackageDeclaration(NextToken(p)))))
      r == IF q.errors = 0 /\ q.cur # "TK_EOF" THEN SyntaxError(q) ELSE q
  IN CASE r.thrown = "out_of_range" -> r
       [] r.thrown = "to many errors" -> [r EXCEPT !.errors = @ + 1, !.ok = FALSE]
       [] OTHER -> [r EXCEPT !.ok = r.errors = 0]
=============================================================================
