------------------------------- MODULE Grammar -------------------------------
(***************************************************************************)
(* What the scanner and the parser are to compute, said without either:    *)
(* the lexemes of the language as sets of strings, its grammar as the      *)
(* comments above the functions of parser/ast.cpp give it, and the tree of *)
(* an expression by the tables of docs/README.md (262-288).                *)
(***************************************************************************)
LOCAL INSTANCE Integers
LOCAL INSTANCE Sequences
LOCAL INSTANCE FiniteSetsExt
LOCAL INSTANCE Scanner

(***************************************************************************)
(* Lexemes                                                                 *)
(***************************************************************************)
CharAt(t, i) == SubSeq(t, i, i)
AllIn(t, i, chars) == \A j \in i..Len(t) : CharAt(t, j) \in chars

IsWord(t) == CharAt(t, 1) \in Letters /\ AllIn(t, 2, Letters \cup Digits)

Points(t) == {j \in 1..Len(t) : CharAt(t, j) = "."}
IsNumber(t) ==
  \/ CharAt(t, 1) \in Digits /\ AllIn(t, 2, Digits \cup {"."}) /\ \A i, j \in Points(t) : i = j
  \/ SubSeq(t, 1, Min({2, Len(t)})) \in {"0b", "0B"} /\ AllIn(t, 3, {"0", "1"})
  \/ SubSeq(t, 1, Min({2, Len(t)})) \in {"0x", "0X"} /\ AllIn(t, 3, HexDigits)

\* It ends with the first quote after the opening one that no escape covers.
IsQuoted(t) ==
  LET escaped[j \in 1..Len(t)] == j > 2 /\ CharAt(t, j - 1) = "\\" /\ ~escaped[j - 1]
  IN /\ CharAt(t, 1) \in {"\"", "'"}
     /\ {j \in 2..Len(t) : CharAt(t, j) = CharAt(t, 1) /\ ~escaped[j]} = {Len(t)}

IsLexeme(t) == t \in tokens \/ IsWord(t) \/ IsNumber(t) \/ IsQuoted(t)

KindOf(t) ==
  CASE t \in tokens \cup reserved_words -> t
    [] IsWord(t) /\ t \notin reserved_words -> "TK_IDENTIFIER"
    [] IsNumber(t) -> IF Points(t) = {} THEN "TK_LITERAL_LONG" ELSE "TK_LITERAL_DOUBLE"
    [] IsQuoted(t) -> IF CharAt(t, 1) = "'" THEN "TK_LITERAL_CHAR" ELSE "TK_LITERAL_STRING"
    [] OTHER -> "TK_UNKNOWN"

(***************************************************************************)
(* Sentences                                                               *)
(***************************************************************************)
Is(kinds) == [op |-> "is", kinds |-> kinds]
The(kind) == Is({kind})
Rule(name) == [op |-> "rule", name |-> name]
Row(terms) == [op |-> "row", terms |-> terms]
OneOf(terms) == [op |-> "one", terms |-> terms]
Maybe(term) == [op |-> "maybe", term |-> term]
Many(term) == [op |-> "many", term |-> term]
\* term, and more of them behind commas.
Listed(term) == Row(<<term, Many(Row(<<The(","), term>>))>>)
InParens(term) == Row(<<The("("), term, The(")")>>)

Name == The("TK_IDENTIFIER")
Semicolon == The(";")
Levels ==
  << {"->", "."}, {}, {"*", "/", "%"}, {"+", "-"}, {"<<", ">>"}, {">", "<", ">=", "<="}, {"==", "!="},
     {"&"}, {"^"}, {"|"}, {"&&"}, {"||"}, {"=", "+=", "-=", "*=", "/=", "%=", "&=", "|=", "^=", "<<=", ">>="} >>
FromTheRight == {11, 12, 13}
Prefixes == {"!", "~", "-", "++", "--", "co", "typeof"}
Literals == {"TK_LITERAL_LONG", "TK_LITERAL_DOUBLE", "TK_LITERAL_STRING", "TK_LITERAL_CHAR", "true", "false", "null"}

Rules == [
  root |-> Row(<<Rule("package_declaration"), Many(Rule("import_declaration")), Many(Rule("global_declaration"))>>),
  package_declaration |-> Row(<<The("package"), Rule("package_name"), Semicolon>>),
  package_name |-> Row(<<Name, Many(Row(<<The("."), Name>>))>>),
  import_declaration |-> Row(<<The("import"), Rule("package_name"), Maybe(Row(<<The("as"), Name>>)), Semicolon>>),
  global_declaration |-> OneOf({Rule("variable_declaration"), Rule("function_declaration"),
                                Rule("constant_declaration"), Rule("type_declaration")}),
  variable_declaration |-> Row(<<Rule("variable_declarator"), Semicolon>>),
  variable_declarator |-> Row(<<The("var"), Name, Maybe(Rule("type_declarator")), Maybe(Rule("variable_initializer"))>>),
  constant_declaration |-> Row(<<The("const"), Name, Maybe(Rule("type_declarator")),
                                 Maybe(Rule("variable_initializer")), Semicolon>>),
  type_declarator |-> OneOf({Is({"int", "float", "bool", "string", "TK_IDENTIFIER"}),
                             Row(<<Is({"array", "map"}), The("<"), Listed(Rule("type_declarator")), The(">")>>)}),
  variable_initializer |-> Row(<<The("="), Rule("expression")>>),
  expression |-> Row(<<OneOf({Rule("basic_expression"), Row(<<Is(Prefixes), Rule("expression")>>)}),
                       Many(OneOf({Row(<<Is(UNION {Levels[i] : i \in 1..13}), Rule("expression")>>),
                                   InParens(Maybe(Listed(Rule("expression")))),
                                   Row(<<The("["), Maybe(Rule("expression")), The("]")>>)}))>>),
  basic_expression |-> OneOf({Is(Literals \cup {"TK_IDENTIFIER"}), InParens(Rule("expression")),
                              Row(<<The("["), Maybe(Listed(Rule("expression"))), The("]")>>),
                              Row(<<The("{"), Maybe(Listed(Rule("key_value_pair"))), The("}")>>)}),
  key_value_pair |-> Row(<<The("string"), The(":"), Rule("expression")>>),
  function_declaration |-> Row(<<The("func"), Name, Rule("function_decl_parameter"),
                                 Maybe(Rule("type_declarator")), Rule("block")>>),
  function_decl_parameter |-> InParens(Maybe(Listed(Rule("variable_declarator")))),
  type_declaration |-> Row(<<The("type"), Name, Rule("type_declarator"), Semicolon>>),
  block |-> Row(<<The("{"), Many(Rule("block_statement")), The("}")>>),
  block_statement |-> OneOf({Rule("variable_declaration"), Rule("constant_declaration"), Rule("statement")}),
  statement |-> OneOf({
    Rule("if_statement"),
    Row(<<The("while"), InParens(Rule("expression")), Rule("block")>>),
    Row(<<The("do"), Rule("block"), The("while"), InParens(Rule("expression")), Semicolon>>),
    Row(<<The("for"),
          InParens(Row(<<OneOf({Rule("expression"), Rule("variable_declarator")}), Semicolon, Rule("expression"),
                         Semicolon, Rule("expression")>>)),
          Rule("block")>>),
    Row(<<Is({"continue", "break"}), Semicolon>>),
    Row(<<The("switch"), InParens(Rule("expression")), The("{"), Many(Rule("switch_label")), The("}")>>),
    Row(<<The("return"), Maybe(Rule("expression")), Semicolon>>),
    Row(<<The("try"), Rule("block"), Rule("catch"), Many(Rule("catch"))>>),
    Row(<<The("throw"), Rule("expression"), Semicolon>>),
    Row(<<Rule("expression"), Semicolon>>)}),
  if_statement |-> Row(<<The("if"), InParens(Rule("expression")), Rule("block"),
                         Maybe(Row(<<The("else"), OneOf({Rule("block"), Rule("if_statement")})>>))>>),
  switch_label |-> Row(<<OneOf({Row(<<The("case"), Rule("expression")>>), The("default")}), The(":"),
                         Maybe(OneOf({Rule("block"), Many(Rule("block_statement"))}))>>),
  catch |-> Row(<<The("catch"), Rule("function_decl_parameter"), Rule("block")>>)]

\* Where a term can end in a sequence of kinds that is read from one of the places of from.
RECURSIVE Ends(_, _, _)
Ends(term, from, kinds) ==
  CASE from = {} -> {}
    [] term.op = "is" -> {i + 1 : i \in {j \in from : j <= Len(kinds) /\ kinds[j] \in term.kinds}}
    [] term.op = "rule" -> Ends(Rules[term.name], from, kinds)
    [] term.op = "row" -> LET after[i \in 0..Len(term.terms)] ==
                                IF i = 0 THEN from ELSE Ends(term.terms[i], after[i - 1], kinds)
                          IN after[Len(term.terms)]
    [] term.op = "one" -> UNION {Ends(t, from, kinds) : t \in term.terms}
    [] term.op = "maybe" -> from \cup Ends(term.term, from, kinds)
    [] term.op = "many" -> LET more == Ends(term.term, from, kinds) \ from
                           IN from \cup Ends(term, more, kinds)

KindsOf(lexemes) == [i \in DOMAIN lexemes |-> KindOf(lexemes[i])]
IsSentence(lexemes) == Len(lexemes) + 1 \in Ends(Rule("root"), {1}, KindsOf(lexemes))

(***************************************************************************)
(* Trees, for expressions without list literals and with no more than one  *)
(* argument in a call                                                      *)
(***************************************************************************)
Tree(kind, kids) == [kind |-> kind, text |-> "", kids |-> kids]
Leaf(lexeme) == [kind |-> "TOKEN", text |-> lexeme, kids |-> <<>>]

Depth(e, i) == Cardinality({j \in 1..i - 1 : e[j] \in {"(", "["}}) - Cardinality({j \in 1..i : e[j] \in {")", "]"}})
IsOperand(lexeme) == KindOf(lexeme) \in Literals \cup {"TK_IDENTIFIER", ")", "]"}

\* Where the operators between two operands are, on a level and outside every bracket.
Between(e, level) == {i \in 2..Len(e) : e[i] \in Levels[level] /\ Depth(e, i) = 0 /\ IsOperand(e[i - 1])}

RECURSIVE ExpressionTree(_)
ExpressionTree(e) ==
  LET part(i, j) == ExpressionTree(SubSeq(e, i, j))
      binary(i) == Tree("BINARY_EXPRESSION", <<part(1, i - 1), Leaf(e[i]), part(i + 1, Len(e))>>)
      split(level) == binary(IF level \in FromTheRight THEN Min(Between(e, level)) ELSE Max(Between(e, level)))
      loose == {l \in 3..13 : Between(e, l) # {}}
      opening == Max({i \in 1..Len(e) : e[i] \in {"(", "["} /\ Depth(e, i) = 0} \cup {0})
      inside == IF opening + 1 = Len(e) THEN <<>> ELSE <<part(opening + 1, Len(e) - 1)>>
      postfix(kids) == Tree("BINARY_EXPRESSION", <<part(1, opening - 1), Leaf(e[opening])>> \o kids)
  IN CASE loose # {} -> split(Max(loose))
       [] loose = {} /\ e[1] \in Prefixes -> Tree("UNARY_EXPRESSION", <<Leaf(e[1]), part(2, Len(e))>>)
       [] loose = {} /\ e[1] \notin Prefixes /\ Between(e, 1) # {} -> split(1)
       [] OTHER -> CASE Len(e) = 1 -> Leaf(e[1])
                     [] Len(e) > 1 /\ opening = 1 -> part(2, Len(e) - 1)
                     [] opening > 1 /\ e[opening] = "(" -> postfix(<<Tree("FUNCTION_CALL_PARAMETER", inside)>>)
                     [] opening > 1 /\ e[opening] = "[" -> postfix(inside)
=============================================================================
