---------------------------- MODULE SymbolScope -----------------------------
(***************************************************************************)
(* Symbol tables of the C compiler (src/parser/symbol.c) over the tree the *)
(* parser builds.                                                          *)
(*                                                                         *)
(* ast(n) is the node n of a forest of programs.  The nodes of a program   *)
(* are numbered in the order of its source, so that n stands for           *)
(* node->offset.  Node 0 has the root blocks of the programs for children. *)
(* `tag' is u.op of an operator, u.type of a type expression, the text of  *)
(* an identifier and the value of a literal.                               *)
(*                                                                         *)
(* Each block keeps its symbols in the order they were declared, as the    *)
(* hash table of the block is traversed.                                   *)
(***************************************************************************)
EXTENDS Types, SequencesExt

CONSTANT ast(_)

Type(n) == ast(n).type
Tag(n) == ast(n).tag
Parent(n) == ast(n).parent
Kids(n) == ast(n).child
Kid(n, i) == ast(n).child[i]

IsRoot(n) == Parent(n) = 0

\* The nodes of the tree below n.
RECURSIVE LastNode(_)
LastNode(n) == IF Kids(n) = <<>> THEN n ELSE LastNode(Last(Kids(n)))

TreeOf(n) == n .. LastNode(n)

-----------------------------------------------------------------------------
(* Type expressions.                                                       *)

\* symbol_parse_type and what it calls, the type.
RECURSIVE ParsedType(_)
ParsedType(n) ==
  CASE Tag(n) = "ARRAY" -> ArrayOf(ParsedType(Kid(n, 1)))
    [] Tag(n) = "MAP" -> MapOf(ParsedType(Kid(n, 1)), ParsedType(Kid(n, 2)))
    [] Tag(n) = "FUNCTION" ->
         LET params == Kids(Kid(n, 1))
         IN  FunctionOf(Hole, ParsedType(Kid(n, 2)),
                        [i \in DOMAIN params |-> ParsedType(params[i])])
    [] OTHER -> Basic(Tag(n))

\* A type that has holes but is not one: []var.
Incomplete(t) == t # Hole /\ ~Definite(t)

\* The same, whether it returns 0: a function type has complete parts.
RECURSIVE TypeParses(_)
TypeParses(n) ==
  /\ Tag(n) # "NULL"
  /\ Tag(n) \in {"ARRAY", "MAP"} => \A i \in DOMAIN Kids(n) : TypeParses(Kid(n, i))
  /\ Tag(n) = "FUNCTION" =>
       \A k \in Range(Kids(Kid(n, 1))) \cup {Kid(n, 2)} :
         TypeParses(k) /\ ~Incomplete(ParsedType(k))

-----------------------------------------------------------------------------
(* Declarations.  s: the tables, whether an error was found and whether an *)
(* assertion stopped the compiler.                                         *)

NoSymbols(root) ==
  [root |-> root, tab |-> [b \in {n \in TreeOf(root) : Type(n) = "BLOCK_STATEMENT"} |-> <<>>],
   ok |-> TRUE, abort |-> FALSE]

Declared(s, b, name) == \E i \in DOMAIN s.tab[b] : s.tab[b][i].name = name

IsGlobal(n) == IsRoot(Parent(n)) /\ Type(Parent(n)) = "BLOCK_STATEMENT"

\* symbol_add, and the type the caller gives the symbol afterwards.
SymbolAdd(s, b, n, kind, name, t, ok) ==
  IF Declared(s, b, name) THEN [s EXCEPT !.ok = FALSE]
  ELSE [s EXCEPT !.tab[b] = Append(@, [name |-> name, kind |-> kind, node |-> n,
                                       global |-> IsGlobal(n), type |-> t]),
                 !.ok = @ /\ ok]

NameOf(n) == Tag(Kid(n, 1))

\* The block a variable belongs to: a parameter to the body of its function,
\* the first of a catch block to that block.
BlockOf(n) ==
  LET p == Parent(n)
  IN  CASE Type(p) = "BLOCK_STATEMENT" -> {p}
        [] Type(p) = "FUNCTION_DECL_PARAMETER" -> {Kid(Parent(p), 5)}
        [] Type(p) = "EXCEPTION_DECL_PARAMETER" ->
             IF Kid(p, 1) = n THEN {Kid(Parent(p), 2)} ELSE {}
        [] OTHER -> {}

IsReceiver(n) ==
  Type(Parent(n)) = "FUNCTION_DECL_PARAMETER" /\ Type(Parent(Parent(n))) # "FUNCTION_DECLARATION"

AddVariable(s, n) ==
  LET t == ParsedType(Kid(n, 2))
  IN  IF IsReceiver(n) THEN [s EXCEPT !.abort = TRUE]
      ELSE IF BlockOf(n) = {} THEN [s EXCEPT !.ok = FALSE]
      ELSE SymbolAdd(s, CHOOSE b \in BlockOf(n) : TRUE, n, "VARIABLE", NameOf(n), t,
                     TypeParses(Kid(n, 2)) /\ ~Incomplete(t))

AddConstant(s, n) ==
  LET t == ParsedType(Kid(n, 2))
  IN  IF Type(Parent(n)) # "BLOCK_STATEMENT" THEN [s EXCEPT !.ok = FALSE]
      ELSE SymbolAdd(s, Parent(n), n, "CONSTANT", NameOf(n), t,
                     TypeParses(Kid(n, 2)) /\ ~Incomplete(t))

\* The declarations among the parameters of a function, or of its receiver.
DeclTypes(p) == [i \in DOMAIN Kids(p) |-> Kid(Kid(p, i), 2)]

AddFunction(s, n) ==
  LET receivers == IF Kids(Kid(n, 1)) = <<>> THEN <<>> ELSE DeclTypes(Kid(Kid(n, 1), 1))
      args == DeclTypes(Kid(n, 3))
      ret == Kid(n, 4)
      t == FunctionOf(IF Len(receivers) = 1 THEN ParsedType(receivers[1]) ELSE Hole,
                      ParsedType(ret), [i \in DOMAIN args |-> ParsedType(args[i])])
      ok == /\ Kids(Kid(n, 1)) # <<>> => Len(receivers) = 1
            /\ \A k \in Range(receivers) \cup Range(args) \cup {ret} :
                 TypeParses(k) /\ ~Incomplete(ParsedType(k))
  IN  IF Type(Parent(n)) # "BLOCK_STATEMENT" THEN [s EXCEPT !.ok = FALSE]
      ELSE SymbolAdd(s, Parent(n), n, "CONSTANT", Tag(Kid(n, 2)), t, ok)

Declarations == {"VARIABLE_DECLARATION", "CONSTANT_DECLARATION", "FUNCTION_DECLARATION"}

\* symbol_generate at one node.
Declare(s, n) ==
  CASE s.abort -> s
    [] Type(n) = "VARIABLE_DECLARATION" -> AddVariable(s, n)
    [] Type(n) = "CONSTANT_DECLARATION" -> AddConstant(s, n)
    [] Type(n) = "FUNCTION_DECLARATION" -> AddFunction(s, n)

\* lgx_symbol_init visits the tree in the order of the source.
Symbols(root) ==
  FoldLeft(Declare, NoSymbols(root),
           SelectSeq([i \in 1 .. LastNode(root) - root + 1 |-> root + i - 1], LAMBDA n : Type(n) \in Declarations))

-----------------------------------------------------------------------------
(* Lookup.                                                                 *)

Bug_ignores_the_offset(block, d, offset) == TRUE

\* A symbol of a block is visible from its declaration on; a global function
\* everywhere.
Visible(block, d, offset) ==
  \/ IsRoot(block) /\ d.kind = "CONSTANT" /\ d.type.tag = "FUNCTION"
  \/ d.node <= offset

\* lgx_symbol_get: the symbols found, one or none.
RECURSIVE SymbolGet(_, _, _, _)
SymbolGet(s, n, name, offset) ==
  LET here == IF Type(n) # "BLOCK_STATEMENT" THEN {}
              ELSE {d \in Range(s.tab[n]) : d.name = name /\ Visible(n, d, offset)}
  IN  IF here # {} \/ IsRoot(n) THEN here
      ELSE SymbolGet(s, Parent(n), name, offset)

-----------------------------------------------------------------------------
(* What the language promises, from the tree alone.                        *)

\* The declarations whose scope is block b.
ScopeOf(b) ==
  LET owner == Parent(b)
      own == Range(Kids(b))
      params == CASE owner = 0 -> {}
                  [] owner # 0 /\ Type(owner) = "FUNCTION_DECLARATION" -> Range(Kids(Kid(owner, 3)))
                  [] owner # 0 /\ Type(owner) = "CATCH_STATEMENT" -> Range(Kids(Kid(owner, 1)))
                  [] OTHER -> {}
  IN  {d \in own \cup params : Type(d) \in Declarations}

DeclName(d) == Tag(Kid(d, IF Type(d) = "FUNCTION_DECLARATION" THEN 2 ELSE 1))

RECURSIVE Around(_)
Around(n) == IF n = 0 THEN {} ELSE {n} \cup Around(Parent(n))

Uses(root) ==
  {n \in TreeOf(root) :
     /\ Type(n) = "IDENTIFIER_TOKEN"
     /\ ~(Type(Parent(n)) \in {"VARIABLE_DECLARATION", "CONSTANT_DECLARATION"} /\ Kid(Parent(n), 1) = n)
     /\ Type(Parent(n)) # "FUNCTION_DECLARATION"}

\* The scopes around a use that declare its name before it, or name a function.
Candidates(n) ==
  {b \in {b \in Around(n) : Type(b) = "BLOCK_STATEMENT"} :
     \E d \in ScopeOf(b) : /\ DeclName(d) = Tag(n)
                           /\ d < n \/ (Type(d) = "FUNCTION_DECLARATION" /\ IsRoot(b))}

\* A scope declares a name once, and a use of a name means the declaration in
\* the innermost scope that has declared it, or in none.
IsLexical(s) ==
  /\ \A b \in DOMAIN s.tab : \A d, e \in ScopeOf(b) : DeclName(d) = DeclName(e) => d = e
  /\ \A n \in Uses(s.root) :
       LET found == SymbolGet(s, n, Tag(n), n)
           b == CHOOSE b \in Candidates(n) : \A x \in Candidates(n) : x <= b
       IN  IF Candidates(n) = {} THEN found = {}
           ELSE /\ found # {}
                /\ \A d \in found : d.node \in ScopeOf(b) /\ DeclName(d.node) = Tag(n)
=============================================================================
