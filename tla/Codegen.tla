------------------------------ MODULE Codegen -------------------------------
(***************************************************************************)
(* The C compiler: from the tree and its symbol tables to bytecode         *)
(* (src/compiler/compiler.c, bytecode.c, register.c, constant.c and        *)
(* expr_result.c).  One operator per function of compiler.c.               *)
(*                                                                         *)
(* c is the compiler's state: the bytecode `bc', the constant table, the   *)
(* global variables, the exception table, and of the function being        *)
(* compiled (fn, 0 outside) its free registers, top of the stack last, and *)
(* the highest one used.  reg, ty and init are what a symbol holds, indexed *)
(* by its declaration.  Operators return the new state, ok when the        *)
(* function returns 0, and e, the expression's result.                     *)
(*                                                                         *)
(* `err' says that an error was reported, `abort' that an assertion or a   *)
(* fault stops the process: nothing is compiled after that.  `held' and    *)
(* `shared' are not in the code: the registers somebody was given and has  *)
(* not returned, and whether one was given to two.                         *)
(*                                                                         *)
(* Numbers are unbounded, a double is a whole number, allocation does not  *)
(* fail and there are fewer than 65535 global variables.  The registers of *)
(* a program that was refused are not accounted for.                       *)
(***************************************************************************)
EXTENDS SymbolScope

CONSTANT NREGS   \* registers of a function: 256

ASSUME CodegenAssumption == NREGS \in Nat /\ NREGS > 4

-----------------------------------------------------------------------------
(* Values: a tag and the value; an array's is a function from keys to      *)
(* values, followed by its type.                                           *)

EmptyArray == [k \in {} |-> 0]

\* What an expression result holds before anything is stored in it.
Zero(t) == CASE t.tag = "STRING" -> ""
             [] t.tag = "ARRAY" -> EmptyArray
             [] OTHER -> 0

Result(type, t, v, u) == [type |-> type, t |-> t, v |-> v, u |-> u, text |-> <<>>]
Nothing == Result("UNKNOWN", Hole, 0, 0)
Literal(t, v) == Result("LITERAL", t, v, 0)
Temp(t, r) == Result("TEMP", t, 0, r)
Boolean(b) == Literal(Basic("BOOL"), IF b THEN 1 ELSE 0)

IsConstant(e) == e.type \in {"LITERAL", "CONSTANT"}
IsVariable(e) == e.type \in {"GLOBAL", "LOCAL", "TEMP"}
InRegister(e) == e.type \in {"LOCAL", "TEMP"}
Is(e, tag) == e.t.tag = tag
Both(x, y, tag) == Is(x, tag) /\ Is(y, tag)

Storable == {"LONG", "DOUBLE", "BOOL", "STRING", "ARRAY"}

\* lgx_expr_to_value, for a storable type.
ToValue(e) == IF Is(e, "ARRAY") THEN <<"ARRAY", e.v, e.t>> ELSE <<e.t.tag, e.v>>

\* lgx_value_to_expr: the text of an array inside an array is not kept.
ToExpr(v) == IF v[1] = "ARRAY" THEN Literal(v[3], v[2]) ELSE Literal(Basic(v[1]), v[2])

\* The source text of a node.
RECURSIVE Text(_)
Text(n) == <<Type(n), Tag(n), [i \in DOMAIN Kids(n) |-> Text(Kid(n, i))]>>

-----------------------------------------------------------------------------
(* State, errors and registers.                                            *)

AllDeclared(s) == UNION {Range(s.tab[b]) : b \in DOMAIN s.tab}

\* The state for the symbol tables s.
Start(s) ==
  LET all == AllDeclared(s)
      Declares(n) == {d \in all : d.node = n}
  IN  [bc |-> <<>>, const |-> <<>>, global |-> <<>>, exc |-> {}, fun |-> [f \in {} |-> 0],
       fn |-> 0, free |-> <<>>, max |-> 0, err |-> FALSE, abort |-> FALSE,
       held |-> {}, shared |-> FALSE, sym |-> s,
       reg |-> [d \in {d.node : d \in all} |-> 0],
       init |-> [d \in {d.node : d \in all} |-> <<"UNKNOWN", 0>>],
       ty |-> [n \in {d.node : d \in all} |-> (CHOOSE d \in Declares(n) : TRUE).type],
       jmps |-> [n \in TreeOf(s.root) |-> <<>>], pos |-> [n \in TreeOf(s.root) |-> 0]]

Error(c) == [c EXCEPT !.err = TRUE]
Abort(c) == [c EXCEPT !.abort = TRUE]
Fail(c) == [c |-> Error(c), e |-> Nothing, ok |-> FALSE]
Done(c, ok) == [c |-> c, e |-> Nothing, ok |-> ok]

\* lgx_reg_init.
AllFree == [i \in 1 .. NREGS |-> NREGS - i]

\* reg_pop: outside a function there are no registers to take.
Pop(c) ==
  IF c.fn = 0 THEN [c |-> Abort(c), r |-> 0]
  ELSE IF c.free = <<>> THEN [c |-> Error(c), r |-> -1]
  ELSE LET r == Last(c.free)
       IN  [c |-> [c EXCEPT !.free = Front(@), !.max = IF r > @ THEN r ELSE @,
                            !.held = @ \cup {r}, !.shared = @ \/ r \in c.held],
            r |-> r]

\* reg_push: a register is an unsigned char, so -1 is the last one.
Push(c, r) ==
  IF c.fn = 0 \/ Len(c.free) >= NREGS THEN Abort(c)
  ELSE [c EXCEPT !.free = Append(@, r % NREGS), !.held = @ \ {r % NREGS}]

-----------------------------------------------------------------------------
(* Bytecode and the constant table.                                        *)

\* bc_append, an instruction and its operands.  D and E operands are kept in
\* b and a.
Emit(c, op, a, b, x) ==
  [c EXCEPT !.bc = Append(@, [op |-> op, a |-> a, b |-> b, c |-> x])]

Here(c) == Len(c.bc)

\* bc_set_param_d and bc_set_param_e.
SetD(c, at, d) == [c EXCEPT !.bc[at + 1].b = d % 65536]
SetE(c, at, e) == [c EXCEPT !.bc[at + 1].a = e]

\* The distance of the TEST at `at' to the next instruction.
SkipToHere(c, at) == SetD(c, at, Here(c) - at - 1)

\* const_key: an array's key is its text.
ConstKey(e) == IF Is(e, "ARRAY") THEN <<"ARRAY", e.text>> ELSE <<e.t.tag, e.v>>

Numbered(c, key) == {i \in DOMAIN c.const : c.const[i].key = key}

\* lgx_str_concat refuses to put nothing behind the prefix of a key.
HasNoText(e) == (Is(e, "STRING") /\ e.v = "") \/ (Is(e, "ARRAY") /\ e.text = <<>>)

\* lgx_const_get: the number of a constant, entered if it is new.
ConstGet(c, e) ==
  LET at == Numbered(c, ConstKey(e))
  IN  IF e.t.tag \notin Storable \/ HasNoText(e) THEN [c |-> Abort(c), num |-> 0]
      ELSE IF at # {} THEN [c |-> c, num |-> (CHOOSE i \in at : TRUE) - 1]
      ELSE [c |-> [c EXCEPT !.const = Append(@, [key |-> ConstKey(e), v |-> ToValue(e)])],
            num |-> Len(c.const)]

\* lgx_const_get_function: until the end a function's constant is its number.
ConstGetFunction(c, name) ==
  [c |-> [c EXCEPT !.const = Append(@, [key |-> <<"FUNCTION", name>>,
                                        v |-> <<"LONG", Len(c.const)>>])],
   num |-> Len(c.const)]

\* lgx_const_update_function.
ConstUpdateFunction(c, f) ==
  [c EXCEPT !.const = [i \in DOMAIN @ |->
     IF @[i].key = <<"FUNCTION", Tag(Kid(f, 2))>> THEN [@[i] EXCEPT !.v = <<"FUNCTION", f>>]
     ELSE @[i]]]

-----------------------------------------------------------------------------
(* Using a result.                                                         *)

LoadToReg(c, e) ==
  LET p == Pop(c)
      k == ConstGet(p.c, e)
  IN  IF p.r < 0 THEN p
      ELSE [r |-> p.r,
            c |-> CASE e.type = "LITERAL" -> Emit(k.c, "LOAD", p.r, k.num, 0)
                    [] e.type = "CONSTANT" -> Emit(p.c, "LOAD", p.r, e.u, 0)
                    [] e.type = "GLOBAL" -> Emit(p.c, "GLOBAL_GET", p.r, e.u, 0)
                    [] OTHER -> p.c]

\* The register an operand is in, or is loaded to.
Operand(c, e) == IF InRegister(e) THEN [c |-> c, r |-> e.u] ELSE LoadToReg(c, e)

\* A register that was loaded is given back.
Release(c, e, r) == IF InRegister(e) \/ r < 0 THEN c ELSE Push(c, r)

Bug_releases_locals(c, e) == IF InRegister(e) THEN Push(c, e.u) ELSE c

\* lgx_expr_result_cleanup.
Cleanup(c, e) == IF e.type = "TEMP" THEN Push(c, e.u) ELSE c

\* MOV, ECHO, THROW and RET of a result.
Consume(c, op, dst, e) ==
  LET o == Operand(c, e)
      used == IF op = "MOV" THEN Emit(o.c, op, dst, o.r, 0) ELSE Emit(o.c, op, o.r, 0, 0)
  IN  IF o.r < 0 THEN Done(o.c, FALSE) ELSE Done(Release(used, e, o.r), TRUE)

Bug_any_variable_fits(e, t) == e.type = "LITERAL" => Fits(e.t, t)

\* A literal fits a type, a variable or a named constant has it.
Assignable(e, t) == IF e.type = "LITERAL" THEN Fits(e.t, t) ELSE Same(t, e.t)

Require(c, yes) == IF yes THEN c ELSE Error(c)

\* compiler_check_assignment.
Assigns(n) == Type(n) = "BINARY_EXPRESSION" /\ Tag(n) = "="

-----------------------------------------------------------------------------
(* Tokens.                                                                 *)

TokenType == [STRING_TOKEN |-> "STRING", CHAR_TOKEN |-> "LONG", LONG_TOKEN |-> "LONG",
              DOUBLE_TOKEN |-> "DOUBLE"]

\* compiler_string_token, _char_token, _long_token and _double_token.
Token(c, n) == [c |-> c, e |-> Literal(Basic(TokenType[Type(n)]), Tag(n)), ok |-> TRUE]

\* compiler_identifier_token.
Identifier(c, n) ==
  LET found == SymbolGet(c.sym, n, Tag(n), n)
      d == CHOOSE d \in found : TRUE
      type == IF d.kind = "CONSTANT" THEN "CONSTANT"
              ELSE IF d.global THEN "GLOBAL" ELSE "LOCAL"
  IN  IF found = {} THEN Fail(c)
      ELSE [c |-> c, ok |-> TRUE,
            e |-> Result(type, c.ty[d.node], Zero(c.ty[d.node]), c.reg[d.node])]

\* The declaration an identifier means.
SymbolOf(c, n) == (CHOOSE d \in SymbolGet(c.sym, n, Tag(n), n) : TRUE).node

-----------------------------------------------------------------------------
(* Operators on constants are computed by the compiler.                    *)

Quotient(a, b) ==
  LET q == (IF a < 0 THEN -a ELSE a) \div (IF b < 0 THEN -b ELSE b)
  IN  IF (a < 0) = (b < 0) THEN q ELSE -q

\* op_add, op_sub, op_mul, op_shl and op_shr.
Arithmetic(op, a, b) ==
  CASE op = "+" -> a + b
    [] op = "-" -> a - b
    [] op = "*" -> a * b
    [] op = "<<" -> a * 2^b
    [] op = ">>" -> a \div 2^b

\* op_div and op_mod: only the first looks at a zero, the second faults.
Division(c, op, x, y) ==
  IF op = "%" /\ Is(x, "DOUBLE") THEN Fail(c)
  ELSE IF y.v = 0 THEN
    [c |-> IF op = "%" THEN Abort(c) ELSE Error(c), e |-> Literal(x.t, 0), ok |-> FALSE]
  ELSE [c |-> c, ok |-> TRUE,
        e |-> Literal(x.t, IF op = "/" THEN Quotient(x.v, y.v)
                           ELSE x.v - y.v * Quotient(x.v, y.v))]

\* op_eq, op_ne, op_gt, op_ge, op_lt and op_le.
Relation(op, a, b) ==
  CASE op = "==" -> a = b
    [] op = "!=" -> a # b
    [] op = ">" -> a > b
    [] op = ">=" -> a >= b
    [] op = "<" -> a < b
    [] op = "<=" -> a <= b

\* op_index: a missing element is a null, which no table can hold; a named
\* constant has no table to look into, and a key is a number or a string.
Element(c, x, y) ==
  LET key == ToValue(y)
  IN  IF x.type = "CONSTANT" \/ y.t.tag \notin {"LONG", "STRING"} THEN Fail(Abort(c))
      ELSE [c |-> c, ok |-> TRUE,
            e |-> IF key \in DOMAIN x.v THEN ToExpr(x.v[key]) ELSE Literal(Basic("NULL"), 0)]

Relations == {"==", "!=", ">", ">=", "<", "<="}

Fold(c, op, x, y) ==
  CASE op \in {"+", "-", "*", "<<", ">>"} ->
         [c |-> c, ok |-> TRUE, e |-> Literal(x.t, Arithmetic(op, x.v, y.v))]
    [] op \in {"/", "%"} -> Division(c, op, x, y)
    [] op \in Relations -> [c |-> c, ok |-> TRUE, e |-> Boolean(Relation(op, x.v, y.v))]
    [] op = "[" -> Element(c, x, y)
    [] op = "CONCAT" -> [c |-> c, ok |-> TRUE, e |-> Literal(x.t, x.v \o y.v)]

Bug_greater_not_swapped(c, op, t, r1, r2) ==
  CASE op \in {"<", ">"} -> Emit(c, "LT", t, r1, r2)
    [] op \in {"<=", ">="} -> Emit(c, "LE", t, r1, r2)
    [] op = "==" -> Emit(c, "EQ", t, r1, r2)
    [] op = "!=" -> Emit(Emit(c, "EQ", t, r1, r2), "LNOT", t, t, 0)
    [] OTHER -> Emit(c, op, t, r1, r2)

\* bc_add .. bc_array_get: > and >= are < and <= the other way round, != is
\* == and a negation.
EmitBinary(c, op, t, r1, r2) ==
  CASE op = "<" -> Emit(c, "LT", t, r1, r2)
    [] op = ">" -> Emit(c, "LT", t, r2, r1)
    [] op = "<=" -> Emit(c, "LE", t, r1, r2)
    [] op = ">=" -> Emit(c, "LE", t, r2, r1)
    [] op = "==" -> Emit(c, "EQ", t, r1, r2)
    [] op = "!=" -> Emit(Emit(c, "EQ", t, r1, r2), "LNOT", t, t, 0)
    [] OTHER -> Emit(c, op, t, r1, r2)

\* binary_operator; t is the type the caller gave the result.  Its operands'
\* registers are given back unless they are variables, temporaries too.
BinaryOperator(c, op, t, x, y) ==
  LET l == Operand(c, x)
      r == IF l.r < 0 THEN [c |-> l.c, r |-> -1] ELSE Operand(l.c, y)
      d == Pop(r.c)
      failed == l.r < 0 \/ r.r < 0
      code == IF failed THEN r.c ELSE EmitBinary(d.c, op, d.r, l.r, r.r)
      back == IF x.type = "LOCAL" \/ l.r < 0 THEN code ELSE Push(code, l.r)
      last == IF y.type = "LOCAL" \/ r.r < 0 THEN back ELSE Push(back, r.r)
  IN  IF IsConstant(x) /\ IsConstant(y) THEN Fold(c, op, x, y)
      ELSE IF failed THEN [c |-> last, e |-> [Nothing EXCEPT !.t = t], ok |-> FALSE]
      ELSE IF op = "%" THEN [c |-> Error(d.c), e |-> Temp(t, d.r), ok |-> FALSE]
      ELSE [c |-> last, e |-> Temp(t, d.r), ok |-> TRUE]

\* op_lnot, op_not and op_neg.
FoldUnary(op, e) ==
  CASE op = "!" -> Boolean(e.v = 0)
    [] op = "~" -> Literal(e.t, -e.v - 1)
    [] op = "-" -> Literal(e.t, -e.v)

UnaryName == [x \in {"!", "~", "-"} |-> CASE x = "!" -> "LNOT" [] x = "~" -> "NOT" [] x = "-" -> "NEG"]

\* unary_operator: a register it loaded is never given back.
UnaryOperator(c, op, e) ==
  LET o == Operand(c, e)
      d == Pop(o.c)
  IN  IF IsConstant(e) THEN [c |-> c, e |-> FoldUnary(op, e), ok |-> TRUE]
      ELSE IF o.r < 0 THEN [c |-> o.c, e |-> [Nothing EXCEPT !.t = e.t], ok |-> FALSE]
      ELSE [c |-> Emit(d.c, UnaryName[op], d.r, o.r, 0), e |-> Temp(e.t, d.r), ok |-> TRUE]

-----------------------------------------------------------------------------
(* Expressions.                                                            *)

RECURSIVE Expr(_, _)

\* Two operands and an operator on them.  What becomes of an error in an
\* operand: ok is that of the operator alone.
Math(c, n) ==
  LET l == Expr(c, Kid(n, 1))
      r == Expr(l.c, Kid(n, 2))
      strings == Tag(n) = "+" /\ Both(l.e, r.e, "STRING")
      typed == strings \/ Both(l.e, r.e, "LONG") \/ Both(l.e, r.e, "DOUBLE")
      x == IF typed
           THEN BinaryOperator(r.c, IF strings THEN "CONCAT" ELSE Tag(n), l.e.t, l.e, r.e)
           ELSE Fail(r.c)
  IN  [x EXCEPT !.c = Cleanup(Cleanup(@, r.e), l.e)]

\* Two strings can be compared, but nothing is computed.
RelationExpr(c, n) ==
  LET l == Expr(c, Kid(n, 1))
      r == Expr(l.c, Kid(n, 2))
      typed == Both(l.e, r.e, "LONG") \/ Both(l.e, r.e, "DOUBLE")
      x == IF Tag(n) = "==" /\ Both(l.e, r.e, "STRING") THEN Done(r.c, l.ok /\ r.ok)
           ELSE IF typed THEN BinaryOperator(r.c, Tag(n), Hole, l.e, r.e)
           ELSE Fail(r.c)
  IN  [x EXCEPT !.c = Cleanup(Cleanup(@, r.e), l.e), !.e.t = Basic("BOOL")]

Bitwise(c, n) ==
  LET l == Expr(c, Kid(n, 1))
      r == Expr(l.c, Kid(n, 2))
      x == IF Both(l.e, r.e, "LONG") /\ Tag(n) \in {"<<", ">>"}
           THEN BinaryOperator(r.c, Tag(n), Hole, l.e, r.e)
           ELSE Fail(r.c)
  IN  [x EXCEPT !.c = Cleanup(Cleanup(@, r.e), l.e), !.e.t = Basic("LONG")]

\* The right operand of && and ||.
RightOperand(c, n) ==
  LET r == Expr(c, Kid(n, 2))
  IN  [r EXCEPT !.c = Require(@, Is(r.e, "BOOL")), !.ok = @ /\ Is(r.e, "BOOL")]

\* TEST of a condition; a global one is loaded first.
Test(c, e) ==
  LET o == Operand(c, e)
  IN  IF o.r < 0 THEN Done(o.c, FALSE)
      ELSE Done(Release(Emit(o.c, "TEST", o.r, 0, 0), e, o.r), TRUE)

LoadBoolean(c, r, b) ==
  LET k == ConstGet(c, Boolean(b)) IN Emit(k.c, "LOAD", r, k.num, 0)

LogicAnd(c, n) ==
  LET l == Expr(c, Kid(n, 1))
      right == RightOperand(l.c, n)
      t == Pop(l.c)
      test == Test(t.c, l.e)
      r == RightOperand(test.c, n)
      mov == Consume(r.c, "MOV", t.r, r.e)
      jump == Emit(mov.c, "JMPI", 0, 0, 0)
      no == LoadBoolean(SkipToHere(jump, Here(t.c)), t.r, FALSE)
      end == SetE(no, Here(mov.c), Here(no))
  IN  IF Assigns(Kid(n, 1)) \/ Assigns(Kid(n, 2)) THEN Fail(c)
      ELSE IF Is(l.e, "BOOL") /\ IsConstant(l.e) /\ l.e.v = 0
        THEN [c |-> l.c, e |-> Boolean(FALSE), ok |-> l.ok]
      ELSE IF Is(l.e, "BOOL") /\ IsConstant(l.e) THEN [right EXCEPT !.ok = @ /\ l.ok]
      ELSE IF Is(l.e, "BOOL") /\ IsVariable(l.e)
        THEN [c |-> Cleanup(Cleanup(end, r.e), l.e), e |-> Temp(Basic("BOOL"), t.r),
              ok |-> l.ok /\ t.r >= 0 /\ test.ok /\ r.ok /\ mov.ok]
      ELSE [Fail(l.c) EXCEPT !.c = Cleanup(@, l.e)]

\* The same for ||, but the register of the left operand is never given back.
LogicOr(c, n) ==
  LET l == Expr(c, Kid(n, 1))
      right == RightOperand(l.c, n)
      t == Pop(l.c)
      test == Test(t.c, l.e)
      yes == LoadBoolean(test.c, t.r, TRUE)
      jump == SkipToHere(Emit(yes, "JMPI", 0, 0, 0), Here(t.c))
      r == RightOperand(jump, n)
      mov == Consume(r.c, "MOV", t.r, r.e)
      end == SetE(mov.c, Here(yes), Here(mov.c))
  IN  IF Assigns(Kid(n, 1)) \/ Assigns(Kid(n, 2)) THEN Fail(c)
      ELSE IF Is(l.e, "BOOL") /\ IsConstant(l.e) /\ l.e.v # 0 THEN l
      ELSE IF Is(l.e, "BOOL") /\ IsConstant(l.e) THEN [right EXCEPT !.ok = @ /\ l.ok]
      ELSE IF Is(l.e, "BOOL") /\ IsVariable(l.e)
        THEN [c |-> Cleanup(end, r.e), e |-> Temp(Basic("BOOL"), t.r),
              ok |-> l.ok /\ t.r >= 0 /\ test.ok /\ r.ok /\ mov.ok]
      ELSE Fail(l.c)

\* x = e: MOV or GLOBAL_SET; the register of a loaded operand is given back
\* by the caller.
AssignVariable(c, x, e, r) ==
  LET v == Identifier(c, x)
      yes == Assignable(e, v.e.t)
      set == CASE v.e.type = "GLOBAL" -> Emit(v.c, "GLOBAL_SET", r, v.e.u, 0)
               [] v.e.type = "LOCAL" -> Emit(v.c, "MOV", v.e.u, r, 0)
               [] OTHER -> Error(v.c)
  IN  Done(Require(set, yes), v.ok /\ yes /\ v.e.type \in {"GLOBAL", "LOCAL"})

\* a[k] = e and a[] = e; register 0 stands for no key.  The caller cleans up
\* the array after the value.
AssignElement(c, x, e, r) ==
  LET a == Expr(c, Kid(x, 1))
      yes == Assignable(e, a.e.t.sub[1])
      k == IF Len(Kids(x)) = 2 THEN Expr(a.c, Kid(x, 2)) ELSE Done(a.c, TRUE)
      i == IF Len(Kids(x)) = 2 THEN Operand(k.c, k.e) ELSE [c |-> k.c, r |-> 0]
      o == Operand(i.c, a.e)
      set == Release(Emit(o.c, "ARRAY_SET", o.r, i.r, r), a.e, o.r)
      keep == IF Len(Kids(x)) = 2 THEN Release(set, k.e, i.r) ELSE set
  IN  IF Is(a.e, "ARRAY") /\ IsVariable(a.e)
      THEN [c |-> Cleanup(Require(keep, yes), k.e), e |-> a.e,
            ok |-> a.ok /\ yes /\ k.ok /\ i.r >= 0 /\ o.r >= 0]
      ELSE IF Is(a.e, "MAP") /\ IsVariable(a.e) THEN a
      ELSE [Fail(a.c) EXCEPT !.e = a.e]

Assignment(c, n) ==
  LET x == Kid(n, 1)
      r == Expr(c, Kid(n, 2))
      o == Operand(r.c, r.e)
      set == IF Type(x) = "IDENTIFIER_TOKEN" THEN AssignVariable(o.c, x, r.e, o.r)
             ELSE IF Type(x) = "BINARY_EXPRESSION" /\ Tag(x) = "[" THEN AssignElement(o.c, x, r.e, o.r)
             ELSE IF Type(x) = "BINARY_EXPRESSION" /\ Tag(x) \in {".", "->"} THEN Done(o.c, TRUE)
             ELSE Done(Error(o.c), FALSE)
  IN  Done(Cleanup(Cleanup(Release(set.c, r.e, o.r), r.e), set.e), r.ok /\ o.r >= 0 /\ set.ok)

\* The arguments of a call, from the left; s has their results in `args'.
Argument(s, n) ==
  LET a == Expr(s.c, n) IN [c |-> a.c, ok |-> s.ok /\ a.ok, args |-> Append(s.args, a.e)]

\* CALL_SET of argument i: it has exactly the type of its parameter.  The
\* register of a literal or a global is not given back.
PassArgument(s, i, params) ==
  LET e == s.args[i]
      yes == i \in DOMAIN params => Same(params[i], e.t)
      o == Operand(s.c, e)
  IN  [s EXCEPT !.c = Cleanup(Emit(Require(o.c, yes), "CALL_SET", 3 + i, o.r, 0), e),
                !.ok = @ /\ yes /\ o.r >= 0]

IsMethod(n) == Type(n) = "BINARY_EXPRESSION" /\ Tag(n) \in {".", "->"}

\* kind: CALL, TAIL_CALL or CO_CALL.
CallExpr(c, n, kind) ==
  LET f == IF IsMethod(Kid(n, 1)) THEN Done(c, TRUE) ELSE Expr(c, Kid(n, 1))
      params == SubSeq(f.e.t.sub, 3, Len(f.e.t.sub))
      actual == Kids(Kid(n, 2))
      arity == Len(actual) = Len(params)
      a == FoldLeft(Argument, [c |-> Require(f.c, arity), ok |-> f.ok /\ arity, args |-> <<>>], actual)
      r == Operand(a.c, f.e)
      new == Emit(r.c, "CALL_NEW", r.r, 0, 0)
      s == FoldLeft(LAMBDA x, i : PassArgument(x, i, params), [a EXCEPT !.c = new],
                    [i \in DOMAIN actual |-> i])
      t == Pop(s.c)
      call == IF kind = "CALL" THEN Emit(t.c, "CALL", t.r, r.r, 0) ELSE Emit(t.c, kind, r.r, 0, 0)
  IN  IF ~Is(f.e, "FUNCTION") THEN Fail(f.c)
      ELSE [c |-> Cleanup(Release(call, f.e, r.r), f.e), e |-> Temp(f.e.t.sub[2], t.r),
            ok |-> s.ok /\ r.r >= 0]

\* The condition of the source says !!, so a key of any type passes.
IndexExpr(c, n) ==
  LET a == Expr(c, Kid(n, 1))
      k == Expr(a.c, Kid(n, 2))
      x == BinaryOperator(k.c, "[", Hole, a.e, k.e)
      t == IF x.e.t = Hole THEN a.e.t.sub[1] ELSE x.e.t
  IN  IF ~Is(a.e, "ARRAY") THEN Fail(a.c)
      ELSE [c |-> Cleanup(Cleanup(x.c, k.e), a.e), e |-> [x.e EXCEPT !.t = t],
            ok |-> a.ok /\ k.ok /\ x.ok]

Binary(c, n) ==
  CASE Tag(n) = "&&" -> LogicAnd(c, n)
    [] Tag(n) = "||" -> LogicOr(c, n)
    [] Tag(n) \in {"+", "-", "*", "/", "%"} -> Math(c, n)
    [] Tag(n) \in Relations -> RelationExpr(c, n)
    [] Tag(n) \in {"<<", ">>", "&", "|", "^"} -> Bitwise(c, n)
    [] Tag(n) = "=" -> Assignment(c, n)
    [] Tag(n) = "(" -> CallExpr(c, n, "CALL")
    [] Tag(n) = "[" -> IndexExpr(c, n)
    [] OTHER -> Fail(c)

UnaryOperand == [x \in {"!", "~", "-"} |->
  CASE x = "!" -> {"BOOL"} [] x = "~" -> {"LONG"} [] x = "-" -> {"LONG", "DOUBLE"}]

\* compiler_unary_expression and the three operators.
Unary(c, n) ==
  LET a == Expr(c, Kid(n, 1))
      x == UnaryOperator(a.c, Tag(n), a.e)
      typed == a.e.t.tag \in UnaryOperand[Tag(n)]
  IN  IF typed THEN [x EXCEPT !.c = Cleanup(@, a.e), !.ok = @ /\ a.ok]
      ELSE [Fail(a.c) EXCEPT !.c = Cleanup(@, a.e)]

\* One element of an array literal.  s.t is the element type so far, s.arr the
\* constant array while every element is one; register s.r holds the array.
ArrayElement(s, n) ==
  LET x == Expr(s.c, n)
      i == Inferred(x.e.t, s.t)
      typed == IF Definite(s.t) THEN Assignable(x.e, s.t) ELSE i.ok
      keep == s.const /\ IsConstant(x.e)
      value == IF x.e.t.tag \in Storable THEN {ToValue(x.e)} ELSE {}
      o == Operand(Require(x.c, typed), x.e)
      set == Release(Emit(o.c, "ARRAY_SET", s.r, 0, o.r), x.e, o.r)
  IN  IF ~x.ok THEN [s EXCEPT !.c = Cleanup(x.c, x.e), !.ok = FALSE, !.i = @ + 1]
      ELSE [c |-> Cleanup(set, x.e), r |-> s.r, i |-> s.i + 1, const |-> keep,
            t |-> IF Definite(s.t) THEN s.t ELSE i.type,
            arr |-> IF keep /\ value # {}
                    THEN [k \in DOMAIN s.arr \cup {<<"LONG", s.i>>} |->
                            IF k = <<"LONG", s.i>> THEN CHOOSE v \in value : TRUE ELSE s.arr[k]]
                    ELSE s.arr,
            ok |-> s.ok /\ typed /\ o.r >= 0 /\ (keep => value # {})]

\* An array of constants is one itself: the code that would build it is
\* discarded.
ArrayExpr(c, n) ==
  LET t == Pop(c)
      s == FoldLeft(ArrayElement,
             [c |-> Emit(t.c, "ARRAY_NEW", t.r, 0, 0), r |-> t.r, i |-> 0, const |-> TRUE,
              t |-> Hole, arr |-> EmptyArray, ok |-> t.r >= 0], Kids(n))
  IN  IF s.const
      THEN [c |-> Push([s.c EXCEPT !.bc = SubSeq(@, 1, Here(c))], t.r), ok |-> s.ok,
            e |-> [Literal(ArrayOf(s.t), s.arr) EXCEPT !.text = Text(n)]]
      ELSE [c |-> s.c, e |-> Temp(ArrayOf(s.t), t.r), ok |-> s.ok]

Expr(c, n) ==
  CASE c.abort -> Done(c, FALSE)
    [] Type(n) \in DOMAIN TokenType -> Token(c, n)
    [] Type(n) = "IDENTIFIER_TOKEN" -> Identifier(c, n)
    [] Type(n) \in {"TRUE_TOKEN", "FALSE_TOKEN"} ->
         [c |-> c, e |-> Boolean(Type(n) = "TRUE_TOKEN"), ok |-> TRUE]
    [] Type(n) = "BINARY_EXPRESSION" -> Binary(c, n)
    [] Type(n) = "UNARY_EXPRESSION" -> Unary(c, n)
    [] Type(n) = "ARRAY_EXPRESSION" -> ArrayExpr(c, n)
    [] Type(n) = "STRUCT_EXPRESSION" -> Done(c, TRUE)
    [] OTHER -> Fail(c)

-----------------------------------------------------------------------------
(* Statements.                                                             *)

RECURSIVE Statement(_, _)

\* The operands of a declaration's type check: a hole takes the type of the
\* initialiser, which then must be known.
Typed(c, d, e) ==
  LET i == Inferred(e.t, c.ty[d])
      hole == c.ty[d] = Hole
      yes == IF hole THEN i.ok /\ Definite(i.type) ELSE Assignable(e, c.ty[d])
  IN  Done([Require(c, yes) EXCEPT !.ty[d] = IF hole THEN i.type ELSE @], yes)

Variables(c, b) == SelectSeq(c.sym.tab[b], LAMBDA d : d.kind = "VARIABLE")

AllocateVariable(s, d) ==
  LET p == Pop(s.c) IN Done([p.c EXCEPT !.reg[d.node] = p.r], s.ok /\ p.r >= 0)

StatementAfter(s, n) ==
  LET x == Statement(s.c, n) IN Done(x.c, s.ok /\ x.ok)

\* compiler_block_statement: the variables of a block have registers while
\* its statements are compiled.
Block(c, b) ==
  LET taken == FoldLeft(AllocateVariable, Done(c, TRUE), Variables(c, b))
      body == FoldLeft(StatementAfter, taken, Kids(b))
  IN  [body EXCEPT !.c = FoldLeft(LAMBDA x, d : Push(x, x.reg[d.node]), @, Variables(c, b))]

\* The condition of a statement: whether its value is known, and if not the
\* code that tests it, `at' being where that begins.
Condition(c, n) ==
  LET e == Expr(c, n)
      test == Test(e.c, e.e)
      known == Is(e.e, "BOOL") /\ IsConstant(e.e)
  IN  CASE Assigns(n) -> [c |-> Error(c), kind |-> "error", ok |-> FALSE, at |-> 0]
        [] ~Assigns(n) /\ ~e.ok -> [c |-> e.c, kind |-> "error", ok |-> FALSE, at |-> 0]
        [] ~Assigns(n) /\ e.ok /\ known ->
             [c |-> e.c, kind |-> IF e.e.v = 0 THEN "false" ELSE "true", ok |-> TRUE, at |-> 0]
        [] ~Assigns(n) /\ e.ok /\ ~known /\ Is(e.e, "BOOL") ->
             [c |-> Cleanup(test.c, e.e), kind |-> "tested", ok |-> test.ok, at |-> Here(e.c)]
        [] OTHER -> [c |-> Error(e.c), kind |-> "error", ok |-> FALSE, at |-> 0]

IfStatement(c, n) ==
  LET k == Condition(c, Kid(n, 1))
      body == Block(k.c, Kid(n, 2))
  IN  CASE k.kind = "error" -> Done(k.c, FALSE)
        [] k.kind = "false" -> Done(k.c, TRUE)
        [] k.kind = "true" -> body
        [] k.kind = "tested" -> IF ~body.ok THEN body ELSE Done(SkipToHere(body.c, k.at), k.ok)

\* The other branch is a block or another if.
Branch(c, n) == IF Type(n) = "BLOCK_STATEMENT" THEN Block(c, n) ELSE Statement(c, n)

IfElseStatement(c, n) ==
  LET k == Condition(c, Kid(n, 1))
      body == Block(k.c, Kid(n, 2))
      jump == SkipToHere(Emit(body.c, "JMPI", 0, 0, 0), k.at)
      other == Branch(jump, Kid(n, 3))
  IN  CASE k.kind = "error" -> Done(k.c, FALSE)
        [] k.kind = "false" -> Branch(k.c, Kid(n, 3))
        [] k.kind = "true" -> body
        [] k.kind = "tested" -> Done(SetE(other.c, Here(body.c), Here(other.c)),
                                  k.ok /\ body.ok /\ other.ok)

Loops == {"FOR_STATEMENT", "WHILE_STATEMENT", "DO_STATEMENT"}

\* jmp_find_loop and jmp_find_loop_or_switch, 0 for none.
RECURSIVE JmpTarget(_, _)
JmpTarget(n, types) ==
  IF n = 0 \/ (n # 0 /\ Type(n) \in types) THEN n ELSE JmpTarget(Parent(n), types)

\* compiler_continue_statement and compiler_break_statement.
Jump(c, n) ==
  LET to == JmpTarget(n, IF Type(n) = "CONTINUE_STATEMENT" THEN Loops
                         ELSE Loops \cup {"SWITCH_STATEMENT"})
  IN  IF to = 0 THEN Fail(c)
      ELSE Done(Emit([c EXCEPT !.jmps[to] = Append(@, n), !.pos[n] = Here(c)], "JMPI", 0, 0, 0), TRUE)

JmpFix(c, n, start, end) ==
  FoldLeft(LAMBDA x, j : SetE(x, x.pos[j], IF Type(j) = "BREAK_STATEMENT" THEN end ELSE start),
           c, c.jmps[n])

\* A clause of for, none or one expression.
ForClause(c, n) ==
  IF Kids(n) = <<>> THEN Done(c, TRUE)
  ELSE LET e == Expr(c, Kid(n, 1)) IN Done(Cleanup(e.c, e.e), e.ok)

\* A TEST at address 0 would not be patched.
ForStatement(c, n) ==
  LET first == ForClause(c, Kid(n, 1))
      k == IF Kids(Kid(n, 2)) = <<>> THEN [c |-> first.c, kind |-> "true", ok |-> TRUE, at |-> 0]
           ELSE Condition(first.c, Kid(Kid(n, 2), 1))
      body == Block(k.c, Kid(n, 4))
      last == ForClause(body.c, Kid(n, 3))
      back == Emit(last.c, "JMPI", Here(first.c), 0, 0)
      end == IF k.at # 0 THEN SkipToHere(back, k.at) ELSE back
  IN  IF Kids(Kid(n, 2)) # <<>> /\ Assigns(Kid(Kid(n, 2), 1)) THEN Fail(c)
      ELSE IF ~first.ok THEN first
      ELSE IF k.kind \in {"error", "false"} THEN Done(k.c, k.kind = "false")
      ELSE IF ~body.ok \/ ~last.ok THEN Done(last.c, FALSE)
      ELSE Done(JmpFix(end, n, Here(body.c), Here(back)), k.ok)

WhileStatement(c, n) ==
  LET k == Condition(c, Kid(n, 1))
      body == Block(k.c, Kid(n, 2))
      back == Emit(body.c, "JMPI", Here(c), 0, 0)
      end == IF k.kind = "tested" THEN SkipToHere(back, k.at) ELSE back
  IN  IF k.kind \in {"error", "false"} THEN Done(k.c, k.kind = "false")
      ELSE IF ~body.ok THEN body
      ELSE Done(JmpFix(end, n, Here(c), Here(back)), k.ok)

DoStatement(c, n) ==
  LET body == Block(c, Kid(n, 1))
      k == Condition(body.c, Kid(n, 2))
      back == IF k.kind = "false" THEN k.c ELSE Emit(k.c, "JMPI", Here(c), 0, 0)
      end == IF k.kind = "tested" THEN SkipToHere(back, k.at) ELSE back
  IN  IF Assigns(Kid(n, 2)) THEN Fail(c)
      ELSE IF ~body.ok THEN body
      ELSE IF k.kind = "error" THEN Done(k.c, FALSE)
      ELSE Done(JmpFix(end, n, Here(c), Here(back)), k.ok)

\* The cases of a switch are not compiled.
SwitchStatement(c, n) ==
  LET e == Expr(c, Kid(n, 1))
      yes == e.e.t.tag \in {"LONG", "STRING"}
  IN  IF ~e.ok THEN Done(e.c, FALSE)
      ELSE Done(IF Len(Kids(n)) = 1 THEN Cleanup(Require(e.c, yes), e.e) ELSE Require(e.c, yes), yes)

\* One catch block, jumped over when nothing was thrown.
CatchBlock(s, k) ==
  LET block == Kid(k, 2)
      body == Block(Emit(s.c, "JMPI", 0, 0, 0), block)
      d == CHOOSE d \in SymbolGet(s.c.sym, block, NameOf(Kid(Kid(k, 1), 1)), block) : TRUE
      end == IF Here(body.c) = Here(s.c) + 1 THEN Emit(body.c, "NOP", 0, 0, 0) ELSE body.c
  IN  [c |-> SetE(end, Here(s.c), Here(end)), ok |-> s.ok /\ body.ok,
       catches |-> Append(s.catches, [start |-> Here(s.c) + 1, type |-> body.c.ty[d.node],
                                      reg |-> body.c.reg[d.node]])]

\* A try block without code, or without a catch, is not entered in the table.
TryStatement(c, n) ==
  LET body == Block(c, Kid(n, 1))
      s == FoldLeft(CatchBlock, [c |-> body.c, ok |-> body.ok, catches |-> <<>>], Tail(Kids(n)))
      entry == [start |-> Here(c), end |-> Here(body.c) - 1, catch |-> s.catches]
  IN  IF Here(body.c) = Here(c) THEN body
      ELSE Done(IF s.catches = <<>> THEN s.c ELSE [s.c EXCEPT !.exc = @ \cup {entry}], s.ok)

\* throw and echo.
ConsumeStatement(c, n, op) ==
  LET e == Expr(c, Kid(n, 1))
      x == Consume(e.c, op, 0, e.e)
  IN  IF ~e.ok THEN Done(e.c, FALSE) ELSE Done(Cleanup(x.c, e.e), x.ok)

\* find_function.
RECURSIVE Enclosing(_)
Enclosing(n) == IF Type(n) = "FUNCTION_DECLARATION" THEN n ELSE Enclosing(Parent(n))

IsCall(n) == Type(n) = "BINARY_EXPRESSION" /\ Tag(n) = "("

ReturnStatement(c, n) ==
  LET f == Enclosing(n)
      d == CHOOSE d \in SymbolGet(c.sym, f, Tag(Kid(f, 2)), f) : TRUE
      e == IF IsCall(Kid(n, 1)) THEN CallExpr(c, Kid(n, 1), "TAIL_CALL") ELSE Expr(c, Kid(n, 1))
      yes == Same(c.ty[d.node].sub[2], e.e.t)
      x == Consume(Require(e.c, yes), "RET", 0, e.e)
  IN  Done(Cleanup(x.c, e.e), e.ok /\ yes /\ x.ok)

CoStatement(c, n) ==
  LET e == CallExpr(c, Kid(n, 1), "CO_CALL")
  IN  IF ~IsCall(Kid(n, 1)) THEN Fail(c)
      ELSE IF ~e.ok THEN Done(e.c, FALSE) ELSE Done(Cleanup(e.c, e.e), TRUE)

ExpressionStatement(c, n) ==
  LET e == Expr(c, Kid(n, 1))
  IN  IF ~e.ok THEN Done(e.c, FALSE) ELSE Done(Cleanup(e.c, e.e), TRUE)

LocalVariable(c, n) ==
  LET e == Expr(c, Kid(n, 3))
      t == Typed(e.c, n, e.e)
      x == Consume(t.c, "MOV", c.reg[n], e.e)
  IN  IF Len(Kids(n)) = 2 THEN Done(Require(c, c.ty[n] # Hole), c.ty[n] # Hole)
      ELSE Done(Cleanup(x.c, e.e), e.ok /\ t.ok /\ x.ok)

ConstantDeclaration(c, n) ==
  LET e == Expr(c, Kid(n, 3))
      t == Typed(e.c, n, e.e)
      k == ConstGet(t.c, e.e)
  IN  IF ~IsConstant(e.e) THEN [Fail(e.c) EXCEPT !.c = Cleanup(@, e.e)]
      ELSE Done([k.c EXCEPT !.reg[n] = k.num], e.ok /\ t.ok)

GlobalVariable(c, n) ==
  LET e == Expr(c, Kid(n, 3))
      t == Typed(Require(e.c, IsConstant(e.e)), n, e.e)
  IN  IF Len(Kids(n)) = 2 THEN Done(Require(c, c.ty[n] # Hole), c.ty[n] # Hole)
      ELSE IF e.e.t.tag \notin Storable THEN Done(t.c, FALSE)
      ELSE Done(Cleanup([t.c EXCEPT !.init[n] = ToValue(e.e)], e.e),
                e.ok /\ IsConstant(e.e) /\ t.ok)

Statement(c, n) ==
  CASE c.abort -> Done(c, FALSE)
    [] Type(n) = "IF_STATEMENT" -> IfStatement(c, n)
    [] Type(n) = "IF_ELSE_STATEMENT" -> IfElseStatement(c, n)
    [] Type(n) = "FOR_STATEMENT" -> ForStatement(c, n)
    [] Type(n) = "WHILE_STATEMENT" -> WhileStatement(c, n)
    [] Type(n) = "DO_STATEMENT" -> DoStatement(c, n)
    [] Type(n) \in {"CONTINUE_STATEMENT", "BREAK_STATEMENT"} -> Jump(c, n)
    [] Type(n) = "SWITCH_STATEMENT" -> SwitchStatement(c, n)
    [] Type(n) = "TRY_STATEMENT" -> TryStatement(c, n)
    [] Type(n) = "THROW_STATEMENT" -> ConsumeStatement(c, n, "THROW")
    [] Type(n) = "ECHO_STATEMENT" -> ConsumeStatement(c, n, "ECHO")
    [] Type(n) = "RETURN_STATEMENT" -> ReturnStatement(c, n)
    [] Type(n) = "CO_STATEMENT" -> CoStatement(c, n)
    [] Type(n) = "EXPRESSION_STATEMENT" -> ExpressionStatement(c, n)
    [] Type(n) = "VARIABLE_DECLARATION" -> LocalVariable(c, n)
    [] Type(n) = "CONSTANT_DECLARATION" -> ConstantDeclaration(c, n)
    [] Type(n) = "TYPE_DECLARATION" -> Done(c, TRUE)
    [] OTHER -> Fail(c)

-----------------------------------------------------------------------------
(* The program.                                                            *)

Bug_window_without_the_last(c) == c.max

\* The registers of a function, fun->stack_size.
WindowSize(c) == c.max + 1

\* compiler_function_declaration: four registers are the header of a frame,
\* and every function ends in a return of register 0.
FunctionDeclaration(c, f) ==
  LET header == [c EXCEPT !.fn = f, !.free = SubSeq(AllFree, 1, NREGS - 4), !.max = 3,
                          !.held = 0 .. 3]
      body == Block(header, Kid(f, 5))
      end == Emit(body.c, "RET", 0, 0, 0)
  IN  Done([end EXCEPT !.fn = 0, !.held = {},
              !.fun = @ @@ (f :> [addr |-> Here(c), end |-> Here(body.c), size |-> WindowSize(end),
                             arg_len |-> Len(Kids(Kid(f, 3)))])],
           body.ok)

\* Globals are numbered and functions get a constant before any code.
Prepare(c, d) ==
  LET k == ConstGetFunction(c, d.name)
  IN  CASE d.kind = "VARIABLE" ->
             [c EXCEPT !.reg[d.node] = Len(c.global), !.global = Append(@, d.node)]
        [] d.kind = "CONSTANT" /\ d.type.tag = "FUNCTION" -> [k.c EXCEPT !.reg[d.node] = k.num]
        [] OTHER -> c

TopLevel(s, n) ==
  LET x == CASE s.c.abort -> s
             [] Type(n) = "FUNCTION_DECLARATION" -> FunctionDeclaration(s.c, n)
             [] Type(n) = "VARIABLE_DECLARATION" -> GlobalVariable(s.c, n)
             [] Type(n) = "CONSTANT_DECLARATION" -> ConstantDeclaration(s.c, n)
             [] Type(n) \in {"PACKAGE_DECLARATION", "IMPORT_DECLARATION", "EXPORT_DECLARATION"} ->
                  Done(s.c, TRUE)
             [] OTHER -> Fail(s.c)
  IN  Done(x.c, s.ok /\ x.ok)

\* lgx_compiler_generate, of a tree whose symbols are s.
Generated(s) ==
  LET start == FoldLeft(Prepare, Start(s), s.tab[s.root])
      x == FoldLeft(TopLevel, Done(start, TRUE), Kids(s.root))
      functions == SelectSeq(Kids(s.root), LAMBDA n : Type(n) = "FUNCTION_DECLARATION")
  IN  Done(FoldLeft(ConstUpdateFunction, x.c, functions), x.ok)

\* The code of a program: none if its symbols are not in order.
Compiled(root) ==
  LET s == Symbols(root)
  IN  IF s.abort \/ ~s.ok THEN Done([Start(s) EXCEPT !.abort = s.abort], FALSE) ELSE Generated(s)
=============================================================================
