------------------------------ MODULE Meaning -------------------------------
(***************************************************************************)
(* What a program means, from its tree alone: the reference the compiler   *)
(* and the machine are compared with.  Nothing here is taken from the      *)
(* compiler: names are bound by the nesting of blocks, operands are        *)
(* computed from the left, && and || stop when they can, an exception goes *)
(* to the nearest catch block of its type, and coroutines run in the order *)
(* they were started.                                                      *)
(*                                                                         *)
(* s: the variables of the call in progress, by declaration, the global    *)
(* ones, what was printed and the coroutines that were started.            *)
(***************************************************************************)
EXTENDS Machine

\* The declaration a name means.
Binding(n) ==
  LET b == CHOOSE b \in Candidates(n) : \A x \in Candidates(n) : x <= b
  IN  CHOOSE d \in ScopeOf(b) : DeclName(d) = Tag(n)

Val(s, v) == [s |-> s, v |-> v, e |-> <<>>]
Thrown(s, e) == [s |-> s, v |-> Empty, e |-> <<e>>]

\* What follows the value x, unless an exception was thrown instead.
Then(x, F(_)) == IF x.e # <<>> THEN x ELSE F(x)

Computed(s, op, x, y) ==
  CASE op \in Relations -> Val(s, Truth(Relation(op, x[2], y[2])))
    [] op = "+" /\ x[1] = "STRING" -> Val(s, Str(x[2] \o y[2]))
    [] op = "[" -> Val(s, IF y \in DOMAIN x[2] THEN x[2][y] ELSE Null)
    [] op = "/" -> IF y[2] = 0 THEN Thrown(s, ZeroDivision)
                   ELSE Val(s, <<x[1], Quotient(x[2], y[2])>>)
    [] op = "%" -> Val(s, Lng(x[2] - y[2] * Quotient(x[2], y[2])))
    [] OTHER -> Val(s, <<x[1], Arithmetic(op, x[2], y[2])>>)

RECURSIVE Eval(_, _), Exec(_, _)

\* The values of a list of expressions, up to one that throws.
EvalNext(a, n) ==
  Then(a, LAMBDA p : LET x == Eval(p.s, n) IN [x EXCEPT !.v = Append(p.v, @)])

EvalAll(s, nodes) == FoldLeft(EvalNext, Val(s, <<>>), nodes)

\* The value of a call that ended as x says: the caller's variables are back.
Returned(s, x) ==
  [s |-> [x.s EXCEPT !.env = s.env], v |-> IF x.k = "return" THEN x.v ELSE Empty,
   e |-> IF x.k = "throw" THEN <<x.v>> ELSE <<>>]

\* A call of f: its parameters are its first variables.
Invoke(s, f, args) ==
  LET params == Kids(Kid(f, 3))
      env == [d \in Range(params) |-> args[CHOOSE i \in DOMAIN params : params[i] = d]]
  IN  Returned(s, Exec([s EXCEPT !.env = env], Kid(f, 5)))

\* A function and its arguments.
CallParts(n) == <<Kid(n, 1)>> \o Kids(Kid(n, 2))

EvalCall(s, n) ==
  Then(EvalAll(s, CallParts(n)), LAMBDA a :
    IF a.v[1][1] # "FUNCTION" THEN Thrown(a.s, TypeError) ELSE Invoke(a.s, a.v[1][2], Tail(a.v)))

Logic(s, n) ==
  LET stop == Truth(Tag(n) = "||")
  IN  Then(Eval(s, Kid(n, 1)), LAMBDA l : IF l.v = stop THEN l ELSE Eval(l.s, Kid(n, 2)))

Set(s, d, v) ==
  IF IsGlobal(d) THEN [s EXCEPT !.glob = (d :> v) @@ @] ELSE [s EXCEPT !.env = (d :> v) @@ @]

\* A named constant is worth its initialiser, a function is itself.
EvalName(s, n) ==
  LET d == Binding(n)
  IN  CASE Type(d) = "FUNCTION_DECLARATION" -> Val(s, <<"FUNCTION", d>>)
        [] Type(d) = "CONSTANT_DECLARATION" -> [Eval(s, Kid(d, 3)) EXCEPT !.s = s]
        [] IsGlobal(d) -> Val(s, s.glob[d])
        [] OTHER -> Val(s, s.env[d])

\* The key of a[k] or, of a[], the next number.
EvalKey(s, x, a) ==
  IF Len(Kids(x)) = 2 THEN Eval(s, Kid(x, 2)) ELSE Val(s, Lng(Cardinality(DOMAIN a[2])))

\* x = e, a[k] = e and a[] = e, a being a variable.
Assign(s, n) ==
  LET x == Kid(n, 1)
  IN  Then(Eval(s, Kid(n, 2)), LAMBDA r :
        IF Type(x) = "IDENTIFIER_TOKEN" THEN Val(Set(r.s, Binding(x), r.v), r.v)
        ELSE LET a == EvalName(r.s, Kid(x, 1)).v
             IN  Then(EvalKey(r.s, x, a), LAMBDA k :
                   Val(Set(k.s, Binding(Kid(x, 1)), <<"ARRAY", (k.v :> r.v) @@ a[2], a[3]>>), r.v)))

Unaries(op, v) ==
  CASE op = "!" -> Truth(v[2] = 0)
    [] op = "-" -> <<v[1], -v[2]>>
    [] op = "~" -> Lng(-v[2] - 1)

Elements(v) == <<"ARRAY", [k \in {Lng(i - 1) : i \in DOMAIN v} |-> v[k[2] + 1]], Hole>>

\* An operator on the values of its operands.
EvalOperator(s, n) ==
  Then(EvalAll(s, Kids(n)), LAMBDA a :
    CASE Type(n) = "UNARY_EXPRESSION" -> Val(a.s, Unaries(Tag(n), a.v[1]))
      [] Type(n) = "ARRAY_EXPRESSION" -> Val(a.s, Elements(a.v))
      [] OTHER -> Computed(a.s, Tag(n), a.v[1], a.v[2]))

Eval(s, n) ==
  CASE Type(n) \in DOMAIN TokenType -> Val(s, <<TokenType[Type(n)], Tag(n)>>)
    [] Type(n) \in {"TRUE_TOKEN", "FALSE_TOKEN"} -> Val(s, Truth(Type(n) = "TRUE_TOKEN"))
    [] Type(n) = "IDENTIFIER_TOKEN" -> EvalName(s, n)
    [] Type(n) = "BINARY_EXPRESSION" /\ Tag(n) = "(" -> EvalCall(s, n)
    [] Type(n) = "BINARY_EXPRESSION" /\ Tag(n) \in {"&&", "||"} -> Logic(s, n)
    [] Type(n) = "BINARY_EXPRESSION" /\ Tag(n) = "=" -> Assign(s, n)
    [] OTHER -> EvalOperator(s, n)

-----------------------------------------------------------------------------
(* Statements: k says how one ended, "next", "break", "continue", "return" *)
(* or "throw", the last two with a value.                                  *)

Proceed(s) == [s |-> s, k |-> "next", v |-> Empty]

\* What follows an expression, if it does not throw.
After(x, F(_)) == IF x.e # <<>> THEN [s |-> x.s, k |-> "throw", v |-> Head(x.e)] ELSE F(x)

\* A statement that ends with the value of an expression.
Ended(x, k) == After(x, LAMBDA y : [s |-> y.s, k |-> k, v |-> y.v])

\* What follows a statement that ended in one of `ways'.
Following(x, ways, F(_)) == IF x.k \in ways THEN F(x) ELSE x

ExecNext(a, n) == Following(a, {"next"}, LAMBDA x : Exec(x.s, n))

\* A break leaves the loop or the switch.
Leaving(x) == IF x.k = "break" THEN Proceed(x.s) ELSE x

\* None or one expression.
Clause(s, nodes) ==
  IF nodes = <<>> THEN Val(s, Truth(TRUE)) ELSE Eval(s, nodes[1])

\* A loop from the test of its condition on; `step' is what follows the body.
RECURSIVE Loop(_, _, _, _)
Loop(s, cond, body, step) ==
  After(Clause(s, cond), LAMBDA c :
    IF c.v = Truth(FALSE) THEN Proceed(c.s)
    ELSE Leaving(Following(Exec(c.s, body), {"next", "continue"}, LAMBDA x :
           After(Clause(x.s, step), LAMBDA y : Loop(y.s, cond, body, step)))))

ExecIf(s, n) ==
  After(Eval(s, Kid(n, 1)), LAMBDA c :
    IF c.v = Truth(TRUE) THEN Exec(c.s, Kid(n, 2))
    ELSE IF Len(Kids(n)) = 3 THEN Exec(c.s, Kid(n, 3)) ELSE Proceed(c.s))

\* A do loop is its body and then a while loop.
ExecDo(s, n) ==
  Leaving(Following(Exec(s, Kid(n, 1)), {"next", "continue"}, LAMBDA x :
    Loop(x.s, <<Kid(n, 2)>>, Kid(n, 1), <<>>)))

ExecFor(s, n) ==
  After(Clause(s, Kids(Kid(n, 1))), LAMBDA x :
    Loop(x.s, Kids(Kid(n, 2)), Kid(n, 4), Kids(Kid(n, 3))))

\* The blocks of a switch that run when its value is v: from the case with
\* that value on, or from the default.
SelectedFrom(n, v) ==
  LET matches == {i \in 2 .. Len(Kids(n)) : Type(Kid(n, i)) = "CASE_STATEMENT"
                                              /\ Tag(Kid(Kid(n, i), 1)) = v[2]}
      defaults == {i \in 2 .. Len(Kids(n)) : Type(Kid(n, i)) = "DEFAULT_STATEMENT"}
      chosen == IF matches # {} THEN matches ELSE defaults
  IN  IF chosen = {} THEN <<>> ELSE SubSeq(Kids(n), CHOOSE i \in chosen : TRUE, Len(Kids(n)))

ExecSwitch(s, n) ==
  After(Eval(s, Kid(n, 1)), LAMBDA x :
    Leaving(FoldLeft(ExecNext, Proceed(x.s),
                     [i \in DOMAIN SelectedFrom(n, x.v) |-> Last(Kids(SelectedFrom(n, x.v)[i]))])))

ExecTry(s, n) ==
  LET param(k) == Kid(Kid(Kid(n, k), 1), 1)
      catching(v) == {k \in 2 .. Len(Kids(n)) : Tag(Kid(param(k), 2)) = v[1]}
      caught(x, k) == Exec([x.s EXCEPT !.env = (param(k) :> x.v) @@ @], Kid(Kid(n, k), 2))
  IN  Following(Exec(s, Kid(n, 1)), {"throw"}, LAMBDA x :
        IF catching(x.v) = {} THEN x ELSE caught(x, CHOOSE k \in catching(x.v) : TRUE))

ExecCo(s, n) ==
  After(EvalAll(s, CallParts(Kid(n, 1))), LAMBDA a : Proceed([a.s EXCEPT !.co = Append(@, a.v)]))

ExecEcho(s, n) ==
  After(Eval(s, Kid(n, 1)), LAMBDA x : Proceed([x.s EXCEPT !.out = Append(@, x.v)]))

\* A variable without a value has none.
ExecVariable(s, n) ==
  After(IF Len(Kids(n)) = 3 THEN Eval(s, Kid(n, 3)) ELSE Val(s, Empty), LAMBDA x : Proceed(Set(x.s, n, x.v)))

Exec(s, n) ==
  CASE Type(n) = "BLOCK_STATEMENT" -> FoldLeft(ExecNext, Proceed(s), Kids(n))
    [] Type(n) \in {"IF_STATEMENT", "IF_ELSE_STATEMENT"} -> ExecIf(s, n)
    [] Type(n) = "WHILE_STATEMENT" -> Loop(s, <<Kid(n, 1)>>, Kid(n, 2), <<>>)
    [] Type(n) = "DO_STATEMENT" -> ExecDo(s, n)
    [] Type(n) = "FOR_STATEMENT" -> ExecFor(s, n)
    [] Type(n) = "SWITCH_STATEMENT" -> ExecSwitch(s, n)
    [] Type(n) = "CONTINUE_STATEMENT" -> [Proceed(s) EXCEPT !.k = "continue"]
    [] Type(n) = "BREAK_STATEMENT" -> [Proceed(s) EXCEPT !.k = "break"]
    [] Type(n) = "TRY_STATEMENT" -> ExecTry(s, n)
    [] Type(n) = "CO_STATEMENT" -> ExecCo(s, n)
    [] Type(n) = "RETURN_STATEMENT" -> Ended(Eval(s, Kid(n, 1)), "return")
    [] Type(n) = "THROW_STATEMENT" -> Ended(Eval(s, Kid(n, 1)), "throw")
    [] Type(n) = "EXPRESSION_STATEMENT" -> Ended(Eval(s, Kid(n, 1)), "next")
    [] Type(n) = "ECHO_STATEMENT" -> ExecEcho(s, n)
    [] Type(n) = "VARIABLE_DECLARATION" -> ExecVariable(s, n)
    [] OTHER -> Proceed(s)

\* Main, then the coroutines; what nobody catches is printed.
Begun(s) == Invoke([s EXCEPT !.co = Tail(@)], Head(s.co)[1][2], Tail(Head(s.co)))
Reported(x) == IF x.e = <<>> THEN x.s ELSE [x.s EXCEPT !.out = Append(@, <<"uncaught", Head(x.e)>>)]

RECURSIVE RunAll(_)
RunAll(s) == IF s.co = <<>> THEN s ELSE RunAll(Reported(Begun(s)))

Globals(b) == {n \in Range(Kids(b)) : Type(n) = "VARIABLE_DECLARATION"}

Blank == [env |-> [d \in {} |-> 0], glob |-> [d \in {} |-> 0], out |-> <<>>, co |-> <<>>]

\* What the program with root block b prints.
Printout(b) ==
  LET main == CHOOSE n \in Range(Kids(b)) : Type(n) = "FUNCTION_DECLARATION" /\ Tag(Kid(n, 2)) = "main"
      glob == [d \in Globals(b) |-> IF Len(Kids(d)) = 3 THEN Eval(Blank, Kid(d, 3)).v ELSE Empty]
  IN  RunAll([Blank EXCEPT !.glob = glob, !.co = <<<< <<"FUNCTION", main>> >>>>]).out
=============================================================================
