------------------------------ MODULE Samples -------------------------------
(* Small programs of the language, as the trees that parser/ast.c builds.  *)
EXTENDS Integers, SequencesExt

-----------------------------------------------------------------------------
(* Programs are terms; a tree lists the nodes of one in source order.      *)

T(type, tag, kids) == [type |-> type, tag |-> tag, kids |-> kids]

\* The nodes of term t, the first of which has number `first'; s gathers the
\* nodes below it and the numbers of its children.
RECURSIVE Nodes(_, _, _)
NodesOfKid(s, k) ==
  LET next == s.first + 1 + Len(s.nodes)
  IN  [s EXCEPT !.child = Append(@, next), !.nodes = @ \o Nodes(k, next, s.first)]

Nodes(t, first, parent) ==
  LET s == FoldLeft(NodesOfKid, [first |-> first, nodes |-> <<>>, child |-> <<>>], t.kids)
  IN  <<[type |-> t.type, tag |-> t.tag, parent |-> parent, child |-> s.child]>> \o s.nodes

id(x) == T("IDENTIFIER_TOKEN", x, <<>>)
lng(n) == T("LONG_TOKEN", n, <<>>)
dbl(n) == T("DOUBLE_TOKEN", n, <<>>)
str(s) == T("STRING_TOKEN", s, <<>>)
yes == T("TRUE_TOKEN", "", <<>>)
no == T("FALSE_TOKEN", "", <<>>)
bin(op, a, b) == T("BINARY_EXPRESSION", op, <<a, b>>)
un(op, a) == T("UNARY_EXPRESSION", op, <<a>>)
arr(s) == T("ARRAY_EXPRESSION", "", s)
fcall(f, s) == bin("(", f, T("FUNCTION_CALL_PARAMETER", "", s))
append(a) == T("BINARY_EXPRESSION", "[", <<a>>)

ty(tag) == T("TYPE_EXPRESSION", tag, <<>>)
int == ty("LONG")
bool == ty("BOOL")
string == ty("STRING")
float == ty("DOUBLE")
any == ty("UNKNOWN")
tarr(t) == T("TYPE_EXPRESSION", "ARRAY", <<t>>)
tfun(params, ret) ==
  T("TYPE_EXPRESSION", "FUNCTION", <<T("FUNCTION_TYPE_DECL_PARAMETER", "", params), ret>>)

block(s) == T("BLOCK_STATEMENT", "", s)
var(x, t) == T("VARIABLE_DECLARATION", "", <<id(x), t>>)
let(x, e) == T("VARIABLE_DECLARATION", "", <<id(x), any, e>>)
typed(x, t, e) == T("VARIABLE_DECLARATION", "", <<id(x), t, e>>)
const(x, e) == T("CONSTANT_DECLARATION", "", <<id(x), any, e>>)
func(f, params, ret, s) ==
  T("FUNCTION_DECLARATION", "", <<T("FUNCTION_RECEIVER", "", <<>>), id(f),
                                  T("FUNCTION_DECL_PARAMETER", "", params), ret, block(s)>>)
expr(e) == T("EXPRESSION_STATEMENT", "", <<e>>)
set(x, e) == expr(bin("=", id(x), e))
echo(e) == T("ECHO_STATEMENT", "", <<e>>)
ret(e) == T("RETURN_STATEMENT", "", <<e>>)
throw(e) == T("THROW_STATEMENT", "", <<e>>)
co(e) == T("CO_STATEMENT", "", <<e>>)
if(c, s) == T("IF_STATEMENT", "", <<c, block(s)>>)
ifelse(c, s, z) == T("IF_ELSE_STATEMENT", "", <<c, block(s), z>>)
while(c, s) == T("WHILE_STATEMENT", "", <<c, block(s)>>)
do(s, c) == T("DO_STATEMENT", "", <<block(s), c>>)
cond(s) == T("FOR_CONDITION", "", s)
for(a, b, z, s) == T("FOR_STATEMENT", "", <<cond(a), cond(b), cond(z), block(s)>>)
switch(e, s) == T("SWITCH_STATEMENT", "", <<e>> \o s)
case(e, s) == T("CASE_STATEMENT", "", <<e, block(s)>>)
default(s) == T("DEFAULT_STATEMENT", "", <<block(s)>>)
break == T("BREAK_STATEMENT", "", <<>>)
continue == T("CONTINUE_STATEMENT", "", <<>>)
catch(x, t, s) ==
  T("CATCH_STATEMENT", "", <<T("EXCEPTION_DECL_PARAMETER", "", <<var(x, t)>>), block(s)>>)
try(s, catches) == T("TRY_STATEMENT", "", <<block(s)>> \o catches)

-----------------------------------------------------------------------------
(* A program: globals, some functions and main.                            *)

Prelude ==
  << typed("g", int, lng(4)), typed("gb", bool, yes), const("K", lng(5)),
     func("inc", <<var("n", int)>>, int, <<ret(bin("+", id("n"), lng(1)))>>),
     func("bump", <<var("n", int)>>, int, <<set("g", id("n")), ret(id("n"))>>),
     func("yes", <<>>, bool, <<echo(str("yes")), ret(yes)>>),
     func("no", <<>>, bool, <<echo(str("no")), ret(no)>>) >>

Whole(decls, s) == block(decls \o <<func("main", <<>>, any, s)>>)

P(s) == Whole(Prelude, <<let("x", lng(3)), let("b", no)>> \o s \o <<echo(id("x"))>>)

\* Every operator on operands of every kind: literals, named constants,
\* locals, globals, calls and computed ones.
Operands ==
  << lng(2), id("K"), id("x"), id("g"), fcall(id("inc"), <<lng(6)>>),
    bin("-", id("x"), lng(1)), fcall(id("bump"), <<id("x")>>) >>

\* F of every element of s and every element of t; the concatenation makes
\* TLC compute the sequence once.
Pairs(s, t, F(_, _)) ==
  [i \in 1 .. Len(s) * Len(t) |-> F(s[((i - 1) \div Len(t)) + 1], t[((i - 1) % Len(t)) + 1])] \o <<>>

Binaries(ops, operands) ==
  Pairs(ops, Pairs(operands, operands, LAMBDA l, r : <<l, r>>), LAMBDA op, x : bin(op, x[1], x[2]))

Computations ==
  Pairs(<<1>>, Binaries(<<"+", "-", "*", "/", "<<", ">>", "<", "<=", ">", ">=">>, Operands),
        LAMBDA i, e : P(<<echo(e)>>))

Booleans ==
  << yes, no, id("b"), id("gb"), bin("<", id("x"), lng(9)), un("!", id("b")),
    fcall(id("yes"), <<>>), fcall(id("no"), <<>>) >>


\* A condition wherever there can be one.
Conditional(c, k) ==
  CASE k = "echo" -> P(<<echo(c)>>)
    [] k = "if" -> P(<<if(c, <<echo(lng(1))>>), echo(lng(2))>>)
    [] k = "else" -> P(<<ifelse(c, <<echo(lng(1))>>, block(<<echo(lng(2))>>))>>)
    [] k = "while" -> P(<<while(c, <<echo(lng(1)), break>>)>>)
    [] k = "do" ->
         P(<<do(<<set("x", bin("+", id("x"), lng(1))), if(bin(">", id("x"), lng(4)), <<break>>)>>, c)>>)
    [] k = "for" -> P(<<for(<<>>, <<c>>, <<>>, <<echo(lng(1)), break>>)>>)

\* Operands that are computed themselves, and a second statement that uses the
\* registers the first has given back.
Compounds == <<bin("+", id("x"), lng(1)), bin("<<", id("x"), lng(1)), fcall(id("inc"), <<id("x")>>)>>

Nesting(l, r) ==
  P(<<echo(bin("-", l, r)), echo(bin("*", bin("+", id("x"), lng(2)), bin("-", id("x"), lng(5))))>>)

Nestings == Pairs(Compounds \o <<lng(1), id("x")>>, Compounds \o <<lng(1)>>, Nesting)

\* n local variables.
Locals == <<"v1", "v2", "v3", "v4", "v5", "v6", "v7", "v8", "v9", "v10", "v11">>
Many(n) == P([i \in 1 .. n |-> let(Locals[i], lng(i))])

x1(e) == set("x", bin("+", id("x"), e))
less(x, n) == bin("<", id(x), lng(n))

Statements ==
  << P(<<let("i", lng(0)),
        while(yes, <<set("i", bin("+", id("i"), lng(1))),
                     if(bin("<", id("i"), lng(3)), <<continue>>),
                     if(bin(">", id("i"), lng(5)), <<break>>), echo(id("i"))>>)>>),
    P(<<var("i", int), var("j", int),
        for(<<bin("=", id("i"), lng(0))>>, <<less("i", 3)>>, <<bin("=", id("i"), bin("+", id("i"), lng(1)))>>,
            <<for(<<bin("=", id("j"), lng(0))>>, <<>>, <<bin("=", id("j"), bin("+", id("j"), lng(1)))>>,
                  <<if(bin(">=", id("j"), id("i")), <<break>>), echo(id("j"))>>),
              if(bin("<=", lng(1), id("i")), <<continue>>), x1(id("i"))>>)>>),
    P(<<do(<<x1(lng(2)), let("y", bin("*", id("x"), lng(2))), echo(id("y"))>>, less("x", 8))>>),
    P(<<do(<<x1(lng(2)), if(less("x", 7), <<continue>>), break>>, less("x", 5))>>),
    P(<<for(<<>>, <<no>>, <<>>, <<break>>), while(no, <<continue>>), if(no, <<break>>),
        do(<<>>, no), for(<<>>, <<>>, <<>>, <<break>>)>>),
    P(<<ifelse(less("x", 1), <<echo(lng(1))>>,
               ifelse(less("x", 4), <<echo(lng(2))>>, block(<<echo(lng(3))>>))),
        ifelse(less("x", 1), <<echo(lng(1))>>, if(less("x", 2), <<echo(lng(2))>>))>>),
    P(<<switch(id("x"), <<>>), switch(str("s"), <<>>)>>),
    P(<<switch(id("x"), <<case(lng(3), <<echo(lng(1))>>), case(lng(4), <<echo(lng(2)), break>>),
                          default(<<echo(lng(9))>>)>>)>>),
    P(<<throw(lng(1))>>), P(<<throw(bin("+", id("x"), id("g")))>>), P(<<throw(id("K"))>>),
    P(<<echo(bin("+", bin("+", str("a"), str("b")), str("c"))), let("s", str("d")),
        echo(bin("+", id("s"), str("e")))>>),
    P(<<let("d", dbl(2)), echo(bin("*", id("d"), dbl(3))), echo(bin("<", id("d"), dbl(3))),
        echo(un("-", dbl(3))), echo(un("~", id("x"))), echo(un("-", id("x"))), echo(un("~", lng(4)))>>),
    P(<<echo(bin("%", lng(-7), lng(2))), echo(bin("/", lng(-7), lng(2))), echo(bin("<<", lng(3), lng(2)))>>),
    P(<<let("d", dbl(2)), echo(bin("+", un("-", id("d")), dbl(1)))>>),
    P(<<echo(bin("==", id("x"), lng(3))), echo(bin("!=", id("x"), id("g"))), echo(bin("==", lng(1), lng(1)))>>),
    P(<<echo(bin("/", id("x"), bin("-", id("x"), lng(3))))>>) >>

Exceptions ==
  << P(<<try(<<throw(lng(1))>>, <<catch("e", int, <<echo(id("e"))>>)>>)>>),
    P(<<try(<<x1(lng(1)), throw(str("s"))>>,
            <<catch("e", int, <<echo(lng(1))>>), catch("f", string, <<echo(id("f")), x1(lng(1))>>)>>)>>),
    P(<<try(<<echo(bin("/", id("x"), lng(0)))>>, <<catch("e", string, <<>>)>>), echo(lng(7))>>),
    P(<<try(<<>>, <<catch("e", string, <<echo(lng(1))>>)>>), try(<<echo(lng(2))>>, <<>>)>>),
    P(<<try(<<try(<<throw(lng(1))>>, <<catch("e", int, <<throw(str("t"))>>)>>)>>,
            <<catch("e", string, <<echo(id("e"))>>)>>)>>),
    P(<<let("i", lng(0)),
        while(less("i", 3), <<set("i", bin("+", id("i"), lng(1))),
          try(<<if(less("i", 2), <<continue>>), throw(bin("+", id("i"), lng(0)))>>,
              <<catch("e", int, <<echo(id("e")), if(less("i", 3), <<continue>>), break>>)>>)>>)>>),
    P(<<try(<<throw(id("x"))>>, <<catch("e", int, <<echo(id("e"))>>)>>)>>) >>

\* With functions of their own.
Calling_ ==
  << Whole(<<func("main0", <<>>, int, <<ret(lng(1))>>),
            func("fib", <<var("n", int)>>, int,
                 <<if(less("n", 2), <<ret(id("n"))>>),
                   ret(bin("+", fcall(id("fib"), <<bin("-", id("n"), lng(1))>>),
                                fcall(id("fib"), <<bin("-", id("n"), lng(2))>>)))>>)>>,
          <<echo(fcall(id("fib"), <<lng(4)>>)), let("h", id("fib")), echo(fcall(id("h"), <<lng(3)>>))>>),
    Whole(<<func("sum", <<var("n", int), var("acc", int)>>, int,
                 <<if(less("n", 1), <<ret(id("acc"))>>),
                   ret(fcall(id("sum"), <<bin("-", id("n"), lng(1)), bin("+", id("acc"), id("n"))>>))>>)>>,
          <<echo(fcall(id("sum"), <<lng(3), lng(0)>>))>>),
    Whole(<<func("fail", <<var("n", int)>>, int,
                 <<if(less("n", 1), <<throw(str("deep"))>>),
                   let("r", fcall(id("fail"), <<bin("-", id("n"), lng(1))>>)), ret(id("r"))>>)>>,
          <<try(<<echo(fcall(id("fail"), <<lng(2)>>))>>, <<catch("e", string, <<echo(id("e"))>>)>>),
            expr(fcall(id("fail"), <<lng(0)>>)), echo(lng(9))>>),
    Whole(<<typed("n", int, lng(0)),
            func("work", <<var("k", int), var("s", string)>>, any,
                 <<set("n", bin("+", id("n"), id("k"))), echo(id("s")), echo(id("n")),
                   if(bin(">", id("k"), lng(1)), <<throw(id("k"))>>)>>)>>,
          <<co(fcall(id("work"), <<lng(1), str("one")>>)), co(fcall(id("work"), <<lng(2), str("two")>>)),
            expr(fcall(id("work"), <<lng(1), str("now")>>)), echo(str("end"))>>),
    Whole(<<func("f", <<var("a", int), var("b", string), var("c", bool)>>, bool,
                 <<echo(id("a")), echo(id("b")), ret(id("c"))>>), const("S", str("s"))>>,
          <<let("a", lng(1)), echo(fcall(id("f"), <<id("a"), id("S"), bin("<", id("a"), lng(2))>>))>>),
    Whole(<<>>, <<typed("h", tfun(<<int>>, int), id("main")), echo(lng(1))>>),
    Whole(<<>>, <<var("h", tfun(<<int>>, int)), echo(fcall(id("h"), <<lng(1)>>))>>),
    Whole(<<func("f", <<>>, int, <<try(<<ret(fcall(id("t"), <<>>))>>, <<catch("e", int, <<ret(lng(2))>>)>>)>>),
            func("t", <<>>, int, <<throw(lng(1)), ret(lng(3))>>)>>,
          <<echo(fcall(id("f"), <<>>))>>) >>

elem(a, k) == bin("[", id(a), k)

Arrays ==
  << P(<<let("a", arr(<<lng(1), lng(2)>>)), echo(elem("a", lng(1))), echo(elem("a", id("x"))),
        expr(bin("=", append(id("a")), id("x"))), expr(bin("=", elem("a", lng(0)), lng(8))), echo(id("a"))>>),
    P(<<let("a", arr(<<id("x"), lng(2), id("g")>>)), expr(bin("=", elem("a", str("k")), bin("+", id("x"), lng(1)))),
        echo(id("a")), echo(elem("a", str("k")))>>),
    P(<<let("a", arr(<<arr(<<lng(1)>>), arr(<<id("x")>>)>>)), echo(bin("[", elem("a", lng(1)), lng(0))),
        echo(bin("[", arr(<<lng(6)>>), lng(0)))>>),
    P(<<let("a", arr(<<id("K"), lng(1)>>)), echo(id("a"))>>),
    P(<<typed("a", tarr(int), arr(<<>>)), expr(bin("=", append(id("a")), lng(5))), echo(id("a"))>>),
    P(<<let("a", arr(<<lng(1)>>)), echo(bin("+", elem("a", yes), lng(1)))>>),
    P(<<let("a", arr(<<arr(<<lng(1)>>), arr(<<lng(2)>>)>>)), echo(id("a"))>>) >>

Scopes ==
  << P(<<let("y", id("g")), let("g", lng(1)), if(bin("<", id("g"), lng(2)), <<let("g", lng(7)), echo(id("g"))>>),
        echo(id("g")), echo(id("y"))>>),
    P(<<if(less("x", 5), <<echo(id("x")), let("x", lng(8)), echo(id("x"))>>),
        if(less("x", 5), <<let("z", bin("*", id("x"), lng(2))), echo(id("z"))>>)>>),
    P(<<const("K", lng(1)), echo(id("K")), let("z", id("K")), echo(id("z"))>>),
    P(<<try(<<throw(lng(6))>>, <<catch("x", int, <<echo(id("x")), set("x", lng(2))>>)>>), echo(id("x"))>>),
    Whole(<<func("f", <<var("n", int)>>, int, <<let("m", id("n")), if(yes, <<let("n", lng(2)), set("m", id("n"))>>),
                                                 ret(bin("+", id("m"), id("n")))>>)>>,
          <<echo(fcall(id("f"), <<lng(40)>>))>>),
    P(<<const("A", id("K")), echo(id("A")), if(un("!", id("b")), <<echo(bin("+", id("K"), id("K")))>>)>>) >>

\* What the compiler should refuse.
Wrong ==
  << P(<<set("x", str("s")), echo(bin("-", id("x"), lng(1)))>>),
    P(<<let("s", str("s")), set("x", id("s")), echo(bin("-", id("x"), lng(1)))>>), P(<<echo(id("nowhere"))>>), P(<<let("x", lng(1))>>), P(<<break>>),
    P(<<echo(bin("+", id("x"), str("s")))>>), P(<<if(id("x"), <<>>)>>), P(<<continue>>),
    P(<<echo(fcall(id("inc"), <<str("s")>>))>>), P(<<echo(fcall(id("inc"), <<>>))>>),
    P(<<var("y", any)>>), P(<<typed("y", string, id("x"))>>), P(<<let("a", arr(<<lng(1), str("s")>>))>>),
    P(<<echo(bin("/", lng(1), lng(0)))>>), P(<<expr(bin("=", id("K"), lng(1)))>>),
    P(<<if(bin("=", id("b"), yes), <<>>)>>), P(<<echo(bin("%", id("x"), lng(2)))>>),
    P(<<echo(bin("+", bin("%", id("x"), lng(2)), lng(1)))>>), P(<<co(id("x"))>>),
    P(<<let("a", arr(<<lng(1)>>)), expr(bin("=", append(id("a")), str("s")))>>), P(<<ret(lng(1))>>),
    P(<<const("C", id("x"))>>), P(<<un("!", id("x"))>>), P(<<echo(bin("[", id("x"), lng(1)))>>),
    P(<<const("F", id("inc"))>>), P(<<echo(bin("%", lng(1), lng(0)))>>),
    Whole(<<func("f", <<var("n", int), var("n", int)>>, int, <<ret(id("n"))>>)>>, <<>>),
    Whole(<<let("a", arr(<<lng(1)>>))>>, <<>>) >>

\* Programs that use the registers of a function up.
Crowded ==
  << Many(8), Many(9), Many(10), Many(11),
    P([i \in 1 .. 4 |-> echo(bin("-", bin("+", id("x"), lng(1)), lng(i)))]),
    P([i \in 1 .. 6 |-> echo(bin("-", bin("+", id("x"), lng(1)), lng(i)))]) >>

Programs ==
  Nestings \o Crowded \o Computations
    \o Pairs(Booleans, <<"echo", "if", "else", "while", "do", "for">>, Conditional)
    \o Pairs(Binaries(<<"&&", "||">>, Booleans), <<"echo", "while">>, Conditional)
    \o Statements \o Exceptions \o Calling_ \o Arrays \o Scopes \o Wrong

\* Program i has the nodes from (i - 1) * WIDTH + 1 on.
WIDTH == 220

Trees ==
  LET programs == Programs \o <<>>
  IN  [i \in DOMAIN programs |-> Nodes(programs[i], (i - 1) * WIDTH + 1, 0)] \o <<>>

\* Node 0 has the programs below it.
Forest ==
  [type |-> "NONE", tag |-> "", parent |-> -1, child |-> [i \in DOMAIN Trees |-> (i - 1) * WIDTH + 1] \o <<>>]

Node(n) ==
  LET program == ((n - 1) \div WIDTH) + 1
  IN  IF n = 0 THEN Forest ELSE Trees[program][((n - 1) % WIDTH) + 1]
=============================================================================
