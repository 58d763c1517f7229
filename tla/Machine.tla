------------------------------ MODULE Machine -------------------------------
(***************************************************************************)
(* Running what the compiler produced: lgx_vm_execute                      *)
(* (src/interpreter/vm.c) on the values of a program, with lgx_co_throw    *)
(* and the ready queue (src/interpreter/coroutine.c).                      *)
(*                                                                         *)
(* CallStack looks at the frames of one coroutine whatever it computes;    *)
(* here a register holds its value, and coroutines run one after another   *)
(* in the order they were created, as nothing in these programs waits.     *)
(*                                                                         *)
(* Left out: the growth of the stack (CallStack), two references to one    *)
(* array (ArrayHeap: the programs assign elements only of an array that    *)
(* one variable refers to), native functions, overflow.                    *)
(***************************************************************************)
EXTENDS Codegen

CONSTANTS
  Compiler(_),   \* what lgx_symbol_init and lgx_compiler_generate make of a program
  STACK          \* slots of a coroutine's stack, enough for the programs

VARIABLES
  root,     \* the program
  code,     \* the compiler: its state after lgx_compiler_generate
  buf,      \* co->stack.buf of the running coroutine
  bottom,     \* co->stack.base
  pc,       \* co->pc
  ready,    \* stacks of the coroutines that are ready, oldest first
  global,   \* vm->global
  out,      \* what was printed
  mode,     \* "source" before the compiler, "refused", "aborted", "run", "over",
            \* "undefined"
  mistyped  \* history: an instruction met an operand of a type it cannot use

vars == <<root, code, buf, bottom, pc, ready, global, out, mode, mistyped>>

Empty == <<"UNKNOWN", 0>>
Null == <<"NULL", 0>>
Str(s) == <<"STRING", s>>
Lng(n) == <<"LONG", n>>

TypeError == Str("runtime error")
ZeroDivision == Str("division by zero\n")

R(r) == buf[bottom + r]
Running == R(0)[2]
Window == code.fun[Running].size
Instr == code.bc[pc + 1]

\* A coroutine that was just created for function f.
NewStack(f) ==
  [i \in 0 .. STACK - 1 |->
     CASE i = 0 -> <<"FUNCTION", f>> [] i = 1 -> Lng(1) [] i \in {2, 3} -> Lng(-1) [] OTHER -> Empty]

MainOf(s) == {d.node : d \in {d \in Range(s.tab[s.root]) : d.name = "main" /\ d.type.tag = "FUNCTION"}}

Init ==
  /\ root \in Range(Kids(0))
  /\ code = <<>>
  /\ buf = [i \in 0 .. STACK - 1 |-> Empty]
  /\ bottom = 0 /\ pc = 0
  /\ ready = <<>> /\ global = <<>> /\ out = <<>>
  /\ mode = "source"
  /\ mistyped = FALSE

\* The interpreter gets a program only if its symbols and its code are in
\* order.
Compile ==
  /\ mode = "source"
  /\ LET x == Compiler(root)
     IN  /\ code' = x.c
         /\ mode' = IF x.c.abort THEN "aborted" ELSE IF x.ok THEN "run" ELSE "refused"
         /\ global' = [i \in DOMAIN x.c.global |-> x.c.init[x.c.global[i]]]
         /\ \/ mode' # "run" /\ UNCHANGED <<buf, pc>>
            \/ /\ mode' = "run"
               /\ \E f \in MainOf(x.c.sym) : buf' = NewStack(f) /\ pc' = x.c.fun[f].addr
  /\ UNCHANGED <<root, bottom, ready, out, mistyped>>

-----------------------------------------------------------------------------
(* What instructions compute: the value register A gets, and the exception *)
(* if there is one.                                                        *)

Gives(v) == [v |-> v, e |-> <<>>]
Throws(e) == [v |-> R(Instr.a), e |-> <<e>>]
Truth(b) == <<"BOOL", IF b THEN 1 ELSE 0>>

Numbers == {"LONG", "DOUBLE"}
Alike(x, y, tags) == x[1] = y[1] /\ x[1] \in tags

\* OP_ADD, OP_SUB, OP_MUL, OP_DIV, OP_SHL and OP_SHR.
Calculated(op, x, y) ==
  IF ~Alike(x, y, IF op \in {"<<", ">>"} THEN {"LONG"} ELSE Numbers) THEN Throws(TypeError)
  ELSE IF op = "/" /\ y[2] = 0 THEN Throws(ZeroDivision)
  ELSE Gives(<<x[1], IF op = "/" THEN Quotient(x[2], y[2]) ELSE Arithmetic(op, x[2], y[2])>>)

\* OP_LT and OP_LE write the type of A first; operands they cannot compare
\* leave whatever A held.
Compared(op, x, y) ==
  IF Alike(x, y, Numbers) /\ Instr.a \notin {Instr.b, Instr.c}
  THEN {Gives(Truth(IF op = "LT" THEN x[2] < y[2] ELSE x[2] <= y[2]))}
  ELSE {Gives(Truth(TRUE)), Gives(Truth(FALSE))}

\* The bits of a double, read as an integer: some large number.
Bits(d) == 1000000 + d

\* OP_NEG, OP_NOT and OP_LNOT.
Inverted(op, x) ==
  CASE op = "NEG" /\ x[1] = "LONG" -> Gives(Lng(-x[2]))
    [] op = "NEG" /\ x[1] = "DOUBLE" -> Gives(Lng(Bits(-x[2])))
    [] op = "NOT" /\ x[1] = "LONG" -> Gives(Lng(-x[2] - 1))
    [] op = "LNOT" /\ x[1] = "BOOL" -> Gives(Truth(x[2] = 0))
    [] op = "LNOT" /\ x[1] # "BOOL" -> [v |-> Truth(FALSE), e |-> <<TypeError>>]
    [] OTHER -> Throws(TypeError)

IsKey(x) == x[1] \in {"LONG", "STRING"}

\* OP_ARRAY_GET.
Fetched(x, k) ==
  IF x[1] # "ARRAY" \/ ~IsKey(k) THEN Throws(TypeError)
  ELSE Gives(IF k \in DOMAIN x[2] THEN x[2][k] ELSE Null)

\* OP_ARRAY_SET: register B is 0 for an append.
Stored(x, b, k, y) ==
  IF x[1] # "ARRAY" \/ (b # 0 /\ ~IsKey(k)) THEN Throws(TypeError)
  ELSE LET key == IF b # 0 THEN k ELSE Lng(Cardinality(DOMAIN x[2]))
       IN  Gives(<<"ARRAY", (key :> y) @@ x[2], x[3]>>)

Computing ==
  {"MOV", "LOAD", "GLOBAL_GET", "+", "-", "*", "/", "<<", ">>", "NEG", "NOT", "LNOT",
   "LT", "LE", "EQ", "CONCAT", "ARRAY_NEW", "ARRAY_SET", "["}

\* lgx_value_cmp, which OP_EQ asks, compares nothing and gives 0.
Results(i) ==
  CASE i.op = "MOV" -> {Gives(R(i.b))}
    [] i.op = "LOAD" -> {Gives(code.const[i.b + 1].v)}
    [] i.op = "GLOBAL_GET" -> {Gives(global[i.b + 1])}
    [] i.op \in {"+", "-", "*", "/", "<<", ">>"} -> {Calculated(i.op, R(i.b), R(i.c))}
    [] i.op \in {"NEG", "NOT", "LNOT"} -> {Inverted(i.op, R(i.b))}
    [] i.op \in {"LT", "LE"} -> Compared(i.op, R(i.b), R(i.c))
    [] i.op = "EQ" -> {Gives(Truth(FALSE))}
    [] i.op = "CONCAT" -> {IF Alike(R(i.b), R(i.c), {"STRING"})
                           THEN Gives(Str(R(i.b)[2] \o R(i.c)[2])) ELSE Throws(TypeError)}
    [] i.op = "ARRAY_NEW" -> {Gives(<<"ARRAY", EmptyArray, ArrayOf(Hole)>>)}
    [] i.op = "ARRAY_SET" -> {Stored(R(i.a), i.b, R(i.b), R(i.c))}
    [] i.op = "[" -> {Fetched(R(i.b), R(i.c))}

-----------------------------------------------------------------------------
(* lgx_co_throw, all of its loop: where the running coroutine goes on.     *)

Started(p) == {x \in code.exc : x.start <= p}

LastStarted(p) ==
  {x \in Started(p) : \A y \in Started(p) :
     y # x => y.start < x.start \/ (y.start = x.start /\ y.end > x.end)}

Matching(x, e) == {k \in DOMAIN x.catch : x.catch[k].type.tag = e[1] /\ e[1] \in {"LONG", "STRING"}}

Handler(p, e) ==
  UNION {{x.catch[k] : k \in {k \in Matching(x, e) : \A j \in Matching(x, e) : j <= k}} :
           x \in {x \in LastStarted(p) : p <= x.end}}

\* s: the slots, the bottom and the program counter, and what was printed.
RECURSIVE Unwound(_, _, _, _)
Unwound(s, b, p, e) ==
  LET f == s[b][2]
  IN  IF Handler(p, e) # {}
      THEN LET h == CHOOSE h \in Handler(p, e) : TRUE
           IN  [buf |-> [s EXCEPT ![b + h.reg] = e], bottom |-> b, pc |-> h.start, out |-> out]
      ELSE IF s[b + 2][2] < 0
      THEN [buf |-> s, bottom |-> b, pc |-> code.fun[f].end, out |-> Append(out, <<"uncaught", e>>)]
      ELSE Unwound([n \in DOMAIN s |-> IF n \in b .. b + code.fun[f].size - 1 THEN Empty ELSE s[n]],
                   s[b + 3][2], s[b + 2][2] - 1, e)

\* lgx_vm_throw: the registers are s when e is thrown.
Throw(s, e) ==
  LET x == Unwound(s, bottom, pc, e)
  IN  /\ buf' = x.buf /\ bottom' = x.bottom /\ pc' = x.pc /\ out' = x.out
      /\ mistyped' = (mistyped \/ e = TypeError)
      /\ UNCHANGED <<root, code, ready, global, mode>>

Goes(next) == pc' = next /\ UNCHANGED <<root, code, mode, mistyped>>

At(ops) == mode = "run" /\ Instr.op \in ops

-----------------------------------------------------------------------------
(* Instructions.                                                           *)

\* A read behind the global variables, where a jump's distance was written
\* into the instruction: whatever follows is undefined.
OutOfGlobals ==
  /\ At({"GLOBAL_GET"})
  /\ Instr.b >= Len(global)
  /\ mode' = "undefined"
  /\ UNCHANGED <<root, code, buf, bottom, pc, ready, global, out, mistyped>>

Compute ==
  /\ At(Computing)
  /\ Instr.op = "GLOBAL_GET" => Instr.b < Len(global)
  /\ \E x \in Results(Instr) :
       LET s == [buf EXCEPT ![bottom + Instr.a] = x.v]
       IN  \/ x.e = <<>> /\ buf' = s /\ Goes(pc + 1) /\ UNCHANGED <<bottom, ready, global, out>>
           \/ x.e # <<>> /\ Throw(s, Head(x.e))

GlobalSet ==
  /\ At({"GLOBAL_SET"})
  /\ global' = [global EXCEPT ![Instr.b + 1] = R(Instr.a)]
  /\ Goes(pc + 1)
  /\ UNCHANGED <<buf, bottom, ready, out>>

Echo ==
  /\ At({"ECHO"})
  /\ out' = Append(out, R(Instr.a))
  /\ Goes(pc + 1)
  /\ UNCHANGED <<buf, bottom, ready, global>>

\* Where OP_TEST of a Boolean v goes on.
Tested(v, d) == IF v = 0 THEN pc + 1 + d ELSE pc + 1

Branching ==
  /\ At({"TEST", "JMPI", "NOP"})
  /\ \/ /\ Instr.op = "TEST" /\ R(Instr.a)[1] # "BOOL"
        /\ Throw(buf, TypeError)
     \/ /\ Instr.op = "TEST" => R(Instr.a)[1] = "BOOL"
        /\ Goes(CASE Instr.op = "TEST" -> Tested(R(Instr.a)[2], Instr.b)
                  [] Instr.op = "JMPI" -> Instr.a
                  [] Instr.op = "NOP" -> pc + 1)
        /\ UNCHANGED <<buf, bottom, ready, global, out>>

ThrowValue ==
  /\ At({"THROW"})
  /\ Throw([buf EXCEPT ![bottom + Instr.a] = Empty], R(Instr.a))

-----------------------------------------------------------------------------
(* Calls.                                                                  *)

Calling == {"CALL_NEW", "CALL", "TAIL_CALL", "CO_CALL"}

\* The register of the function, and the function in it.
Callee == R(IF Instr.op = "CALL" THEN Instr.b ELSE Instr.a)
ArgLen(f) == code.fun[f].arg_len

NotAFunction ==
  /\ At(Calling)
  /\ Callee[1] # "FUNCTION"
  /\ Throw(buf, TypeError)

\* The room lgx_vm_checkstack makes is there.
CallNew ==
  /\ At({"CALL_NEW"})
  /\ Callee[1] = "FUNCTION"
  /\ bottom + Window + code.fun[Callee[2]].size < STACK
  /\ Goes(pc + 1)
  /\ UNCHANGED <<buf, bottom, ready, global, out>>

CallSet ==
  /\ At({"CALL_SET"})
  /\ buf' = [buf EXCEPT ![bottom + Window + Instr.a] = R(Instr.b)]
  /\ Goes(pc + 1)
  /\ UNCHANGED <<bottom, ready, global, out>>

Call ==
  /\ At({"CALL"})
  /\ Callee[1] = "FUNCTION"
  /\ bottom' = bottom + Window
  /\ buf' = [buf EXCEPT ![bottom'] = Callee, ![bottom' + 1] = Lng(Instr.a),
                        ![bottom' + 2] = Lng(pc + 1), ![bottom' + 3] = Lng(bottom)]
  /\ Goes(code.fun[Callee[2]].addr)
  /\ UNCHANGED <<ready, global, out>>

\* The arguments are moved, and the slot behind them.
TailCall ==
  /\ At({"TAIL_CALL"})
  /\ Callee[1] = "FUNCTION"
  /\ LET last == 4 + ArgLen(Callee[2])
     IN  buf' = [n \in DOMAIN buf |->
                   CASE n = bottom -> Callee
                     [] n \in bottom + 4 .. bottom + last -> buf[n + Window]
                     [] n \in bottom + Window + 4 .. bottom + Window + last -> Empty
                     [] OTHER -> buf[n]]
  /\ Goes(code.fun[Callee[2]].addr)
  /\ UNCHANGED <<bottom, ready, global, out>>

\* lgx_co_create: the new coroutine is ready and gets the arguments.
CoCall ==
  /\ At({"CO_CALL"})
  /\ Callee[1] = "FUNCTION"
  /\ LET args == 4 .. 3 + ArgLen(Callee[2])
     IN  /\ ready' = Append(ready, [n \in DOMAIN buf |->
                              IF n \in args THEN R(Window + n) ELSE NewStack(Callee[2])[n]])
         /\ buf' = [n \in DOMAIN buf |-> IF n - bottom - Window \in args THEN Empty ELSE buf[n]]
  /\ Goes(pc + 1)
  /\ UNCHANGED <<bottom, global, out>>

Freed == [n \in DOMAIN buf |-> IF n \in bottom .. bottom + Window - 1 THEN Empty ELSE buf[n]]

Ret ==
  /\ At({"RET"})
  /\ R(2)[2] >= 0
  /\ bottom' = R(3)[2]
  /\ buf' = [Freed EXCEPT ![bottom' + R(1)[2]] = IF Instr.a = 0 THEN Empty ELSE R(Instr.a)]
  /\ Goes(R(2)[2])
  /\ UNCHANGED <<ready, global, out>>

\* The bottom frame returns: lgx_co_died, and lgx_vm_start runs the next.
Died ==
  /\ At({"RET"})
  /\ R(2)[2] < 0
  /\ bottom' = 0
  /\ \/ /\ ready # <<>>
        /\ buf' = Head(ready) /\ ready' = Tail(ready)
        /\ pc' = code.fun[Head(ready)[0][2]].addr
        /\ UNCHANGED mode
     \/ /\ ready = <<>>
        /\ mode' = "over"
        /\ UNCHANGED <<buf, ready, pc>>
  /\ UNCHANGED <<root, code, global, out, mistyped>>

Finished == mode \in {"over", "refused", "aborted", "undefined"} /\ UNCHANGED vars

Next ==
  \/ Compile \/ Compute \/ OutOfGlobals \/ GlobalSet \/ Echo \/ Branching \/ ThrowValue
  \/ NotAFunction \/ CallNew \/ CallSet \/ Call \/ TailCall \/ CoCall \/ Ret \/ Died
  \/ Finished
=============================================================================
