---------------------------- MODULE Compilation -----------------------------
(***************************************************************************)
(* What the compiler and the machine promise together, and the programs    *)
(* for which the code does not keep it.                                    *)
(***************************************************************************)
EXTENDS Meaning

\* A value as it is printed: an array's type is not.
RECURSIVE Printed(_)
Printed(v) ==
  CASE v[1] = "ARRAY" -> <<"ARRAY", [k \in DOMAIN v[2] |-> Printed(v[2][k])]>>
    [] v[1] = "uncaught" -> <<"uncaught", Printed(v[2])>>
    [] OTHER -> v

\* The nodes of the program.
Source == TreeOf(root)

PrintedAll(s) == [i \in DOMAIN s |-> Printed(s[i])]

IsUse(n, kind) ==
  /\ n \in Uses(root) /\ Candidates(n) # {}
  /\ CASE kind = "constant" -> Type(Binding(n)) = "CONSTANT_DECLARATION"
       [] kind = "global" -> Type(Binding(n)) = "VARIABLE_DECLARATION" /\ IsGlobal(Binding(n))

Conditions ==
  {Kid(n, 1) : n \in {n \in Source : Type(n) \in {"IF_STATEMENT", "IF_ELSE_STATEMENT", "WHILE_STATEMENT"}}}
    \cup {Kid(n, 2) : n \in {n \in Source : Type(n) = "DO_STATEMENT"}}
    \cup UNION {Range(Kids(Kid(n, 2))) : n \in {n \in Source : Type(n) = "FOR_STATEMENT"}}

IsLogic(n) == Type(n) = "BINARY_EXPRESSION" /\ Tag(n) \in {"&&", "||"}

\* The address of a jump is taken before the instruction that loads a global:
\* a global variable as a condition, or on the left of && and ||, is not
\* tested where the jump is.
TestsGlobal ==
  \E n \in Source :
    /\ IsUse(n, "global")
    /\ n \in Conditions \/ (IsLogic(Parent(n)) /\ Kid(Parent(n), 1) = n)

\* Worth nothing but constants.
RECURSIVE IsFixed(_)
IsFixed(n) ==
  CASE Type(n) \in {"BINARY_EXPRESSION", "UNARY_EXPRESSION", "ARRAY_EXPRESSION"} ->
         /\ ~(Type(n) = "BINARY_EXPRESSION" /\ Tag(n) \in {"(", "="})
         /\ \A i \in DOMAIN Kids(n) : IsFixed(Kid(n, i))
    [] Type(n) = "IDENTIFIER_TOKEN" -> IsUse(n, "constant")
    [] OTHER -> TRUE

\* compiler_identifier_token does not give a named constant's value: what the
\* compiler computes with it is computed with a zero.
FoldsNamedConstant ==
  \E n \in Source :
    LET p == Parent(n)
    IN  /\ IsUse(n, "constant")
        /\ \/ n \in Conditions
           \/ Type(p) \in {"BINARY_EXPRESSION", "UNARY_EXPRESSION", "ARRAY_EXPRESSION"} /\ IsFixed(p)
           \/ IsLogic(p) /\ Kid(p, 1) = n
           \/ Type(p) = "CONSTANT_DECLARATION"
           \/ Type(p) = "VARIABLE_DECLARATION" /\ IsGlobal(p)

\* continue in a do loop goes to the start of the body, not to the condition.
ContinuesDo ==
  \E n \in Source :
    Type(n) = "CONTINUE_STATEMENT"
      /\ Type(CHOOSE m \in Around(n) : Type(m) \in Loops /\ \A x \in Around(n) : Type(x) \in Loops => x <= m)
         = "DO_STATEMENT"

\* lgx_value_cmp is a stub: == of anything but constants is false.
ComparesEqual ==
  \E n \in Source : Type(n) = "BINARY_EXPRESSION" /\ Tag(n) \in {"==", "!="} /\ ~IsFixed(n)

RECURSIVE Calls(_)
Calls(n) == IsCall(n) \/ \E i \in DOMAIN Kids(n) : Calls(Kid(n, i))

\* An operand that is a global variable is loaded when the operands after it
\* have been computed, and one of them may have called a function that sets it.
LoadsLate ==
  \E n \in Source :
    LET operands == IF IsCall(n) THEN <<Kid(n, 1)>> \o Kids(Kid(n, 2))
                    ELSE IF Type(n) = "BINARY_EXPRESSION" THEN Kids(n) ELSE <<>>
    IN  \E i, j \in DOMAIN operands : i < j /\ IsUse(operands[i], "global") /\ Calls(operands[j])

\* A tail call leaves the frame, and with it the try block it is written in.
TailCallsInTry ==
  \E t, n \in Source :
    /\ Type(t) = "TRY_STATEMENT" /\ Type(n) = "RETURN_STATEMENT"
    /\ IsCall(Kid(n, 1)) /\ Kid(t, 1) \in Around(n)

\* OP_NEG of a double leaves its bits in a register typed as an integer.
NegatesDouble ==
  /\ \E n \in Source : Type(n) = "UNARY_EXPRESSION" /\ Tag(n) = "-" /\ ~IsFixed(n)
  /\ \E n \in Source : Type(n) = "DOUBLE_TOKEN" \/ (Type(n) = "TYPE_EXPRESSION" /\ Tag(n) = "DOUBLE")

\* Statement n is in the body of try statement t.
IsTried(t, n) == Type(t) = "TRY_STATEMENT" /\ Kid(t, 1) \in Around(n)

\* The table of try blocks is searched for the last that starts before the
\* throw: an outer one is not found from an inner one, nor after it.
NestsTry == \E t, n \in Source : IsTried(t, n) /\ Type(n) = "TRY_STATEMENT"

\* OP_THROW takes the value out of its register, that of a variable too.
ThrowsVariable ==
  \E t, n \in Source :
    /\ IsTried(t, n) /\ Type(n) = "THROW_STATEMENT"
    /\ Type(Kid(n, 1)) = "IDENTIFIER_TOKEN"
    /\ ~IsUse(Kid(n, 1), "constant") /\ ~IsUse(Kid(n, 1), "global")

\* compiler_index_expression lets a key of any type pass.
IndexesByBoolean ==
  \E n \in Source : /\ Type(n) \in {"TRUE_TOKEN", "FALSE_TOKEN"}
                       /\ Type(Parent(n)) = "BINARY_EXPRESSION" /\ Tag(Parent(n)) = "["

\* compiler_switch_statement evaluates the value and leaves the cases out.
SwitchesCases == \E n \in Source : Type(n) = "SWITCH_STATEMENT" /\ Len(Kids(n)) > 1

\* An operator that failed on its operands' types is reported, but the
\* operator around it succeeds, and the program is accepted.
SwallowsAnError == code.err

Departs ==
  \/ TestsGlobal \/ FoldsNamedConstant \/ ContinuesDo \/ ComparesEqual \/ LoadsLate
  \/ TailCallsInTry \/ NestsTry \/ ThrowsVariable \/ IndexesByBoolean \/ NegatesDouble
  \/ SwitchesCases \/ SwallowsAnError \/ code.shared

\* The compiler is done and main, if it was called, has done nothing yet.
JustCompiled ==
  \/ mode \in {"refused", "aborted"}
  \/ mode = "run" /\ out = <<>> /\ pc = code.fun[Running].addr

\* Scopes are lexical in a program whose declarations are accepted
\* (lgx_symbol_get over the tables that symbol_generate filled).
LookupIsLexical ==
  JustCompiled /\ code.sym.ok /\ ~code.sym.abort => IsLexical(code.sym)

Accepted == mode \in {"run", "over", "undefined"}

\* A program the compiler accepts prints what it means, and nothing else:
\* the registers, jumps, constants and exception table that compiler.c makes
\* of a tree, run by lgx_vm_execute, do what the tree says.  The programs it
\* does not hold for are named above.
RunsAsWritten ==
  mode = "over" /\ ~Departs =>
    PrintedAll(out) = PrintedAll(Printout(root))

-----------------------------------------------------------------------------
(* Registers and types.                                                    *)

\* An operand that is computed itself, in a temporary register.
IsCompound(n) ==
  /\ Type(n) \in {"BINARY_EXPRESSION", "UNARY_EXPRESSION", "ARRAY_EXPRESSION"}
  /\ ~IsFixed(n)

\* No register is given to two variables or temporaries that are in use at
\* the same time (reg_pop and reg_push), in a program without an operator on
\* a computed operand: there binary_operator and lgx_expr_result_cleanup both
\* give the operand's register back.
RegistersAreDistinct ==
  Accepted /\ code.shared =>
    \E n \in Source :
      Type(n) = "BINARY_EXPRESSION" /\ Tag(n) \notin {"(", "="} /\ \E k \in Range(Kids(n)) : IsCompound(k)

\* A variable that is declared without a value.
LeavesUnset == \E n \in Source : Type(n) = "VARIABLE_DECLARATION" /\ Len(Kids(n)) = 2
                                       /\ Type(Parent(n)) = "BLOCK_STATEMENT"

\* The type checks of the compiler are enough: no instruction of an accepted
\* program meets an operand it cannot use, but for the holes named here.
TypesAreSound ==
  mistyped => \/ IndexesByBoolean \/ NegatesDouble \/ ThrowsVariable
              \/ SwallowsAnError \/ LeavesUnset \/ code.shared

-----------------------------------------------------------------------------
(* The shape of the code.                                                  *)

Writing == {"MOV", "LOAD", "GLOBAL_GET", "ARRAY_NEW", "EQ", "LT", "LE"}

\* The function a call at q is of: the constant loaded before its CALL_NEW.
CalledAt(q) ==
  LET n == CHOOSE n \in 1 .. q : code.bc[n + 1].op = "CALL_NEW"
                                   /\ \A m \in n + 1 .. q : code.bc[m + 1].op # "CALL_NEW"
  IN  code.const[code.bc[n].b + 1].v[2]

\* An instruction as Bytecode describes it.
Shape(q) ==
  LET i == code.bc[q + 1]
  IN  CASE i.op \in Writing -> [op |-> "SET", pa |-> i.a]
        [] i.op \in Computing \ Writing -> [op |-> "DIV", pa |-> i.a]
        [] i.op = "TEST" -> [op |-> "JMP", to |-> {q + 1, q + 1 + i.b}]
        [] i.op = "JMPI" -> [op |-> "JMP", to |-> {i.a}]
        [] i.op = "CALL_NEW" -> [op |-> "CALL_NEW", f |-> CalledAt(q)]
        [] i.op = "CALL_SET" -> [op |-> "CALL_SET", f |-> CalledAt(q), pa |-> i.a, pb |-> i.b]
        [] i.op = "TAIL_CALL" -> [op |-> "TAIL_CALL", f |-> CalledAt(q)]
        [] i.op \in {"CALL", "CO_CALL"} -> [op |-> "CALL", f |-> CalledAt(q), pa |-> i.a]
        [] i.op \in {"RET", "THROW"} -> [op |-> i.op, pa |-> i.a]
        [] OTHER -> [op |-> "JMP", to |-> {q + 1}]

Program ==
  [main |-> CHOOSE f \in MainOf(code.sym) : TRUE,
   bc |-> [i \in DOMAIN code.bc |-> Shape(i - 1)],
   fun |-> [f \in DOMAIN code.fun |->
              [addr |-> code.fun[f].addr, end |-> code.fun[f].end, stack_size |-> code.fun[f].size,
               arg_len |-> code.fun[f].arg_len, buildin |-> FALSE]],
   exception |-> code.exc]

CallsByName ==
  \A n \in Source : IsCall(n) => Type(Binding(Kid(n, 1))) = "FUNCTION_DECLARATION"

Shapes == INSTANCE Bytecode

\* What the machine relies on and module CallStack assumes is so in every
\* accepted program: registers are in the window of their function, jumps and
\* handlers stay in it, a call follows its arguments, and no two try blocks
\* have one key in the exception table.
CodeIsWellFormed ==
  mode = "run" /\ JustCompiled /\ CallsByName => Shapes!WellFormed(Program)
=============================================================================
