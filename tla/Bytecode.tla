------------------------------ MODULE Bytecode ------------------------------
(***************************************************************************)
(* The shape of a compiled program, on which the machine relies            *)
(* (src/compiler/compiler.c).                                              *)
(*                                                                         *)
(* A function owns the instructions addr .. end and the last one is RET 0. *)
(* Between CALL_NEW and the call there are only the instructions that load *)
(* and pass the arguments, and nothing jumps there.  SET stands for an     *)
(* instruction that writes register pa and goes on, DIV for one that may   *)
(* throw instead, JMP for one that goes on at one of the addresses `to'.   *)
(***************************************************************************)
EXTENDS Integers, Sequences

Owns(p, f, q) == p.fun[f].addr <= q /\ q <= p.fun[f].end

Pcs(p) == 0 .. Len(p.bc) - 1

Passing == {"CALL_SET", "CALL", "TAIL_CALL"}

\* The addresses control can reach other than from the instruction before.
Entries(p) ==
  (UNION {p.bc[q + 1].to : q \in {j \in Pcs(p) : p.bc[j + 1].op = "JMP"}})
    \cup {p.fun[f].addr : f \in DOMAIN p.fun}
    \cup (UNION {{x.catch[k].start : k \in DOMAIN x.catch} : x \in p.exception})

\* At q a call of g has been begun: after its CALL_NEW there are only the
\* arguments, loaded and passed.
IsPreparing(p, q, g) ==
  \E n \in 0 .. q - 1 :
    /\ p.bc[n + 1].op = "CALL_NEW" /\ p.bc[n + 1].f = g
    /\ \A m \in n + 1 .. q : m \notin Entries(p)
    /\ \A m \in n + 1 .. q - 1 :
         p.bc[m + 1].op = "SET" \/ (p.bc[m + 1].op = "CALL_SET" /\ p.bc[m + 1].f = g)

\* A call that has been begun is made: until then the next instruction is an
\* argument, and the one after it is still in the call.
CallGoesOn(p, q) ==
  \A g \in DOMAIN p.fun :
    IsPreparing(p, q, g) =>
      \/ p.bc[q + 1].op \in {"CALL", "TAIL_CALL"}
      \/ p.bc[q + 1].op \in {"SET", "CALL_SET"} /\ IsPreparing(p, q + 1, g)

\* Registers an instruction names are in the window of its function.
InstrWellFormed(p, f, q) ==
  LET i == p.bc[q + 1]
      window == 4 .. p.fun[f].stack_size - 1
  IN  CASE i.op \in {"SET", "DIV", "THROW"} -> i.pa \in window
        [] i.op = "JMP" -> \A t \in i.to : t \in Pcs(p) /\ Owns(p, f, t)
        [] i.op = "CALL_NEW" -> i.f \in DOMAIN p.fun
        [] i.op = "RET" -> i.pa \in window \cup {0}
        [] i.op \in Passing ->
             /\ i.f \in DOMAIN p.fun
             /\ IsPreparing(p, q, i.f)
             /\ i.op = "CALL_SET" => i.pa \in 4 .. 3 + p.fun[i.f].arg_len /\ i.pb \in window
             /\ i.op = "CALL" => i.pa \in window
             /\ i.op = "TAIL_CALL" => ~p.fun[i.f].buildin
        [] OTHER -> FALSE

FunWellFormed(p, f) ==
  /\ p.fun[f].arg_len \in Nat
  /\ p.fun[f].stack_size \in Nat
  /\ p.fun[f].stack_size >= 4 + p.fun[f].arg_len
  /\ ~p.fun[f].buildin =>
       /\ p.fun[f].addr \in Pcs(p)
       /\ p.fun[f].end \in Pcs(p)
       /\ p.fun[f].addr <= p.fun[f].end
       /\ p.bc[p.fun[f].end + 1] = [op |-> "RET", pa |-> 0]
       /\ \A q \in Pcs(p) : Owns(p, f, q) => InstrWellFormed(p, f, q) /\ CallGoesOn(p, q)
       /\ \A g \in DOMAIN p.fun \ {f}, q \in Pcs(p) :
            ~p.fun[g].buildin => ~(Owns(p, f, q) /\ Owns(p, g, q))

\* A try block and its catch blocks are in one function, which keeps the
\* register of the exception free for it.
TryWellFormed(p, x) ==
  /\ x.start \in Pcs(p) /\ x.end \in Pcs(p) /\ x.start <= x.end
  /\ Len(x.catch) \in Nat \ {0} /\ DOMAIN x.catch = 1 .. Len(x.catch)
  /\ \E f \in DOMAIN p.fun :
       /\ ~p.fun[f].buildin
       /\ Owns(p, f, x.start) /\ Owns(p, f, x.end)
       /\ \A k \in DOMAIN x.catch :
            /\ x.catch[k].start \in Pcs(p) /\ Owns(p, f, x.catch[k].start)
            /\ x.catch[k].reg \in 4 .. p.fun[f].stack_size - 1

WellFormed(p) ==
  /\ Len(p.bc) \in Nat
  /\ DOMAIN p.fun \subseteq Int
  /\ p.main \in DOMAIN p.fun
  /\ ~p.fun[p.main].buildin
  /\ \A f \in DOMAIN p.fun : FunWellFormed(p, f)
  /\ \A x \in p.exception : TryWellFormed(p, x)
  /\ \A x, y \in p.exception : x.start = y.start /\ x.end = y.end => x = y
=============================================================================
