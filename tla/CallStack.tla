----------------------------- MODULE CallStack ------------------------------
(***************************************************************************)
(* The stack of one running coroutine: calls, tail calls, returns, growth  *)
(* of the stack and exceptions.  Instructions of lgx_vm_execute            *)
(* (src/interpreter/vm.c), lgx_co_checkstack, lgx_co_return and            *)
(* lgx_co_throw (src/interpreter/coroutine.c), over the bytecode and the   *)
(* exception table that src/compiler/compiler.c emits.                     *)
(*                                                                         *)
(* The stack is raw memory, `buf', and no write to it checks an index: one *)
(* next to the allocated slots adds a slot to the function (`Stored'), and *)
(* TypeOK fails.  A frame is a window of the buffer: register 0 holds the  *)
(* function, 1 the register of the caller that takes the result, 2 the     *)
(* return address, 3 the base of the caller, arguments and locals follow,  *)
(* and the callee's frame starts where the window ends.  Nothing but the   *)
(* contents of these registers says where the frames are.                  *)
(*                                                                         *)
(* Left out: what instructions compute.  A value is a type and, where the  *)
(* stack depends on it, a number or a function.  The loop of lgx_co_throw  *)
(* takes one step per frame it leaves.                                     *)
(***************************************************************************)
EXTENDS Bytecode

CONSTANTS
  Programs,      \* the compiled programs to run, see WellFormed
  MIN_STACK,     \* stack slots a coroutine starts with at least: 16
  MAX_STACK,     \* LGX_MAX_STACK_SIZE
  MaxDoublings   \* the stack size is an unsigned int: it doubles < 32 times

Types == {"UNKNOWN", "LONG", "STRING", "FUNCTION"}

Unknown == [type |-> "UNKNOWN", v |-> 0]
Long(n) == [type |-> "LONG", v |-> n]
String == [type |-> "STRING", v |-> 0]
Function(f) == [type |-> "FUNCTION", v |-> f]

VARIABLES
  c,         \* vm->c: bytecode, functions and exception table; never changes
  buf,       \* co->stack.buf, indexed from 0
  size,      \* co->stack.size
  base,      \* co->stack.base
  pc,        \* co->pc, the next instruction
  regs,      \* vm->regs: the buffer it points into and the offset
  block,     \* which buffer buf is: realloc moves it
  mode,      \* "execute", "throw" in the loop of lgx_co_throw, "died"
  throw,     \* locals of lgx_co_throw: pc, base and the value e
  calls      \* history: bases of the frames in progress, oldest first

machine == <<buf, size, base, pc, regs, block, mode>>
vars == <<c, machine, throw, calls>>

fun(f) == c.fun[f]
Instr == c.bc[pc + 1]

\* R(r), the registers as the interpreter reaches them.
R(r) == buf[base + r]
Running == R(0).v
Window == fun(Running).stack_size

\* What a register can hold.
Values(p) ==
  {x \in [type : Types, v : Int] : x.type = "FUNCTION" => x.v \in DOMAIN p.fun}

\* The programs are as the compiler emits them, see CodeIsWellFormed in module
\* Compilation, and their instructions write values.
ASSUME CallStackAssumption ==
  /\ MIN_STACK \in Nat /\ MIN_STACK > 0
  /\ MAX_STACK \in Nat
  /\ MaxDoublings \in Nat
  /\ \A p \in Programs :
       /\ WellFormed(p)
       /\ \A q \in Pcs(p) : p.bc[q + 1].op = "SET" => p.bc[q + 1].v \in Values(p)

-----------------------------------------------------------------------------
NoThrow == [pc |-> 0, base |-> 0, e |-> Unknown]

\* lgx_co_create and lgx_co_run: the main function in an empty stack.
Init ==
  /\ c \in Programs
  /\ size = IF fun(c.main).stack_size > MIN_STACK THEN fun(c.main).stack_size
            ELSE MIN_STACK
  /\ buf = [i \in 0 .. size - 1 |->
              IF i = 0 THEN Function(c.main) ELSE IF i = 1 THEN Long(1)
              ELSE IF i \in {2, 3} THEN Long(-1) ELSE Unknown]
  /\ base = 0
  /\ pc = fun(c.main).addr
  /\ block = 0
  /\ regs = [block |-> block, base |-> base]
  /\ mode = "execute"
  /\ throw = NoThrow
  /\ calls = <<0>>

\* Memory b after the values w have been written to the slots of w, wherever
\* these are.
Stored(b, w) ==
  [n \in DOMAIN b \cup DOMAIN w |-> IF n \in DOMAIN w THEN w[n] ELSE b[n]]

Put(b, n, v) == Stored(b, [i \in {n} |-> v])

\* The slots from i to j hold nothing: their type is reset, as RET does.
Freed(i, j) == Stored(buf, [n \in i .. j |-> Unknown])

At(op) == mode = "execute" /\ Instr.op = op

\* lgx_vm_throw: the exception leaves the instruction that was fetched.
Throw(e) ==
  /\ mode' = "throw"
  /\ throw' = [pc |-> pc, base |-> base, e |-> e]

-----------------------------------------------------------------------------
(* Instructions.                                                           *)

\* Any instruction that writes its result register and goes on.
Write ==
  /\ At("SET")
  /\ buf' = Put(buf, base + Instr.pa, Instr.v)
  /\ pc' = pc + 1
  /\ UNCHANGED <<c, size, base, regs, block, mode, throw, calls>>

\* OP_DIV stands for the instructions that may fail.
Divide ==
  /\ At("DIV")
  /\ \/ /\ buf' = Put(buf, base + Instr.pa, Long(0))
        /\ pc' = pc + 1
        /\ UNCHANGED <<mode, throw>>
     \/ /\ Throw(String)
        /\ UNCHANGED <<buf, pc>>
  /\ UNCHANGED <<c, size, base, regs, block, calls>>

\* OP_JMPI, alone or after an OP_TEST.
Jump ==
  /\ At("JMP")
  /\ pc' \in Instr.to
  /\ UNCHANGED <<c, buf, size, base, regs, block, mode, throw, calls>>

Bug_room_without_caller(f) == base + fun(f).stack_size < size

Bug_room_for_the_arguments(f) == base + Window + fun(f).arg_len < size

\* The test of lgx_co_checkstack: the callee's frame fits, with a slot left.
HasRoom(f) == base + Window + fun(f).stack_size < size

Bug_window_not_moved(b) == UNCHANGED regs

\* lgx_vm_checkstack points the registers into the buffer of the stack.
WindowInto(b) == regs' = [block |-> b, base |-> base]

\* The stack after size has been doubled until the callee's frame fits.
Grow(f, s) ==
  /\ s > base + Window + fun(f).stack_size
  /\ s <= MAX_STACK
  /\ size' = s
  /\ buf' = [n \in 0 .. s - 1 |-> IF n < size THEN buf[n] ELSE Unknown]
  /\ block' = block + 1

\* The first of the doubled sizes that has room: half of it has none.
Doubled(f) ==
  LET need == base + Window + fun(f).stack_size
  IN  {s \in need + 1 .. 2 * need + 1 : \E k \in 1 .. MaxDoublings : s = size * 2^k}

CallNew ==
  /\ At("CALL_NEW")
  /\ LET f == Instr.f
     IN  \/ /\ HasRoom(f)
            /\ pc' = pc + 1
            /\ WindowInto(block)
            /\ UNCHANGED <<buf, size, block, mode, throw>>
         \/ /\ ~HasRoom(f)
            /\ \E s \in Doubled(f) : Grow(f, s)
            /\ pc' = pc + 1
            /\ WindowInto(block + 1)
            /\ UNCHANGED <<mode, throw>>
         \/ /\ ~HasRoom(f)   \* above MAX_STACK, or realloc has no memory
            /\ Throw(String)
            /\ UNCHANGED <<buf, size, pc, regs, block>>
  /\ UNCHANGED <<c, base, calls>>

CallSet ==
  /\ At("CALL_SET")
  /\ buf' = Put(buf, base + Window + Instr.pa, R(Instr.pb))
  /\ pc' = pc + 1
  /\ UNCHANGED <<c, size, base, regs, block, mode, throw, calls>>

\* The frame header OP_CALL writes at the end of the caller's window.
Header(f, ret, from) ==
  <<Function(f), Long(ret), Long(from), Long(base)>>

Bug_returns_to_the_call(f, ret) ==
  Stored(buf, [n \in base + Window .. base + Window + 3 |->
                 Header(f, ret, pc)[n - base - Window + 1]])

WithHeader(f, ret) ==
  Stored(buf, [n \in base + Window .. base + Window + 3 |->
                 Header(f, ret, pc + 1)[n - base - Window + 1]])

Bug_moves_by_callee == base + fun(Instr.f).stack_size

\* Where the window moves: the end of the caller's.
CalleeBase == base + Window

Call ==
  /\ At("CALL")
  /\ ~fun(Instr.f).buildin
  /\ buf' = WithHeader(Instr.f, Instr.pa)
  /\ base' = CalleeBase
  /\ pc' = fun(Instr.f).addr
  /\ regs' = [block |-> block, base |-> base']
  /\ calls' = Append(calls, base')
  /\ UNCHANGED <<c, size, block, mode, throw>>

\* A native function returns a value with lgx_co_return: its arguments and
\* the header are freed, the caller's window never moved.
CallBuildin ==
  /\ At("CALL")
  /\ fun(Instr.f).buildin
  /\ \E v \in {Unknown, Long(0), String} :
       buf' = Put(Freed(base + Window, base + Window + fun(Instr.f).stack_size - 1),
                  base + Instr.pa, v)
  /\ pc' = pc + 1
  /\ UNCHANGED <<c, size, base, regs, block, mode, throw, calls>>

Bug_header_moves_too(f) ==
  LET last == base + 4 + fun(f).arg_len
  IN  Put(Stored(Freed(base + Window + 1, Window + last),
                 [n \in base + 1 .. last |-> buf[n + Window]]),
          base, Function(f))

\* OP_TAIL_CALL reuses the frame: registers 1 to 3 stay, register 0 and the
\* arguments, and the slot behind them, are overwritten.
Reused(f) ==
  LET last == base + 4 + fun(f).arg_len
  IN  Put(Stored(Freed(base + Window + 4, Window + last),
                 [n \in base + 4 .. last |-> buf[n + Window]]),
          base, Function(f))

TailCall ==
  /\ At("TAIL_CALL")
  /\ buf' = Reused(Instr.f)
  /\ pc' = fun(Instr.f).addr
  /\ UNCHANGED <<c, size, base, regs, block, mode, throw, calls>>

Bug_keeps_last_register == Freed(base, base + Window - 2)

Bug_frees_one_below == Freed(base - 1, base + Window - 1)

FreeFrame == Freed(base, base + Window - 1)

\* OP_RET: the frame is freed, the result goes to the register of the caller
\* that register 1 names.  The bottom frame returns to itself and the
\* coroutine dies.
Ret ==
  /\ At("RET")
  /\ LET to == R(2).v
         below == IF to >= 0 THEN R(3).v ELSE base
         result == IF Instr.pa = 0 THEN Unknown ELSE R(Instr.pa)
     IN  /\ buf' = Put(FreeFrame, below + R(1).v, result)
         /\ base' = below
         /\ regs' = [block |-> block, base |-> base']
         /\ \/ to >= 0 /\ pc' = to /\ UNCHANGED mode
            \/ to < 0 /\ pc' = pc + 1 /\ mode' = "died"
  /\ calls' = SubSeq(calls, 1, Len(calls) - 1)
  /\ UNCHANGED <<c, size, block, throw>>

\* OP_THROW: the register gives its value away.
ThrowValue ==
  /\ At("THROW")
  /\ Throw(R(Instr.pa))
  /\ buf' = Put(buf, base + Instr.pa, Unknown)
  /\ UNCHANGED <<c, size, base, pc, regs, block, calls>>

-----------------------------------------------------------------------------
(* lgx_co_throw.                                                           *)

\* The table is ordered by start, then by decreasing end: the block found is
\* the last one that starts at or before p, the shortest of those.
StartedBy(p) == {x \in c.exception : x.start <= p}

Before(x, y) == x.start < y.start \/ (x.start = y.start /\ x.end > y.end)

Lesser(p) ==
  {x \in StartedBy(p) : \A y \in StartedBy(p) : y # x => Before(y, x)}

Catchable == {"LONG", "STRING"}

Matches(x, e) == {k \in DOMAIN x.catch : x.catch[k].e = e.type /\ e.type \in Catchable}

Bug_end_is_excluded(p, e) ==
  UNION {{x.catch[k] : k \in {k \in Matches(x, e) : \A j \in Matches(x, e) : j <= k}} :
           x \in {x \in Lesser(p) : p < x.end}}

\* The catch block lgx_co_throw jumps to, if any: the last that matches of
\* the one try block the table gives.
Handlers(p, e) ==
  UNION {{x.catch[k] : k \in {k \in Matches(x, e) : \A j \in Matches(x, e) : j <= k}} :
           x \in {x \in Lesser(p) : p <= x.end}}

ThrownIn == buf[throw.base].v

Caught ==
  /\ mode = "throw"
  /\ \E b \in Handlers(throw.pc, throw.e) :
       /\ pc' = b.start
       /\ buf' = Put(buf, throw.base + b.reg, throw.e)
  /\ base' = throw.base
  /\ regs' = [block |-> block, base |-> base']
  /\ mode' = "execute"
  /\ throw' = NoThrow
  /\ UNCHANGED <<c, size, block, calls>>

Bug_rethrows_after_the_call ==
  [throw EXCEPT !.pc = buf[throw.base + 2].v, !.base = buf[throw.base + 3].v]

\* The exception is thrown again by the instruction that made the call.
InCaller ==
  [throw EXCEPT !.pc = buf[throw.base + 2].v - 1, !.base = buf[throw.base + 3].v]

Rethrow ==
  /\ mode = "throw"
  /\ Handlers(throw.pc, throw.e) = {}
  /\ buf[throw.base + 2].v >= 0
  /\ buf' = Freed(throw.base, throw.base + fun(ThrownIn).stack_size - 1)
  /\ throw' = InCaller
  /\ calls' = SubSeq(calls, 1, Len(calls) - 1)
  /\ UNCHANGED <<c, size, base, pc, regs, block, mode>>

Bug_uncaught_restarts == fun(ThrownIn).addr

\* Nobody catches: the coroutine goes on at the last instruction of its
\* bottom function, a RET.
UncaughtPc == fun(ThrownIn).end

Uncaught ==
  /\ mode = "throw"
  /\ Handlers(throw.pc, throw.e) = {}
  /\ buf[throw.base + 2].v < 0
  /\ pc' = UncaughtPc
  /\ base' = throw.base
  /\ regs' = [block |-> block, base |-> base']
  /\ mode' = "execute"
  /\ throw' = NoThrow
  /\ UNCHANGED <<c, buf, size, block, calls>>

-----------------------------------------------------------------------------
Died == mode = "died" /\ UNCHANGED vars

Next ==
  \/ Write \/ Divide \/ Jump
  \/ CallNew \/ CallSet \/ Call \/ CallBuildin \/ TailCall \/ Ret
  \/ ThrowValue \/ Caught \/ Rethrow \/ Uncaught
  \/ Died

Spec == Init /\ [][Next]_vars

\* One thread runs lgx_vm_execute and it never waits.
FairSpec == Spec /\ WF_vars(Next)

-----------------------------------------------------------------------------
(* Properties.                                                             *)

Value == Values(c)

\* Every variable has its type, and no instruction, native function or
\* unwinding has ever written outside the stack buffer: `buf' has exactly the
\* slots that were allocated, after calls, tail calls that move the arguments
\* down, returns, catches and growths.
TypeOK ==
  /\ c \in Programs
  /\ size \in Nat
  /\ buf \in [0 .. size - 1 -> Value]
  /\ base \in 0 .. size - 1
  /\ pc \in 0 .. Len(c.bc)
  /\ block \in Nat
  /\ regs \in [block : Nat, base : Nat]
  /\ mode \in {"execute", "throw", "died"}
  /\ throw \in [pc : Nat, base : 0 .. size - 1, e : Value]
  /\ calls \in Seq(Nat)

Alive == mode # "died"

\* The base the innermost frame in progress starts at, as the code holds it.
Innermost == IF mode = "throw" THEN throw.base ELSE base
InnermostPc == IF mode = "throw" THEN throw.pc ELSE pc

\* Following register 3 from the running frame visits exactly the calls that
\* are in progress, innermost first, and ends at the bottom frame: the links
\* that OP_CALL, OP_TAIL_CALL, OP_RET and lgx_co_throw keep in raw slots
\* survive everything the frames above write.
FramesLinked ==
  Alive =>
    /\ calls # <<>>
    /\ calls[Len(calls)] = Innermost
    /\ \A k \in 1 .. Len(calls) :
         /\ buf[calls[k]].type = "FUNCTION"
         /\ \A j \in 1 .. 3 : buf[calls[k] + j].type = "LONG"
         /\ buf[calls[k] + 3].v = IF k = 1 THEN -1 ELSE calls[k - 1]
         /\ (buf[calls[k] + 2].v < 0) <=> (k = 1)

\* A frame starts where the window of its caller ends and its own window is
\* inside the stack buffer, at every depth and after every growth.
FramesFit ==
  Alive =>
    /\ calls[1] = 0
    /\ \A k \in 1 .. Len(calls) :
         /\ k > 1 => calls[k] = calls[k - 1] + fun(buf[calls[k - 1]].v).stack_size
         /\ calls[k] + fun(buf[calls[k]].v).stack_size <= size

\* The slots CALL_SET, OP_CALL and OP_TAIL_CALL write above the window are in
\* the buffer: the room CALL_NEW tested for is still there when they run.
WritesFit ==
  mode = "execute" /\ Instr.op \in Passing =>
    base + Window + fun(Instr.f).stack_size < size

\* The next instruction belongs to the function in register 0, a caller goes
\* on behind a call in its own code, and an exception is looked up at the
\* instruction of the frame it comes out of, also after tail calls, returns
\* and exceptions.
PcInFunction ==
  Alive =>
    /\ Owns(c, buf[Innermost].v, InnermostPc)
    /\ mode = "throw" => c.bc[throw.pc + 1].op \in {"DIV", "THROW", "CALL_NEW", "CALL"}
    /\ \A k \in 2 .. Len(calls) :
         LET at == buf[calls[k] + 2].v - 1
         IN  Owns(c, buf[calls[k - 1]].v, at) /\ c.bc[at + 1].op = "CALL"

\* vm->regs points into the present buffer at the running frame, whatever
\* realloc moved and whatever frame an exception was caught in.
WindowIsCurrent == mode = "execute" => regs = [block |-> block, base |-> base]

HasTailCalls(p) == \E q \in Pcs(p) : p.bc[q + 1].op = "TAIL_CALL"

\* Slots above the running frame are empty unless arguments are being passed:
\* a returning or unwound frame leaves nothing behind ("free all locals and
\* temporaries") and a called function finds its locals empty.  A tail call of
\* a function with a smaller window breaks this: OP_RET then frees the smaller
\* one.
FramesAreClean ==
  mode = "execute" /\ ~HasTailCalls(c) /\ (\A g \in DOMAIN c.fun : ~IsPreparing(c, pc, g)) =>
    \A n \in base + Window .. size - 1 : buf[n].type = "UNKNOWN"

\* Whatever a function does, the registers of the functions below it do not
\* change, except the one that takes the result when it returns.
CallersUntouched ==
  [][/\ \A k \in 1 .. Len(calls') - 1 :
          \A n \in calls'[k] .. calls'[k + 1] - 1 : buf'[n] = buf[n]
     /\ mode = "execute" /\ Len(calls') < Len(calls) /\ calls' # <<>> =>
          \A n \in 0 .. base - 1 : n # base' + c.bc[pc'].pa => buf'[n] = buf[n]]_vars

Encloses(x, p) == x.start <= p /\ p <= x.end

\* An exception is caught by the innermost try block around the instruction
\* that has a catch block of its type, and leaves a frame only when the frame
\* has none.
HandlerIsNearest ==
  [][mode = "throw" =>
       LET around == {x \in c.exception : Encloses(x, throw.pc) /\ Matches(x, throw.e) # {}}
       IN  IF around = {}
           THEN mode' = "throw" \/ pc' = UncaughtPc
           ELSE \E x \in around :
                  /\ \A y \in around : x.start >= y.start /\ x.end <= y.end
                  /\ mode' = "execute"
                  /\ \E k \in Matches(x, throw.e) : pc' = x.catch[k].start]_vars

\* A program without loops and tail calls ends: unbounded recursion runs into
\* the stack limit, and an exception reaches a handler or the end of the
\* coroutine.
Terminates == ~HasTailCalls(c) ~> mode = "died"
=============================================================================
