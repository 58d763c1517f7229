---------------------------- MODULE MCCallStack -----------------------------
(* CallStack on small programs, written as the compiler would emit them.   *)
EXTENDS CallStack

set(r, v) == [op |-> "SET", pa |-> r, v |-> v]
div(r) == [op |-> "DIV", pa |-> r]
jmp(to) == [op |-> "JMP", to |-> to]
call_new(f) == [op |-> "CALL_NEW", f |-> f]
call_set(f, n, r) == [op |-> "CALL_SET", f |-> f, pa |-> 3 + n, pb |-> r]
call(f, r) == [op |-> "CALL", f |-> f, pa |-> r]
tail_call(f) == [op |-> "TAIL_CALL", f |-> f]
ret(r) == [op |-> "RET", pa |-> r]
throws(r) == [op |-> "THROW", pa |-> r]

Code(first, last, window, args) ==
  [addr |-> first, end |-> last, stack_size |-> window, arg_len |-> args,
   buildin |-> FALSE]
Native(window, args) ==
  [addr |-> 1, end |-> 0, stack_size |-> window, arg_len |-> args,
   buildin |-> TRUE]

Catch(type, start, reg) == [e |-> type, start |-> start, reg |-> reg]
Try(first, last, catches) == [start |-> first, end |-> last, catch |-> catches]

\* test/basic/exception.x: handlers in a row, a callee that throws or fails
\* and a last exception nobody catches.
Exceptions ==
  [main |-> 1,
   fun |-> << Code(0, 16, 7, 0), Code(17, 21, 6, 0) >>,
   bc |-> << set(4, Long(1)), throws(4),                         \* 0   try
             jmp({4}), set(5, String),                        \* 2   catch int
             call_new(2), call(2, 4),                      \* 4   try
             jmp({8}), set(5, String),                        \* 6   catch string
             call_new(2), call(2, 4),                      \* 8   try
             jmp({12}), set(5, String),                       \* 10  catch int
             jmp({14}), set(6, Long(5)),                      \* 12  catch string
             set(4, String), throws(4), ret(0),                  \* 14
             div(4), jmp({19, 20}), throws(4), ret(4), ret(0) >>,  \* 17
   exception |-> { Try(0, 1, << Catch("LONG", 3, 5) >>),
                   Try(4, 5, << Catch("STRING", 7, 5) >>),
                   Try(8, 9, << Catch("LONG", 11, 5), Catch("STRING", 13, 6) >>) }]

\* Recursion with an argument, two windows of different sizes and a handler
\* in the middle of the recursion: every depth the stack has room for.
Recursion ==
  [main |-> 1,
   fun |-> << Code(0, 4, 6, 0), Code(5, 14, 7, 1), Code(15, 21, 9, 2), Native(6, 1) >>,
   bc |-> << set(4, Long(3)), call_new(2), call_set(2, 1, 4), call(2, 5), ret(0),
             jmp({6, 12}),                                     \* 5
             call_new(3), call_set(3, 1, 4), call_set(3, 2, 4), call(3, 5),
             jmp({12}), set(6, Long(7)),                       \* 10  catch string
             ret(5), div(5), ret(0),                           \* 12
             call_new(4), set(8, Long(9)), call_set(4, 1, 8), call(4, 8), \* 15
             call_new(2), call(2, 7), ret(0) >>,            \* 19
   exception |-> { Try(6, 9, << Catch("STRING", 11, 6) >>) }]

\* test/basic/tail_call.x, and a tail call of a function with another window.
TailCalls ==
  [main |-> 1,
   fun |-> << Code(0, 5, 7, 0), Code(6, 15, 8, 1), Code(16, 20, 10, 2) >>,
   bc |-> << set(4, Long(3)), call_new(2), call_set(2, 1, 4),
             call(2, 5), throws(5), ret(0),
             jmp({7, 8, 11}), ret(4),                          \* 6
             call_new(2), call_set(2, 1, 4), tail_call(2), \* 8
             call_new(3), call_set(3, 1, 4), call_set(3, 2, 5), tail_call(3), ret(0),
             div(9), call_new(2), call_set(2, 1, 9), \* 16
             tail_call(2), ret(0) >>,
   exception |-> {}]

\* A try block whose catch block, and a try block around both, are in the
\* same function; the inner block catches another type.
Nested ==
  [main |-> 1,
   fun |-> << Code(0, 8, 7, 0) >>,
   bc |-> << set(4, Long(1)), div(5), throws(4),                  \* 0   try, try
             jmp({5}), div(5),                                 \* 3   catch int
             div(5), jmp({8}), set(5, Long(2)), ret(0) >>,     \* 5   catch string
   exception |-> { Try(0, 5, << Catch("STRING", 7, 6) >>),
                   Try(1, 2, << Catch("LONG", 4, 6) >>) }]

All == {Exceptions, Recursion, TailCalls}
WithNested == {Nested}
=============================================================================
