# A verification project for xscript

xscript is a small statically typed scripting language with coroutines and
exceptions. This directory holds TLA+ models of its front end, its compiler,
its runtime and the data structures they stand on, the TLC configurations that
check them, and TLAPS proofs about the runtime. Source paths below
are relative to the repository's `src/` directory.

The repository is in the middle of a rewrite. Two programs live in it:

* the C implementation, complete from source text to execution
  (`tokenizer/lex.c`, `parser/ast.c`, `symbol.c`, `type.c`, `compiler/*.c`,
  `interpreter/*.c`). It is compiled, but `main` (`xscript.cpp:22-65`) has its
  call commented out. Everything behind its parser is modelled;
* the C++ front end (`scanner.cpp`, `ast.cpp`, `syntax.cpp`), which `main`
  runs today. It stops after parsing; its compiler and interpreter are stubs.
  All of it that runs is modelled. It takes the same tokens as the C tokenizer
  and replaces the C parser function by function, so those two are not.

The models do not meet, as the two halves of the program do not: the front end is
checked from characters to the `ast_node` tree of `ast.cpp`, the compiler and the
machine from the C tree (`lgx_ast_node_t`) to what a program prints. Both trees
follow the same grammar, but nothing in the code turns the one into the other:
`Codegen` is checked on trees of its own (`Samples`), not on what `Parser` builds.

No native ("buildin") function exists in the repository, so nothing calls
`lgx_co_yield`, `lgx_co_suspend` and `lgx_co_resume`: they are an interface
for native functions, and the models let a native function use it in every
legal way. `async` and `await` are described in the docs and are not in the
compiler; the keyword that creates a coroutine becomes `OP_CO_CALL`.

## Inventory

| Part | State | Operations | Talks to | What is hard |
|---|---|---|---|---|
| Coroutine scheduler, `interpreter/coroutine.c`, loop of `vm.c` | `co_running`, lists ready/suspend/died, `co_id`, `co_count`; per coroutine status, parent, `ref_cnt` | create, run, yield, suspend, resume, died, schedule, `lgx_vm_start` | interpreter, native functions | ends in any order, freed blocks whose address comes back, deferred deletion, limits, fairness |
| Call stack, `coroutine.c`, call instructions of `vm.c` | stack buffer, `base`, `pc`, `vm->regs` | CALL_NEW, CALL_SET, CALL, TAIL_CALL, RET, growth | compiler (shape of the code), scheduler | frame links are ordinary values in raw slots; `realloc` moves them |
| Exceptions, `lgx_co_throw`, `compiler_try_statement` | table of try blocks ordered by address | throw, look-up, unwinding | call stack, red-black tree | nested and adjacent blocks, unwinding through several frames |
| Red-black tree, `common/rb.c` | nodes, colours, root, size | set, del, seven queries, traversal | exception table | rebalancing cases |
| Hash table, `common/ht.c` | chains, order list, size, length | set, get, del, resize, traversal | symbols, constants, arrays | resize in place, failed resize, sizes 0 and 1 |
| Strings, arrays and their owners, `value.c`, `gc.c`, `vm.c` | objects, young list, registers | load, concat, array new/set/get, dup, cleanup | hash table | who frees what, aliases of elements |
| Garbage collector, `gc.c` | young and old lists | minor, full | values | never started by the code |
| Bytecode generator, `compiler/compiler.c`, `bytecode.c` | code buffer, jump lists, exception table | one function per statement and expression | symbols, registers, constants | patched jumps, order of emission, errors half way |
| Registers, `register.c` | stack of 256 free registers per function | pop, push | generator | double release, exhaustion |
| Constants, `constant.c`, `expr_result.c` | table from content to number | get, get/update function | generator, VM | functions used before they are compiled |
| Symbols, `symbol.c` | hash table per block | declare, look up | C parser, generator | declaration before use, shadowing |
| Types, `type.c` | type terms | dup, cmp, inference, fit | generator | nested types |
| C++ scanner, `scanner.cpp` | offset, milestone, mode | next, set_mode | C++ parser | longest match, end of input, nested modes |
| C++ parser, `ast.cpp` | current token, errors, tree | productions, failover | scanner | progress after errors, exceptions |
| Package cache, `syntax.cpp` | packages by path | load, reload | C++ parser | failed parses, edited files |
| C tokenizer and parser, `lex.c`, `ast.c` | offset, look-ahead, tree | one function per production | symbols | superseded by the C++ ones |
| C++ stubs, natives, optimizer, utilities | – | – | – | nothing to model |

What makes each part correct:

* scheduler: a coroutine is in the list its status names; a parent is not freed
  while a child can still read it and not kept longer; counts are exact; a
  ready coroutine gets its turn; `lgx_vm_start` tells success from dead lock;
* call stack: frames are linked, disjoint and inside the buffer; what a
  function does leaves its callers' registers alone; a program that recurses
  without bound ends with an exception;
* exceptions: the nearest enclosing handler of the type gets the exception;
* tree and table: they are the set and the map their users take them for;
* values: every object has one owner, is freed once, and not while in use;
* generator: a program prints what its tree means; a register holds one value
  in use at a time; every jump, call and handler is what the machine relies on;
* symbols: the nearest earlier declaration wins; types: no instruction of an
  accepted program meets an operand it cannot use;
* scanner: tokens are the longest lexemes, and every character is in one;
* parser: it accepts the sentences of the grammar and no other text, gives an
  expression the tree of the documented precedence, and ends on any input;
* cache: a package is what was parsed last, whole, until it is reloaded.

## Modules

| Module | Models | Correspondence |
|---|---|---|
| `Coroutine` | scheduler | one action per `lgx_co_*` call, run to its end; `mode` is the place of the VM's C code between two calls; addresses are reused |
| `TaskSchedule` | what programs may rely on | tasks and a first-in first-out queue, no blocks, parents or counts |
| `CoroutineProofs` | – | theorems about `Coroutine` |
| `CallStackProofs`, `ArrayHeapProofs`, `HashTableProofs` | – | theorems about `CallStack`, `ArrayHeap` and `HashTable` |
| `RBTreeInsertion`, `RBTreeDeletion`, `RBTreeProofs` | – | theorems about `RBTree`; each extends the one before |
| `InductionFacts` | – | facts about numbers and recursion that the proofs share |
| `CallStack` | call stack and exceptions | one action per instruction, over raw slots; `lgx_co_throw` takes one step per frame it leaves. `WellFormed` says what compiled code looks like |
| `RBTree`, `SortedSet` | `rb.c`, and the set it implements | one action per call, one operator per part of a loop's round (`Fixup`, `Climb`, ...); left and right are one definition with a side |
| `HashTable`, `OrderedMap` | `ht.c`, and the map it implements | one action per call; pointers are pointers, so a lost link is a lost node |
| `ArrayHeap` | strings, arrays, functions, young list | one action per instruction; objects at addresses |
| `Types` | `type.c` | terms; one operator per function |
| `SymbolScope` | `symbol.c` | one symbol table per block, filled in source order; look-up by offset |
| `Codegen` | `compiler.c`, `bytecode.c`, `register.c`, `constant.c`, `expr_result.c` | one operator per `compiler_*` function, from the compiler's state to the next one |
| `Machine` | `lgx_vm_execute`, `lgx_co_throw`, the ready queue, with values | one step per instruction |
| `Bytecode` | – | the shape of code on which `CallStack` relies, `WellFormed` |
| `Meaning` | – | what a program means, from its tree alone: the reference |
| `Compilation` | – | the promises of the compiler and the machine, with the programs for which they are not kept |
| `Samples` | – | the programs |
| `Scanner` | `scanner.cpp` | `next()` and its `step_to_*` functions over real characters |
| `Parser`, `Statements` | `ast.cpp`, `ast_node.cpp` | one operator per `parse_*` function, from the parser to the next one with what the function returned |
| `Grammar` | – | lexemes, the grammar in the comments of `ast.cpp`, expression trees: the reference |
| `FrontEnd` | the calls of the scanner, `syntax.cpp` | one action per token with either mode, per `load`, per `reload`, per edit of the file |
| `MC*` | instances for TLC | programs, texts, colliding keys, symmetry |

History variables, which no action reads: `calls` in `CallStack` (the frames in
progress, to compare with the links in the slots). `intact` in `HashTable` is
a guard of the model and no state of the code.

`held` and `shared` in `Codegen` count the registers that somebody was given.

The compiler, the symbol tables and the parser are functions: they have no
state between two calls. They are operators that take and return the whole
state, and what they make of a program or a text is a constant operator of the
state machines around them (`Compiler(_)`, `ast(_)` and `Parser(_)`, given
definitions in the configurations), which TLC computes once per program. Many
of them are RECURSIVE, as the code is; these modules hold no theorems.

How they compose: `MCCompile` runs `SymbolScope`, `Codegen` and `Machine` one
after the other on a program. `Bytecode!WellFormed` is what `CallStack` assumes
of its programs, and `CodeIsWellFormed` shows it of compiled ones.

`CallStack` is the stack of one coroutine of `Coroutine`, and the two share
`pc`, `base` and `vm->regs`; `Coroutine` models the latter as the coroutine
whose stack it points into, `CallStack` as the buffer and the offset.
`CallStack` looks try blocks up by definition (`Lesser`), and `RBTree` shows
that `lgx_rb_get_lesser` computes that (`QueriesRight`, for every tree). Arrays in `ArrayHeap` are ordered maps
by definition, and `HashTable` shows that the table is one.

Operators named `Bug_...` stand beside the definitions they vary. They are
plausible mistakes in that code, are used by no specification, and serve to see
that a property would notice.

## Runs

| Run | Shows | Bounds |
|---|---|---|
| `co_safety` | list, count, parent and verdict invariants over every interleaving of creations, yields, suspensions, resumptions and ends | 4 addresses, 7 creations, limit 2 |
| `co_live` | a ready coroutine runs; the scheduler implements `TaskSchedule` | 3 addresses, 4 creations |
| `co_batch` | without native functions coroutines run in creation order and the program ends with 0 | 5 creations |
| `stack` | frames linked, disjoint, in the buffer and clean; callers untouched; nearest handler; unbounded recursion ends | 3 programs, stack 16 to 128 |
| `stack_nested_try` | **fails**: an inner try block hides the outer one | 1 program |
| `rb_tree` | the five red-black properties, every query, a sorted set | 8 keys |
| `ht_map` | chains complete, traversal complete, an ordered map | 5 keys, 3 in one bucket |
| `compile` | scopes lexical, code well formed, registers distinct, types sound, and every program prints what it means | 893 programs, 16 registers, stack 96 |
| `front` | tokens are the longest lexemes, the parser accepts the grammar and builds the documented trees, the cache | about 8600 texts in both modes, about 2400 files |
| `heap_owners` | one owner for each object, clean-up frees everything | 4 objects, 2 registers |
| `heap_alias` | **fails**: an element read into a register is freed when the array's element is replaced | 4 objects |
| `heap_append` | **fails**: an append may overwrite | 3 objects |

Why the bounds are enough:

* `co_safety`: `LGX_MAX_CO_LIMIT` is 2 and not thousands, so that the limit is
  reached with a parent, two children and a grandchild in every state. Seven
  creations over four addresses hand every address out at least twice, which
  is what a stale parent pointer needs. `MaxId` bounds only the number of
  creations; the invariants are also proved without any of these bounds.
* `stack`: `MAX_STACK` 128 lets the stack double three times from 16, so that
  growth happens with several frames and with a handler below, above and at
  the growing frame. `MaxDoublings` stands for the width of the unsigned size
  and is not reached. The programs of `MCCallStack` are compiled by hand from
  `test/basic/exception.x` and `tail_call.x` and a recursion with handlers.
  Conditions of jumps are free, so each program stands for all its paths.
* `rb_tree`: with eight keys every case of insertion and deletion and each
  mirror image occurs, with recolouring that rises two levels.
* `ht_map`: tables start at two buckets (`LGX_HT_MIN_SIZE` is 8 in the code) so
  that five keys make them grow twice, with collisions before and after; one
  key is the beginning of another, because `lgx_str_cmp` compares the byte that
  follows. Requests of 0, 1 and 3 exercise `ALIGN`; for 1 the result of
  `__builtin_clz(0)` is undefined and any power of two up to `2^MaxShift` is
  taken. A table is cleaned up in every state and used again. `UINTS` is 64 and
  not 2^32, so that the hash of a key of two bytes wraps around.
* `heap_owners`: four objects allow an array in an array in a register, copied
  whole, with an alias to the inner one, and an array constant loaded with its
  element; arrays have at most `MaxLength` = 2 elements, an old one and an
  appended one.
* `compile`: the programs combine every operator with every kind of operand
  (variable, global, named constant, literal, compound), put conditions of
  every kind wherever there can be one, nest loops with `break` and `continue`,
  throw and catch through calls, and include wrong programs. With 16 of the 256
  registers (`NREGS`) expressions and declarations run out of them. `STACK` slots
  hold the deepest of these programs; `CallStack` looks at growth.
* `front`: texts of up to five characters over small alphabets that meet in one
  function of the scanner (points and digits, quotes and escapes, operators,
  comments, ends of line), in each mode and with the mode changed before each
  token. The files hold every statement and declaration once or twice, with each
  lexeme dropped, doubled, swapped with the next or replaced by `;`, `)`, `}` or
  `a`, with and without spaces; all pairs of twelve operators, one of each
  precedence, prefixes and brackets; comments behind each lexeme; nested types.
  Four files are edited into each other between `load` and `reload`. TLC
  evaluates the parser on each file, so each parse ends.

Deadlock is checked in every run but `front`, in which a scanner stops at the
end of its text: where a program has ended, the other models have an explicit
step that changes nothing.

## What the failing runs show

* `stack_nested_try`. `lgx_co_throw` (`coroutine.c:384`) takes the try block
  with the greatest start below the instruction and no other. If that block
  has no catch of the type, or has already ended, an enclosing block of the
  same function is not looked at. The comment at line 375 promises the nearest
  matching block.
* `heap_alias`. `OP_ARRAY_GET` hands out the element itself and `OP_ARRAY_SET`
  frees the element it replaces; the docs promise reference counting, and no
  count is kept.
* `heap_append`. `arr[] = v` uses the number of elements as the key, and
  replaces the element that has that integer key already.

## What the compiler does not keep

`RunsAsWritten` holds for the programs outside `Compilation!Departs`. Each of its
disjuncts is a set of programs, with the reason beside it:

| Name | What the code does |
|---|---|
| `TestsGlobal` | the address of a conditional jump is taken before `load_to_reg` emits the load of a global |
| `FoldsNamedConstant` | a named constant has no value for the compiler, which folds with a zero |
| `ContinuesDo` | `continue` in a do loop goes to the start of the body (`compiler.c:2172`) |
| `ComparesEqual` | `lgx_value_cmp` is a stub: `==` at run time is false |
| `LoadsLate` | a global operand is loaded after the operands behind it were computed |
| `TailCallsInTry` | `return f()` leaves the try block it is written in |
| `NestsTry`, `ThrowsVariable` | only one try block is looked at (the run `stack_nested_try`); a throw empties the variable it throws |
| `IndexesByBoolean`, `NegatesDouble` | holes in the type checks |
| `SwitchesCases` | the cases of a switch are not compiled |
| `SwallowsAnError` | an operator that fails on its operands' types is reported, but the operator around it succeeds and the program is accepted |
| `code.shared` | a temporary operand's register is given back twice, by `binary_operator` and by `lgx_expr_result_cleanup`, and then given to two values |

`RegistersAreDistinct` says that the last happens only to operators on computed
operands, `TypesAreSound` that instructions meet wrong operands only through the
named holes.

## What the front end does not keep

`ParsesTheGrammar` has the grammar in the comments of `ast.cpp` for its
reference. The files it excepts, in `FrontEnd`:

| Name | Lines of `ast.cpp` | What the code does |
|---|---|---|
| `StepsOverAToken` | 926 | the declaration of a type eats the token behind the type: `type C int;` (`test/type/interface.x:11`) is refused |
| `EmptyCondition` | 951, 1001 | `if ()` and `while ()` are accepted |
| `TrailingComma` | 800 | `(var a,)` is accepted |
| `MixedLabel` | 1231-1244 | blocks and statements may take turns under a label |
| `OddStatement` | 1361-1372 | no statement begins with a literal or most prefix operators |
| `ElseIfInLabel` | 973, 1240 | `else if` returns the opposite of its success, and a label believes it |
| `LosesTheMode` | 425 | an inner type puts the scanner's mode back, and `>>` behind it is one operator |
| `CommentInType` | 398-425 | in that mode no comment begins |
| `TokensInComment` | 45, 54 | a comment is cut into tokens, and a quote in it swallows its end |

`TokensAreLongest` excepts two points in a row, a literal that is never closed
and a zero at the end of the text, which reads beyond it: the exception leaves
`load`, and the half parsed package stays in the cache, where the next `load`
finds it.

Seen while modelling, without a run of their own:

* `lgx_ht_del` (`ht.c:185`) leaves the freed node in the order list and in
  `length`. Nothing deletes yet; `HashTable` checks deletions and look-ups after
  them, and allows no insertion after a deletion.
* After a tail call to a function with a smaller window, `OP_RET` frees that
  smaller window: registers of the first function stay set. `FramesAreClean`
  is therefore stated for programs without tail calls.
* `OP_CONCAT` gives its string no type, so `lgx_gc_cleanup` frees the header
  and not the characters: `CleanupFreesAll` excepts exactly these buffers.
* `lgx_rb_cleanup` frees the nodes and leaves `root` pointing to the first of
  them; nothing uses the tree before the next `lgx_rb_init`.
* The empty string as an array key fails an assertion of the hash table. The empty
  string, or an array without text, as a constant fails the one of `str.c:92`, and
  the compiler ends (`HasNoText`).
* An integer key is the string of its eight bytes: `lgx_str_cmp` cannot tell a
  string from a longer one that goes on with a zero byte. `HashTableAssumption`
  excludes such pairs.
* `lgx_co_create` tests the limit with `>` before counting: `CountIsExact` has
  the limit plus one as its bound.

## Fairness

The VM is one thread, and time passes only by its steps.

* `WF_vars(lgx_vm_start)`: the loop at `vm.c:850` has nothing to wait for.
* Weak fairness of `GivesUp`: the running coroutine yields, suspends, returns
  or dies at some time. Without it an endless loop in a script starves the
  others, as it does in the code, which does not preempt.
* Strong fairness of `BackToLoop`: native functions do not hand the CPU to each
  other for ever (`lgx_co_resume` runs its argument at once if nothing runs).
* `CallStack` has `WF_vars(Next)`, the interpreter goes on; `Terminates` is
  about programs without loops.

Nothing is assumed of the order in which coroutines are resumed: a suspended
coroutine may stay suspended for ever, and `lgx_vm_start` then returns 1.

## Proofs

Each theorem holds for every value of the constants that satisfies the named
assumption of its module. Every component is proved the same way: the
inductive invariant (`IInv`; `Inv` in `HashTableProofs` and `RBTreeProofs`) holds at the start, every
action keeps it (one lemma per action), and the properties that the runs check
follow from it. TLC checked `IInv` on the instances before it was proved; `Inv`
quantifies over sequences or functions, and TLC sees only what follows from it.

### Scheduler

For any set of addresses, any limit and any number of creations; `CoAssumption`
says that the null pointer is no address and that the constants have their types.

`CoroutineProofs` proves `Spec => []IInv`, `IInv` being the conjunction of

* `TypeOK`, `ListsMatchStatus`, `RefCountsLiveChildren`, `ParentIsCreator`,
  `DiedIsNeeded`, `CountIsExact`, `WindowIsRunning`, and
* `IdsGiven` (identifiers are distinct and were given out) and `StopsEmpty`
  (in the loop nothing runs, at the end nothing is ready).

None is inductive alone. That a list holds a coroutine once needs the status
of every other one; that a parent's block is still its parent's needs the
count of its children, and that the count is right needs that no block is
freed while a child points to it; that at most limit plus one blocks exist
needs that died blocks are kept only for children. The steps are grouped by
what they leave alone: lemma `BlocksUntouched` does the counts for every step
that creates and frees nothing, `NewBlockKeeps` does creations, and
`EndingFacts`, `EndingChildren` and `DiedKeeps` do ends. A theorem for each
safety invariant follows; `CreationOrderIsKept` has an invariant of its own,
`OrderInv`: without native functions nothing is ever suspended, and what runs was
created just before the ready ones.

`CoroutineProofs` ends with `Spec => ImplementsTasks` (theorem
`Implementation`; `TaskSchedule` states no fairness): the initial state maps to
an initial state of `TaskSchedule`, and every step to one of its steps or to a
stutter, under the invariant.

### Call stack and exceptions

`CallStackProofs` is about every set of well-formed programs, every stack size
and every number of doublings. `CallStackAssumption` is what the compiler
promises, `Bytecode!WellFormed`: a function owns its instructions and ends with
`RET 0`, operands are in its window, a call that has been begun is made
(`CallGoesOn`), nothing jumps between `CALL_NEW` and the call, a try block and its
catch blocks are in one function. The run `compile` shows `WellFormed` of compiled
programs (`CodeIsWellFormed`).

Memory checks no index: in `CallStack` a write next to the buffer adds a slot to
`buf` (`Stored`), as a write through `vm->regs` would hit what lies there. So
`TypeOK`, which says that `buf` has exactly `size` slots, fails as soon as one
instruction writes outside, and `TypeCorrect` has to show for each write that the
frame, or the room `CALL_NEW` tested for, contains it. It needs `FrameChain` for the
result a return writes into the caller and `RoomKept` for arguments and headers.

Where the frames are is written only in the registers 0 to 3 of the frames. The
heart of the invariant is `FrameChain`, which says what these registers hold for
every call in progress and that each window is below all later frames; the last
part makes "a write above the innermost header disturbs no frame" one step
(`ChainKept`) instead of an induction over the depth. `ChainPushed`,
`ChainPopped` and `ChainReused` do calls, returns and tail calls for any chain.
The invariant adds that the room `CALL_NEW` tested for is kept until the call
(`RoomKept`), that `vm->regs` is current, and that there is nothing above the
running frame but arguments being passed (`AboveIsEmpty`), which is why a callee
finds its locals empty and a return leaves nothing behind.

All safety invariants of the run `stack` are theorems, and both its action
properties. `CallersKeepTheirRegisters` holds without condition.
`HandlerIsTheNearest` is about programs in which no try block is nested in
another (`TryBlocksApart`); the run `stack_nested_try` is the counterexample for
the others. Then at most one block is around an instruction, it is the one
`Lesser` finds, and it has a last catch block of the type exactly when it has
one (`GreatestNumber`).

### Arrays and their owners

`ArrayHeapProofs` is about any number of addresses and registers and arrays of
any length; `ArrayHeapAssumption` asks that memory is finite and that an array
has room for an element. `IInv` says that everything has its shape, that an array holds a key
once, that nothing is linked from two places and nothing points to what was
freed, and that every object is reachable from the young list. The last is
`Rooted`: a set of addresses that holds the young list and, with every array, the
array's elements, holds every object. It speaks of no paths and still excludes
cycles, and without it the recursive free of an element could take the array
apart that it was just taken from. `TypeCorrect`, `EveryObjectHasOneOwner` and
`NothingIsLeft` follow.

### Red-black tree

`RBTreeProofs` is about every set of natural numbers as keys and trees of any size;
`RBTreeAssumption` says only that keys are no negative numbers and that the null
pointer is no key.

A tree is described without paths. `Shape(r, D)` says that `D[n]` is the set of
the nodes under `n`: `n` and those under its children, the left ones smaller and
the right ones greater than `n`, with every parent link the inverse of a child
link. `Levels(r, H, ...)` says that `H[n]` is the number of black nodes on every
path down from `n`, and `Pales` that a red node has black children. The
invariant is `Good(t)`: there are a `D` and an `H` for which all three hold, the
root is black, `size` is the number of nodes, and nodes out of the tree are as
`xcalloc` leaves them; after `lgx_rb_cleanup`, only the last holds (`Freed`).

* One loop lets one place be wrong. While `rb_insert_fixup` climbs, `Pales` fails at
  most between the node and its parent (`Growing`). While `lgx_rb_del` climbs, the
  paths through one link lack one black node (`Lack`, `Lacking`). Each round
  closes the hole or moves it up (`FixupGrows`, `ClimbLacks`).
* A rotation keeps the set of nodes under its top, changes `D` at two nodes
  (`Turned`) and is proved once for both sides. What a rotation and a change of
  colours do to `H` and to `Pales` is computed at the two or three nodes they touch
  (`RotationLevels`, `RotationPales`).
* The loops are cut at as many rounds as the tree has nodes. That this is enough is
  proved: a round that goes on leaves more nodes under the place than before
  (`Advances` for insertions, `Goes` for deletions).
* The successor of a node with two children is first taken out, as a node with at
  most one child, and then put in the place of the node to delete: a renaming
  (`Renames`), which keeps the shape, the numbers and the colours node for node
  (`RenamedKeeps`).
* Searches and ends are recursive functions down the tree, `lgx_rb_next` is one up the
  tree. Each defines a function because a rank falls along its calls (`Descent`:
  the number of nodes under a node, or of those that are not), and what it returns is
  proved from the leaves to the root (`FromTheLeaves`) or the other way round
  (`FromTheRoot`). `LastBeforeFacts` says what all four neighbour queries find, for
  any way of going left from some key on.

`TypeCorrect`, `RedBlackTrees` and `QueriesRight` follow, and `Implementation` is
the refinement of `SortedSet`: an insertion adds its key and a deletion removes its
key, whatever was rotated, recoloured or relinked on the way.

### Hash table

`HashTableProofs` is about any set of keys, any finite memory, tables of every
size the code can ask for and any number of growths, and hashes that wrap around
at any width. `HashTableAssumption` says that a key has at least one byte, none
above 127, and that no key is another one followed by a zero byte: these are the
keys that `lgx_str_cmp` tells apart (`ComparesRight`).

The state holds links and no lists. `List(link, from, s)` says that the links lead
from a node through the sequence `s`, without a repetition, to the null pointer,
and `WalkOfPath` that a walk then returns `s`: from there on the proofs speak of
sequences. The invariant is `Sound`: for every bucket there is a list of exactly the
nodes in use whose keys belong there, no two nodes hold the same key, and the
order list leads through the nodes in use, ends at `tail` and has `length` nodes
as long as nothing was deleted; after a deletion it still holds them all.

* An insertion pushes a node in front of one list, appends it to another and
  writes no link of the rest (`PushFront`, `WriteElsewhere`, `InsertKeeps`).
* A growth goes by induction over the nodes it has moved: after `i` of them the new
  table is `Filled` with the first `i` nodes of the order list, and the links of the
  others are still those of the old list (`ResizedKeeps`). This is the loop that
  reads the links it is rewriting.
* A deletion takes one node out of one list (`TakeOut`); a look-up finds the
  only node with the key (`FindIsRight`).

`TypeCorrect`, `ChainsAreRight` and `TraversalIsRight` follow. `HashTableIsAMap` is the
refinement of `OrderedMap`: the map's entries are a recursive function of the
order list (`EntriesAlong` says which keys it collects), to which an insertion
adds the last one (`EntryAppended`), from which a deletion removes one and keeps
the order of the others (`EntryRemoved`), and which a growth does not change.

What the recursive functions of this module compute is proved by induction, in a
form the provers can use: an induction is over the members of a set of numbers
(`UpTo`, from `LeastNumber`), and `Recursion` says that a recursive definition
over `0 .. N` defines a function.

### Only model-checked

* Liveness (`ReadyRuns`, `Completes`, `Terminates`): fairness and ENABLED are beyond
  the prover.
* The compiler's modules and the front end's (`LookupIsLexical`,
  `CodeIsWellFormed`, `RegistersAreDistinct`, `TypesAreSound`, `RunsAsWritten`,
  `TokensAreLongest`, `ParsesTheGrammar`): they have recursive operators, and the
  prover loses its SMT solver where one is declared.
* That the recursive operators of those modules compute what they should for
  every tree and text: that is an induction over data.

## Plan

Proved are the scheduler, the call stack, the red-black tree, the hash table and
the owners of arrays. Left:

1. `SymbolScope` without recursive operators, and lexical look-up as a theorem
   about every well-formed tree.
2. Two coroutines with stacks of their own over one VM, and allocation failures
   in `ArrayHeap`, if they can be had without another instance.

## Not modelled

* The C tokenizer and parser: nothing runs them, and the C++ ones, which are
  modelled, do the same work.
* The texts and places of syntax errors, `prev_token`, `print` and `reset`.
* The text of compiler errors, `lgx_bc_print`, the instructions nothing emits.
* The width of numbers in `Codegen` and `Machine`: integers are unbounded and a
  double is a whole number. In `CallStack` a value is a type and, where the stack
  depends on it, a number or a function.
* The collector: never started, its bodies are comments.
* Allocation failures in `ArrayHeap` (a failed load stops the process in
  `lgx_gc_trace`, a failed `OP_ARRAY_SET` frees its copy again) and in the compiler; two references to one array in `Machine` (they are in `ArrayHeap`).
* The initial values of global variables as objects: `vm->global` points to what
  the compiler holds, which no list of the VM owns.
* C++ symbol tables and register allocators, the C++ compiler and interpreter,
  native functions, the optimizer: begun or empty, and used by nothing.
* Printing, escapes, configuration, time stamps.
