----------------------------- MODULE Coroutine ------------------------------
(***************************************************************************)
(* The coroutine scheduler of the xscript virtual machine:                 *)
(* src/interpreter/coroutine.c and the driving loop of src/interpreter/vm.c*)
(* (lgx_vm_call, lgx_vm_start and the instructions of lgx_vm_execute that  *)
(* create, switch or end a coroutine).                                     *)
(*                                                                         *)
(* A coroutine is a heap block; Co is the set of addresses the allocator   *)
(* can return, so an address may be freed and handed out again.  The VM is *)
(* single threaded: every action is one call of an lgx_co_* function, run  *)
(* to its end, and `mode' is the place of the VM's C code between two such *)
(* calls.  What a coroutine computes between them is left out.             *)
(*                                                                         *)
(* The ready list is scanned from its head, so it is a sequence.  Nothing  *)
(* ever reads the order of the suspend and died lists: they are sets.      *)
(***************************************************************************)
EXTENDS Integers, Sequences, FiniteSets

CONSTANTS
  Co,           \* addresses the allocator hands out for lgx_co_t blocks
  NULL,         \* the null pointer
  MAX_CO_LIMIT, \* LGX_MAX_CO_LIMIT
  MaxId,        \* bound of the model: coroutines created in one execution
  HasBuildin    \* the program calls native functions (fun->buildin)

ASSUME CoAssumption ==
  /\ NULL \notin Co
  /\ IsFiniteSet(Co)
  /\ MAX_CO_LIMIT \in Nat
  /\ MaxId \in Nat
  /\ HasBuildin \in BOOLEAN

VARIABLES
  mode,         \* what the VM is doing, see Modes
  co_running,   \* vm->co_running
  co_ready,     \* vm->co_ready
  co_suspend,   \* vm->co_suspend
  co_died,      \* vm->co_died
  co_id,        \* vm->co_id, identifiers given so far
  co_count,     \* vm->co_count
  regs,         \* the coroutine whose stack vm->regs points into
  status,       \* co->status, "FREE" for a block that is not allocated
  parent,       \* co->parent
  ref_cnt,      \* co->ref_cnt
  id            \* co->id, 0 for a block that is not allocated

lists == <<co_ready, co_suspend, co_died>>
blocks == <<parent, ref_cnt, id, co_id, co_count>>
vars == <<mode, co_running, lists, blocks, regs, status>>

(***************************************************************************)
(* "idle"      before lgx_vm_call                                          *)
(* "execute"   in the instruction loop of lgx_vm_execute                   *)
(* "buildin"   in a native function called by OP_CALL or OP_CO_CALL        *)
(* "start"     in the loop of lgx_vm_start, lgx_vm_execute has returned    *)
(* "finished"  lgx_vm_start returned 0                                     *)
(* "deadlock"  lgx_vm_start returned 1 ("error: dead lock")                *)
(***************************************************************************)
Modes == {"idle", "execute", "buildin", "start", "finished", "deadlock"}
Statuses == {"FREE", "READY", "RUNNING", "SUSPEND", "DIED"}

Init ==
  /\ mode = "idle"
  /\ co_running = NULL
  /\ co_ready = <<>>
  /\ co_suspend = {}
  /\ co_died = {}
  /\ co_id = 0
  /\ co_count = 0
  /\ regs = NULL
  /\ status = [c \in Co |-> "FREE"]
  /\ parent = [c \in Co |-> NULL]
  /\ ref_cnt = [c \in Co |-> 0]
  /\ id = [c \in Co |-> 0]

-----------------------------------------------------------------------------
(* The lists and the counters, as lgx_co_* read them.                      *)

\* Bug_* are plausible mistakes in the definition that follows them.
Bug_ready_needs_two == Len(co_ready) > 1

lgx_co_has_ready_task == co_ready # <<>>

Bug_suspended_is_no_task == co_running # NULL \/ co_ready # <<>>

lgx_co_has_task ==
  \/ co_running # NULL
  \/ co_ready # <<>>
  \/ co_suspend # {}

Bug_limit_plus_two(c) ==
  status[c] = "FREE" /\ co_count <= MAX_CO_LIMIT + 1 /\ co_id < MaxId

\* lgx_co_create gives up before it has changed anything: at the limit, or
\* when the allocator has no block left.
CanCreate(c) ==
  /\ status[c] = "FREE"
  /\ co_count <= MAX_CO_LIMIT
  /\ co_id < MaxId

Bug_no_ref_taken(c) ==
  /\ CanCreate(c)
  /\ parent' = [parent EXCEPT ![c] = co_running]
  /\ id' = [id EXCEPT ![c] = co_id + 1]
  /\ co_id' = co_id + 1
  /\ co_count' = co_count + 1
  /\ UNCHANGED ref_cnt

\* What lgx_co_create writes into the new block and its creator.  The status
\* and the list it ends up in depend on the caller.
NewBlock(c) ==
  /\ CanCreate(c)
  /\ parent' = [parent EXCEPT ![c] = co_running]
  /\ ref_cnt' = [x \in Co |-> IF x = co_running THEN ref_cnt[x] + 1 ELSE ref_cnt[x]]
  /\ id' = [id EXCEPT ![c] = co_id + 1]
  /\ co_id' = co_id + 1
  /\ co_count' = co_count + 1

Bug_stale_window(c) == co_running' = c /\ UNCHANGED regs

\* lgx_co_run: co gets the processor and the register window its stack.
Dispatch(c) ==
  /\ co_running' = c
  /\ regs' = c

-----------------------------------------------------------------------------
(* Entering the VM.                                                        *)

\* lgx_vm_call: the main coroutine is created, linked at the tail of the
\* ready list and unlinked again by lgx_co_run.
lgx_vm_call(c) ==
  /\ mode = "idle"
  /\ NewBlock(c)
  /\ Dispatch(c)
  /\ status' = [status EXCEPT ![c] = "RUNNING"]
  /\ mode' = "execute"
  /\ UNCHANGED lists

-----------------------------------------------------------------------------
(* Steps of the running coroutine.                                         *)

Bug_create_at_head(c) ==
  /\ mode \in {"execute", "buildin"}
  /\ NewBlock(c)
  /\ status' = [status EXCEPT ![c] = "READY"]
  /\ co_ready' = <<c>> \o co_ready
  /\ UNCHANGED <<mode, co_running, co_suspend, co_died, regs>>

\* lgx_co_create, from OP_CO_CALL or from a native function.  A native
\* function may have given up the processor before: then there is no parent.
lgx_co_create(c) ==
  /\ mode \in {"execute", "buildin"}
  /\ NewBlock(c)
  /\ status' = [status EXCEPT ![c] = "READY"]
  /\ co_ready' = Append(co_ready, c)
  /\ UNCHANGED <<mode, co_running, co_suspend, co_died, regs>>

\* OP_CALL or OP_CO_CALL of a function with fun->buildin set.
BuildinCall ==
  /\ HasBuildin
  /\ mode = "execute"
  /\ mode' = "buildin"
  /\ UNCHANGED <<co_running, lists, blocks, regs, status>>

\* The native function returns; lgx_vm_execute returns to lgx_vm_start when
\* it left no coroutine running, and otherwise runs on, maybe in another one.
BuildinReturn ==
  /\ mode = "buildin"
  /\ mode' = IF co_running = NULL THEN "start" ELSE "execute"
  /\ UNCHANGED <<co_running, lists, blocks, regs, status>>

Bug_yield_at_head ==
  /\ mode = "buildin"
  /\ co_running # NULL
  /\ status' = [status EXCEPT ![co_running] = "READY"]
  /\ co_ready' = <<co_running>> \o co_ready
  /\ co_running' = NULL
  /\ UNCHANGED <<mode, co_suspend, co_died, blocks, regs>>

lgx_co_yield ==
  /\ mode = "buildin"
  /\ co_running # NULL
  /\ status' = [status EXCEPT ![co_running] = "READY"]
  /\ co_ready' = Append(co_ready, co_running)
  /\ co_running' = NULL
  /\ UNCHANGED <<mode, co_suspend, co_died, blocks, regs>>

lgx_co_suspend ==
  /\ mode = "buildin"
  /\ co_running # NULL
  /\ status' = [status EXCEPT ![co_running] = "SUSPEND"]
  /\ co_suspend' = co_suspend \cup {co_running}
  /\ co_running' = NULL
  /\ UNCHANGED <<mode, co_ready, co_died, blocks, regs>>

Bug_resume_at_head(c) ==
  /\ co_running # NULL
  /\ status' = [status EXCEPT ![c] = "READY"]
  /\ co_ready' = <<c>> \o co_ready
  /\ UNCHANGED <<co_running, regs>>

\* lgx_co_resume while a coroutine runs: c waits its turn.
ResumeLater(c) ==
  /\ co_running # NULL
  /\ status' = [status EXCEPT ![c] = "READY"]
  /\ co_ready' = Append(co_ready, c)
  /\ UNCHANGED <<co_running, regs>>

\* lgx_co_resume while none runs: c is linked at the tail of the ready list,
\* and lgx_co_run unlinks it at once and runs it before all the others.
ResumeNow(c) ==
  /\ co_running = NULL
  /\ Dispatch(c)
  /\ status' = [status EXCEPT ![c] = "RUNNING"]
  /\ UNCHANGED co_ready

Bug_resume_keeps_link(c) ==
  /\ mode = "buildin"
  /\ status[c] = "SUSPEND"
  /\ ResumeLater(c) \/ ResumeNow(c)
  /\ UNCHANGED <<mode, co_suspend, co_died, blocks>>

lgx_co_resume(c) ==
  /\ mode = "buildin"
  /\ status[c] = "SUSPEND"
  /\ co_suspend' = co_suspend \ {c}
  /\ ResumeLater(c) \/ ResumeNow(c)
  /\ UNCHANGED <<mode, co_died, blocks>>

Bug_any_child_is_last(p) == status[p] = "DIED"

\* The blocks lgx_co_died deletes when co ends: its parent, if the parent has
\* ended before and co was the last child that kept it; co, if no child does.
LastChildOf(p) == ref_cnt[p] = 1 /\ status[p] = "DIED"

Bug_forgets_parent(co) == {c \in {co} : ref_cnt[c] = 0}
Bug_ignores_children(co) == {p \in Co : p = parent[co] /\ LastChildOf(p)} \cup {co}

Deleted(co) ==
  {p \in Co : p = parent[co] /\ LastChildOf(p)}
    \cup {c \in {co} : ref_cnt[c] = 0}

\* OP_RET with a negative return address: lgx_co_died.
lgx_co_died ==
  /\ mode = "execute"
  /\ LET gone == Deleted(co_running)
     IN  /\ status' = [c \in Co |-> IF c \in gone THEN "FREE"
                                    ELSE IF c = co_running THEN "DIED"
                                    ELSE status[c]]
         /\ ref_cnt' = [c \in Co |-> IF c \in gone THEN 0
                                     ELSE IF c = parent[co_running] THEN ref_cnt[c] - 1
                                     ELSE ref_cnt[c]]
         /\ parent' = [c \in Co |-> IF c \in gone THEN NULL ELSE parent[c]]
         /\ id' = [c \in Co |-> IF c \in gone THEN 0 ELSE id[c]]
         /\ co_died' = (co_died \cup {co_running}) \ gone
         /\ co_count' = co_count - Cardinality(gone)
  /\ co_running' = NULL
  /\ mode' = "start"
  /\ UNCHANGED <<co_ready, co_suspend, co_id, regs>>

-----------------------------------------------------------------------------
(* The loop of lgx_vm_start, after lgx_vm_execute has returned.            *)

\* lgx_co_schedule runs the head of the ready list.
lgx_co_schedule ==
  /\ mode = "start"
  /\ lgx_co_has_ready_task
  /\ Dispatch(Head(co_ready))
  /\ status' = [status EXCEPT ![Head(co_ready)] = "RUNNING"]
  /\ co_ready' = Tail(co_ready)
  /\ mode' = "execute"
  /\ UNCHANGED <<co_suspend, co_died, blocks>>

\* No task is left, or those left can never run again.
StartReturns ==
  /\ mode = "start"
  /\ ~ lgx_co_has_ready_task
  /\ mode' = IF lgx_co_has_task THEN "deadlock" ELSE "finished"
  /\ UNCHANGED <<co_running, lists, blocks, regs, status>>

lgx_vm_start == lgx_co_schedule \/ StartReturns

\* lgx_vm_call has returned to its caller, which does not call again.
Returned ==
  /\ mode \in {"finished", "deadlock"}
  /\ UNCHANGED vars

-----------------------------------------------------------------------------
Next ==
  \/ \E c \in Co : lgx_vm_call(c)
  \/ \E c \in Co : lgx_co_create(c)
  \/ BuildinCall
  \/ BuildinReturn
  \/ lgx_co_yield
  \/ lgx_co_suspend
  \/ \E c \in Co : lgx_co_resume(c)
  \/ lgx_co_died
  \/ lgx_vm_start
  \/ Returned

Spec == Init /\ [][Next]_vars

(***************************************************************************)
(* Fairness.  The loop of lgx_vm_start does not stop by itself.  The other *)
(* two conjuncts are about the program: a coroutine that runs does not run *)
(* for ever without giving the processor up, and native functions do not   *)
(* for ever hand it to one another past the ready list.                    *)
(***************************************************************************)
GivesUp == lgx_co_yield \/ lgx_co_suspend \/ lgx_co_died
BackToLoop == BuildinReturn /\ co_running = NULL

Fairness ==
  /\ WF_vars(lgx_vm_start)
  /\ WF_vars(GivesUp)
  /\ SF_vars(BackToLoop)

FairSpec == Spec /\ Fairness

-----------------------------------------------------------------------------
(* Properties.                                                             *)

\* Every variable has its type; ref_cnt and co_count are unsigned in the code
\* and must never be decremented below 0.
TypeOK ==
  /\ mode \in Modes
  /\ co_running \in Co \cup {NULL}
  /\ co_ready \in Seq(Co)
  /\ co_suspend \subseteq Co
  /\ co_died \subseteq Co
  /\ co_id \in Nat
  /\ co_count \in Nat
  /\ regs \in Co \cup {NULL}
  /\ status \in [Co -> Statuses]
  /\ parent \in [Co -> Co \cup {NULL}]
  /\ ref_cnt \in [Co -> Nat]
  /\ id \in [Co -> Nat]

\* co->status and the list a coroutine is linked into always agree, no block
\* is linked twice, and only vm->co_running has the status RUNNING: a node that
\* is linked in two lists corrupts both.
ListsMatchStatus ==
  /\ \A c \in Co : (status[c] = "RUNNING") <=> (c = co_running)
  /\ \A c \in Co : (status[c] = "READY") <=> (\E i \in 1..Len(co_ready) : co_ready[i] = c)
  /\ \A i, j \in 1..Len(co_ready) : co_ready[i] = co_ready[j] => i = j
  /\ co_suspend = {c \in Co : status[c] = "SUSPEND"}
  /\ co_died = {c \in Co : status[c] = "DIED"}

Live(c) == status[c] \in {"READY", "RUNNING", "SUSPEND"}
LiveChildren(p) == {c \in Co : parent[c] = p /\ Live(c)}

\* co->ref_cnt is the number of coroutines created by co that have not ended,
\* also when the address of an ended child is used again.
RefCountsLiveChildren ==
  \A p \in Co : ref_cnt[p] = Cardinality(LiveChildren(p))

\* The block co->parent points to is still the coroutine that created co, as
\* long as lgx_co_died can read the pointer (co has not ended).  The creator
\* has a smaller id, so a block that was freed and reused is noticed.
ParentIsCreator ==
  \A c \in Co : Live(c) /\ parent[c] # NULL =>
    /\ status[parent[c]] # "FREE"
    /\ id[parent[c]] < id[c]

\* A coroutine that has ended keeps its block only for children that have not.
DiedIsNeeded ==
  \A c \in Co : status[c] = "DIED" => ref_cnt[c] > 0

\* vm->co_count is the number of allocated blocks.  The limit is tested with
\* `>' before the new block is counted, so one block more than
\* LGX_MAX_CO_LIMIT can exist, and never two.
CountIsExact ==
  /\ co_count = Cardinality({c \in Co : status[c] # "FREE"})
  /\ co_count <= MAX_CO_LIMIT + 1

\* The instruction loop always has a running coroutine, and vm->regs, cached
\* at every switch, is the stack of that coroutine.
WindowIsRunning ==
  /\ mode = "execute" => co_running # NULL
  /\ mode = "start" => co_running = NULL
  /\ co_running # NULL => regs = co_running

\* lgx_vm_start returns 0 only when every coroutine has ended and every block
\* is freed, and 1 only when every coroutine left is suspended and none runs.
VerdictIsTrue ==
  /\ mode = "finished" => \A c \in Co : status[c] = "FREE"
  /\ mode = "deadlock" =>
       /\ \E c \in Co : status[c] = "SUSPEND"
       /\ \A c \in Co : Live(c) => status[c] = "SUSPEND"

\* Without native functions nothing ever yields: coroutines run one after the
\* other to their end, in the order of their creation, and none can be stuck.
RunsInCreationOrder ==
  ~ HasBuildin =>
    /\ mode # "deadlock"
    /\ \A i \in 1..Len(co_ready) :
         /\ id[co_ready[i]] = co_id - Len(co_ready) + i
         /\ co_running # NULL => id[co_running] = co_id - Len(co_ready)

\* A coroutine in the ready list gets the processor, whatever the others do.
ReadyRuns ==
  \A c \in Co : status[c] = "READY" ~> status[c] = "RUNNING"

\* A program without native functions comes to its end: lgx_vm_start returns 0.
Completes == (~ HasBuildin /\ mode = "execute") ~> mode = "finished"

(***************************************************************************)
(* The refinement mapping to TaskSchedule: a task is a coroutine's id, and *)
(* a coroutine that has ended is no task, whether its block is freed yet.  *)
(***************************************************************************)
IdOf(c) == IF c = NULL THEN 0 ELSE id[c]

Tasks == INSTANCE TaskSchedule WITH
  spawned <- co_id,
  current <- IdOf(co_running),
  queue   <- [i \in 1..Len(co_ready) |-> id[co_ready[i]]],
  blocked <- {id[c] : c \in co_suspend},
  outcome <- CASE mode = "finished" -> "ok"
               [] mode = "deadlock" -> "stuck"
               [] OTHER -> "none"

\* The scheduler implements TaskSchedule: deferred deletion and the reuse of
\* addresses never show in which task runs, waits or is blocked.
ImplementsTasks == Tasks!TSpec
=============================================================================
