-------------------------- MODULE CoroutineProofs ---------------------------
(***************************************************************************)
(* The safety properties of Coroutine hold for every set of addresses,     *)
(* every limit and every number of coroutines.                             *)
(*                                                                         *)
(* None of them is inductive alone: that ref_cnt can be decremented needs  *)
(* that it counts the live children, that it still does after a block is   *)
(* freed needs that a parent is not freed before its children have ended,  *)
(* and that needs the counts again.  IInv is their conjunction, with the   *)
(* numbering of the blocks and the places where the VM may stop.           *)
(*                                                                         *)
(* The last part shows that the scheduler implements TaskSchedule.         *)
(***************************************************************************)
EXTENDS Coroutine, FiniteSetTheorems, SequenceTheorems, TLAPS

\* Identifiers are given once, in increasing order, to allocated blocks.
IdsGiven ==
  /\ \A c \in Co : id[c] <= co_id
  /\ \A c \in Co : status[c] # "FREE" => id[c] > 0
  /\ \A x, y \in Co :
       status[x] # "FREE" /\ status[y] # "FREE" /\ id[x] = id[y] => x = y

\* Where the VM stands, nothing runs; where it has stopped, nothing is ready.
StopsEmpty ==
  /\ mode = "idle" <=> co_id = 0
  /\ mode \in {"idle", "finished", "deadlock"} => co_running = NULL
  /\ mode = "finished" => ~ lgx_co_has_task
  /\ mode = "deadlock" => ~ lgx_co_has_ready_task /\ co_suspend # {}

IInv ==
  /\ TypeOK
  /\ ListsMatchStatus
  /\ RefCountsLiveChildren
  /\ ParentIsCreator
  /\ DiedIsNeeded
  /\ CountIsExact
  /\ WindowIsRunning
  /\ IdsGiven
  /\ StopsEmpty

Allocated == {c \in Co : status[c] # "FREE"}

-----------------------------------------------------------------------------
(* Finite sets of blocks.                                                  *)

\* The sets of blocks that are counted are finite, before and after a step.
LEMMA CountedSetsFinite ==
  /\ IsFiniteSet(Allocated) /\ Cardinality(Allocated) \in Nat
  /\ IsFiniteSet(Allocated') /\ Cardinality(Allocated') \in Nat
  /\ \A p : IsFiniteSet(LiveChildren(p)) /\ Cardinality(LiveChildren(p)) \in Nat
  /\ \A p : IsFiniteSet(LiveChildren(p)') /\ Cardinality(LiveChildren(p)') \in Nat
<1>1. \A S : S \subseteq Co => IsFiniteSet(S) /\ Cardinality(S) \in Nat
  BY CoAssumption, FS_Subset, FS_CardinalityType
<1>2. QED
  BY <1>1 DEF Allocated, LiveChildren

\* A step that changes no block and moves coroutines only between lists of
\* live coroutines keeps what is said about the blocks.
LEMMA BlocksUntouched ==
  ASSUME IInv, UNCHANGED blocks,
         \A c \in Co : /\ Live(c)' <=> Live(c)
                       /\ (status'[c] = "FREE") <=> (status[c] = "FREE")
                       /\ (status'[c] = "DIED") <=> (status[c] = "DIED")
  PROVE  /\ RefCountsLiveChildren'
         /\ ParentIsCreator'
         /\ DiedIsNeeded'
         /\ CountIsExact'
         /\ IdsGiven'
<1>1. \A p \in Co : LiveChildren(p)' = LiveChildren(p)
  BY DEF LiveChildren, blocks
<1>2. {c \in Co : status[c] # "FREE"}' = {c \in Co : status[c] # "FREE"}
  OBVIOUS
<1>3. RefCountsLiveChildren'
  BY <1>1 DEF RefCountsLiveChildren, IInv, blocks
<1>4. ParentIsCreator'
  BY CoAssumption DEF ParentIsCreator, IInv, blocks, TypeOK
<1>5. DiedIsNeeded'
  BY DEF DiedIsNeeded, IInv, blocks
<1>6. CountIsExact'
  BY <1>2 DEF CountIsExact, IInv, blocks
<1>7. IdsGiven'
  BY DEF IdsGiven, IInv, blocks
<1>8. QED
  BY <1>3, <1>4, <1>5, <1>6, <1>7

-----------------------------------------------------------------------------
(* The ready list.                                                         *)

In(s, x) == \E i \in 1..Len(s) : s[i] = x
NoRepeat(s) == \A i, j \in 1..Len(s) : s[i] = s[j] => i = j

\* Linking a coroutine that is not in the list adds it, once.
LEMMA AppendLinks ==
  ASSUME NEW s \in Seq(Co), NEW c \in Co, NoRepeat(s), ~ In(s, c)
  PROVE  /\ Append(s, c) \in Seq(Co)
         /\ \A x \in Co : In(Append(s, c), x) <=> x = c \/ In(s, x)
         /\ NoRepeat(Append(s, c))
<1> DEFINE t == Append(s, c)
<1>1. /\ t \in Seq(Co) /\ Len(t) = Len(s) + 1 /\ Len(s) \in Nat
      /\ t[Len(s) + 1] = c
      /\ \A i \in 1..Len(s) : t[i] = s[i]
  OBVIOUS
<1>2. \A i \in 1..Len(t) : i \in 1..Len(s) \/ i = Len(s) + 1
  BY <1>1
<1>3. \A i \in 1..Len(s) : i \in 1..Len(t)
  BY <1>1
<1>4. Len(s) + 1 \in 1..Len(t)
  BY <1>1
<1> HIDE DEF t
<1>5. \A x \in Co : In(t, x) <=> x = c \/ In(s, x)
  BY <1>1, <1>2, <1>3, <1>4 DEF In
<1>6. NoRepeat(t)
  BY <1>1, <1>2 DEF NoRepeat, In
<1>7. QED
  BY <1>1, <1>5, <1>6 DEF t

\* Unlinking the head removes it and nothing else.
LEMMA TailUnlinks ==
  ASSUME NEW s \in Seq(Co), s # <<>>, NoRepeat(s)
  PROVE  /\ Head(s) \in Co /\ In(s, Head(s)) /\ Tail(s) \in Seq(Co)
         /\ \A x \in Co : In(Tail(s), x) <=> In(s, x) /\ x # Head(s)
         /\ NoRepeat(Tail(s))
<1> DEFINE t == Tail(s)
<1>1. /\ t \in Seq(Co) /\ Len(s) \in Nat /\ Len(s) > 0
      /\ Len(t) = Len(s) - 1 /\ Head(s) = s[1] /\ s[1] \in Co
      /\ \A i \in 1..Len(t) : t[i] = s[i + 1]
  OBVIOUS
<1> HIDE DEF t
<1>2. \A i \in 1..Len(t) : i + 1 \in 1..Len(s)
  BY <1>1
<1>3. \A i \in 1..Len(s) : i = 1 \/ (i - 1 \in 1..Len(t) /\ t[i - 1] = s[i])
  BY <1>1
<1>4. 1 \in 1..Len(s)
  BY <1>1
<1>5. ASSUME NEW x \in Co
      PROVE  In(t, x) <=> In(s, x) /\ x # Head(s)
  <2>1. In(t, x) => In(s, x) /\ x # Head(s)
    BY <1>1, <1>2, <1>4 DEF In, NoRepeat
  <2>2. In(s, x) /\ x # Head(s) => In(t, x)
    BY <1>1, <1>3 DEF In
  <2>3. QED
    BY <2>1, <2>2
<1>6. NoRepeat(t)
  BY <1>1, <1>2 DEF NoRepeat
<1>7. QED
  BY <1>1, <1>4, <1>5, <1>6 DEF In, t

-----------------------------------------------------------------------------
\* lgx_co_create and lgx_vm_call: one more block, one more live child of the
\* running coroutine.  Every status other than FREE, DIED will do for it.
LEMMA NewBlockKeeps ==
  ASSUME IInv, NEW c \in Co, NewBlock(c), NEW st \in {"READY", "RUNNING"},
         status' = [status EXCEPT ![c] = st]
  PROVE  /\ RefCountsLiveChildren'
         /\ ParentIsCreator'
         /\ DiedIsNeeded'
         /\ CountIsExact'
         /\ IdsGiven'
<1> USE CoAssumption DEF NewBlock, CanCreate, TypeOK, Statuses
<1>0. TypeOK /\ status[c] = "FREE" /\ c # co_running /\ c # NULL
  BY DEF IInv, ListsMatchStatus
<1>1. RefCountsLiveChildren'
  <2> SUFFICES ASSUME NEW p \in Co
               PROVE  ref_cnt'[p] = Cardinality(LiveChildren(p)')
    BY DEF RefCountsLiveChildren
  <2>1. ref_cnt[p] = Cardinality(LiveChildren(p)) /\ ref_cnt[p] \in Nat
    BY <1>0 DEF IInv, RefCountsLiveChildren
  <2>2. CASE p = co_running
    <3>1. LiveChildren(p)' = LiveChildren(p) \cup {c} /\ c \notin LiveChildren(p)
      BY <1>0, <2>2 DEF LiveChildren, Live
    <3>2. Cardinality(LiveChildren(p)') = Cardinality(LiveChildren(p)) + 1
      BY <3>1, CountedSetsFinite, FS_AddElement
    <3>3. QED
      BY <1>0, <2>1, <2>2, <3>2
  <2>3. CASE p # co_running
    <3>1. LiveChildren(p)' = LiveChildren(p)
      BY <1>0, <2>3 DEF LiveChildren, Live
    <3>2. QED
      BY <1>0, <2>1, <2>3, <3>1
  <2>4. QED
    BY <2>2, <2>3
<1>2. ParentIsCreator'
  <2> SUFFICES ASSUME NEW x \in Co, Live(x)', parent'[x] # NULL
               PROVE  status'[parent'[x]] # "FREE" /\ id'[parent'[x]] < id'[x]
    BY DEF ParentIsCreator
  <2>1. CASE x = c
    <3>1. parent'[x] = co_running /\ co_running \in Co /\ status[co_running] = "RUNNING"
      BY <1>0, <2>1 DEF IInv, ListsMatchStatus
    <3>2. QED
      BY <1>0, <2>1, <3>1 DEF IInv, IdsGiven
  <2>2. CASE x # c
    <3>1. Live(x) /\ parent[x] = parent'[x] /\ parent[x] \in Co
      BY <1>0, <2>2 DEF Live
    <3>2. status[parent[x]] # "FREE" /\ id[parent[x]] < id[x]
      BY <3>1 DEF IInv, ParentIsCreator
    <3>3. QED
      BY <1>0, <2>2, <3>1, <3>2
  <2>3. QED
    BY <2>1, <2>2
<1>3. DiedIsNeeded'
  BY <1>0 DEF IInv, DiedIsNeeded, RefCountsLiveChildren
<1>4. CountIsExact'
  <2>1. Allocated' = Allocated \cup {c} /\ c \notin Allocated
    BY <1>0 DEF Allocated
  <2>2. Cardinality(Allocated') = Cardinality(Allocated) + 1
    BY <2>1, CountedSetsFinite, FS_AddElement
  <2>3. QED
    BY <1>0, <2>2 DEF IInv, CountIsExact, Allocated
<1>5. IdsGiven'
  BY <1>0 DEF IInv, IdsGiven
<1>6. QED
  BY <1>1, <1>2, <1>3, <1>4, <1>5

\* lgx_vm_call keeps the invariant.
LEMMA CallKeeps ==
  ASSUME IInv, NEW c \in Co, lgx_vm_call(c)
  PROVE  IInv'
<1> USE CoAssumption DEF lgx_vm_call
<1>0. co_running = NULL /\ TypeOK /\ ListsMatchStatus
  BY DEF IInv, StopsEmpty
<1>1. RefCountsLiveChildren' /\ ParentIsCreator' /\ DiedIsNeeded' /\ CountIsExact' /\ IdsGiven'
  BY NewBlockKeeps
<1>2. TypeOK'
  BY <1>0 DEF TypeOK, Modes, Statuses, NewBlock, Dispatch, lists
<1>3. ListsMatchStatus'
  BY <1>0 DEF TypeOK, ListsMatchStatus, NewBlock, CanCreate, Dispatch, lists
<1>4. WindowIsRunning' /\ StopsEmpty'
  BY <1>0 DEF WindowIsRunning, StopsEmpty, Dispatch, NewBlock, TypeOK
<1>5. QED
  BY <1>1, <1>2, <1>3, <1>4 DEF IInv

\* lgx_co_create keeps the invariant.
LEMMA CreateKeeps ==
  ASSUME IInv, NEW c \in Co, lgx_co_create(c)
  PROVE  IInv'
<1> USE CoAssumption DEF lgx_co_create
<1>0. TypeOK /\ ListsMatchStatus /\ status[c] = "FREE"
  BY DEF IInv, NewBlock, CanCreate
<1>1. RefCountsLiveChildren' /\ ParentIsCreator' /\ DiedIsNeeded' /\ CountIsExact' /\ IdsGiven'
  BY NewBlockKeeps
<1>2. TypeOK'
  BY <1>0, SMTT(30) DEF TypeOK, Statuses, NewBlock
<1>3. ListsMatchStatus'
  <2>1. NoRepeat(co_ready) /\ ~ In(co_ready, c)
    BY <1>0 DEF ListsMatchStatus, NoRepeat, In
  <2>2. \A x \in Co : In(co_ready', x) <=> x = c \/ In(co_ready, x)
    BY <1>0, <2>1, AppendLinks DEF TypeOK
  <2>3. NoRepeat(co_ready')
    BY <1>0, <2>1, AppendLinks DEF TypeOK
  <2>4. \A x \in Co : status[x] = "READY" <=> In(co_ready, x)
    BY <1>0 DEF ListsMatchStatus, In
  <2>5. \A x \in Co : status'[x] = (IF x = c THEN "READY" ELSE status[x])
    BY <1>0 DEF TypeOK
  <2>6. \A x \in Co : (status'[x] = "READY") <=> In(co_ready', x)
    BY <2>2, <2>4, <2>5
  <2>7. /\ \A x \in Co : (status'[x] = "RUNNING") <=> (x = co_running')
        /\ co_suspend' = {x \in Co : status'[x] = "SUSPEND"}
        /\ co_died' = {x \in Co : status'[x] = "DIED"}
    BY <1>0, <2>5 DEF ListsMatchStatus
  <2>8. QED
    BY <2>3, <2>6, <2>7 DEF ListsMatchStatus, NoRepeat, In
<1>4. WindowIsRunning' /\ StopsEmpty'
  BY <1>0 DEF IInv, WindowIsRunning, StopsEmpty, NewBlock, TypeOK
<1>5. QED
  BY <1>1, <1>2, <1>3, <1>4 DEF IInv

-----------------------------------------------------------------------------
\* Calls and returns of native functions keep the invariant.
LEMMA BuildinKeeps ==
  ASSUME IInv, BuildinCall \/ BuildinReturn
  PROVE  IInv'
<1> USE DEF BuildinCall, BuildinReturn, lists, blocks
<1>1. RefCountsLiveChildren' /\ ParentIsCreator' /\ DiedIsNeeded' /\ CountIsExact' /\ IdsGiven'
  BY BlocksUntouched DEF Live
<1>2. TypeOK'
  BY DEF IInv, TypeOK, Modes
<1>3. ListsMatchStatus'
  BY DEF IInv, ListsMatchStatus
<1>4. WindowIsRunning' /\ StopsEmpty'
  BY DEF IInv, WindowIsRunning, StopsEmpty
<1>5. QED
  BY <1>1, <1>2, <1>3, <1>4 DEF IInv

\* lgx_co_yield keeps the invariant.
LEMMA YieldKeeps ==
  ASSUME IInv, lgx_co_yield
  PROVE  IInv'
<1> USE CoAssumption DEF lgx_co_yield
<1>0. /\ TypeOK /\ ListsMatchStatus /\ co_running \in Co
      /\ status[co_running] = "RUNNING"
      /\ \A x \in Co : status'[x] = (IF x = co_running THEN "READY" ELSE status[x])
  BY DEF IInv, TypeOK, ListsMatchStatus
<1>1. RefCountsLiveChildren' /\ ParentIsCreator' /\ DiedIsNeeded' /\ CountIsExact' /\ IdsGiven'
  BY <1>0, BlocksUntouched DEF Live
<1>2. TypeOK'
  BY <1>0 DEF TypeOK, Statuses, blocks
<1>3. ListsMatchStatus'
  <2>1. NoRepeat(co_ready) /\ ~ In(co_ready, co_running)
    BY <1>0 DEF ListsMatchStatus, NoRepeat, In
  <2>2. /\ NoRepeat(co_ready')
        /\ \A x \in Co : In(co_ready', x) <=> x = co_running \/ In(co_ready, x)
    BY <1>0, <2>1, AppendLinks DEF TypeOK
  <2>3. \A x \in Co : (status'[x] = "READY") <=> In(co_ready', x)
    <3>1. \A x \in Co : status[x] = "READY" <=> In(co_ready, x)
      BY <1>0 DEF ListsMatchStatus, In
    <3>2. QED
      BY <1>0, <2>2, <3>1
  <2>4. /\ \A x \in Co : (status'[x] = "RUNNING") <=> (x = co_running')
        /\ co_suspend' = {x \in Co : status'[x] = "SUSPEND"}
        /\ co_died' = {x \in Co : status'[x] = "DIED"}
    BY <1>0 DEF ListsMatchStatus
  <2>5. QED
    BY <2>2, <2>3, <2>4 DEF ListsMatchStatus, NoRepeat, In
<1>4. WindowIsRunning' /\ StopsEmpty'
  BY DEF IInv, WindowIsRunning, StopsEmpty, blocks
<1>5. QED
  BY <1>1, <1>2, <1>3, <1>4 DEF IInv

\* lgx_co_suspend keeps the invariant.
LEMMA SuspendKeeps ==
  ASSUME IInv, lgx_co_suspend
  PROVE  IInv'
<1> USE CoAssumption DEF lgx_co_suspend
<1>0. /\ TypeOK /\ ListsMatchStatus /\ co_running \in Co
      /\ status[co_running] = "RUNNING"
      /\ \A x \in Co : status'[x] = (IF x = co_running THEN "SUSPEND" ELSE status[x])
  BY DEF IInv, TypeOK, ListsMatchStatus
<1>1. RefCountsLiveChildren' /\ ParentIsCreator' /\ DiedIsNeeded' /\ CountIsExact' /\ IdsGiven'
  BY <1>0, BlocksUntouched DEF Live
<1>2. TypeOK'
  BY <1>0 DEF TypeOK, Statuses, blocks
<1>3. ListsMatchStatus'
  BY <1>0 DEF ListsMatchStatus
<1>4. WindowIsRunning' /\ StopsEmpty'
  BY DEF IInv, WindowIsRunning, StopsEmpty, blocks
<1>5. QED
  BY <1>1, <1>2, <1>3, <1>4 DEF IInv

\* lgx_co_resume keeps the invariant, whether the coroutine waits or runs.
LEMMA ResumeKeeps ==
  ASSUME IInv, NEW c \in Co, lgx_co_resume(c)
  PROVE  IInv'
<1> USE CoAssumption DEF lgx_co_resume
<1>0. TypeOK /\ ListsMatchStatus
  BY DEF IInv
<1>1. CASE ResumeLater(c)
  <2> USE <1>1 DEF ResumeLater
  <2>0. \A x \in Co : status'[x] = (IF x = c THEN "READY" ELSE status[x])
    BY <1>0 DEF TypeOK
  <2>1. RefCountsLiveChildren' /\ ParentIsCreator' /\ DiedIsNeeded' /\ CountIsExact' /\ IdsGiven'
    BY <2>0, BlocksUntouched DEF Live
  <2>2. TypeOK'
    BY <1>0 DEF TypeOK, Statuses, blocks
  <2>3. ListsMatchStatus'
    <3>1. NoRepeat(co_ready) /\ ~ In(co_ready, c)
      BY <1>0 DEF ListsMatchStatus, NoRepeat, In
    <3>2. /\ NoRepeat(co_ready')
          /\ \A x \in Co : In(co_ready', x) <=> x = c \/ In(co_ready, x)
      BY <1>0, <3>1, AppendLinks DEF TypeOK
    <3>3. \A x \in Co : (status'[x] = "READY") <=> In(co_ready', x)
      <4>1. \A x \in Co : status[x] = "READY" <=> In(co_ready, x)
        BY <1>0 DEF ListsMatchStatus, In
      <4>2. QED
        BY <2>0, <3>2, <4>1
    <3>4. /\ \A x \in Co : (status'[x] = "RUNNING") <=> (x = co_running')
          /\ co_suspend' = {x \in Co : status'[x] = "SUSPEND"}
          /\ co_died' = {x \in Co : status'[x] = "DIED"}
      BY <1>0, <2>0 DEF ListsMatchStatus
    <3>5. QED
      BY <3>2, <3>3, <3>4 DEF ListsMatchStatus, NoRepeat, In
  <2>4. WindowIsRunning' /\ StopsEmpty'
    BY DEF IInv, WindowIsRunning, StopsEmpty, blocks
  <2>5. QED
    BY <2>1, <2>2, <2>3, <2>4 DEF IInv
<1>2. CASE ResumeNow(c)
  <2> USE <1>2 DEF ResumeNow, Dispatch
  <2>0. \A x \in Co : status'[x] = (IF x = c THEN "RUNNING" ELSE status[x])
    BY <1>0 DEF TypeOK
  <2>1. RefCountsLiveChildren' /\ ParentIsCreator' /\ DiedIsNeeded' /\ CountIsExact' /\ IdsGiven'
    BY <2>0, BlocksUntouched DEF Live
  <2>2. TypeOK'
    BY <1>0 DEF TypeOK, Statuses, blocks
  <2>3. ListsMatchStatus'
    BY <1>0, <2>0 DEF ListsMatchStatus
  <2>4. WindowIsRunning' /\ StopsEmpty'
    BY DEF IInv, WindowIsRunning, StopsEmpty, blocks
  <2>5. QED
    BY <2>1, <2>2, <2>3, <2>4 DEF IInv
<1>3. QED
  BY <1>1, <1>2

\* The loop of lgx_vm_start keeps the invariant.
LEMMA StartKeeps ==
  ASSUME IInv, lgx_vm_start
  PROVE  IInv'
<1> USE CoAssumption DEF lgx_vm_start
<1>0. TypeOK /\ ListsMatchStatus /\ WindowIsRunning
  BY DEF IInv
<1>1. CASE lgx_co_schedule
  <2> USE <1>1 DEF lgx_co_schedule, lgx_co_has_ready_task, Dispatch
  <2> DEFINE h == Head(co_ready)
  <2>0. NoRepeat(co_ready) /\ co_ready \in Seq(Co) /\ co_running = NULL
    BY <1>0 DEF TypeOK, ListsMatchStatus, NoRepeat, WindowIsRunning
  <2>1. /\ h \in Co /\ In(co_ready, h) /\ co_ready' \in Seq(Co)
        /\ NoRepeat(co_ready')
        /\ \A x \in Co : In(co_ready', x) <=> In(co_ready, x) /\ x # h
    BY <2>0, TailUnlinks
  <2> HIDE DEF h
  <2>2. status[h] = "READY"
    BY <1>0, <2>1 DEF ListsMatchStatus, In
  <2>3. status' = [status EXCEPT ![h] = "RUNNING"] /\ co_running' = h /\ regs' = h
    BY DEF h
  <2>4. \A x \in Co : status'[x] = (IF x = h THEN "RUNNING" ELSE status[x])
    BY <1>0, <2>3 DEF TypeOK
  <2>5. RefCountsLiveChildren' /\ ParentIsCreator' /\ DiedIsNeeded' /\ CountIsExact' /\ IdsGiven'
    BY <2>2, <2>4, BlocksUntouched DEF Live
  <2>6. TypeOK'
    BY <1>0, <2>1, <2>3 DEF TypeOK, Statuses, Modes, blocks
  <2>7. ListsMatchStatus'
    <3>1. \A x \in Co : (status'[x] = "READY") <=> In(co_ready', x)
      <4>1. \A x \in Co : status[x] = "READY" <=> In(co_ready, x)
        BY <1>0 DEF ListsMatchStatus, In
      <4>2. QED
        BY <2>1, <2>4, <4>1
    <3>2. /\ \A x \in Co : (status'[x] = "RUNNING") <=> (x = co_running')
          /\ co_suspend' = {x \in Co : status'[x] = "SUSPEND"}
          /\ co_died' = {x \in Co : status'[x] = "DIED"}
      BY <1>0, <2>0, <2>1, <2>2, <2>3, <2>4 DEF ListsMatchStatus
    <3>3. QED
      BY <2>1, <3>1, <3>2 DEF ListsMatchStatus, NoRepeat, In
  <2>8. WindowIsRunning' /\ StopsEmpty'
    BY <2>1, <2>3 DEF IInv, WindowIsRunning, StopsEmpty, blocks
  <2>9. QED
    BY <2>5, <2>6, <2>7, <2>8 DEF IInv
<1>2. CASE StartReturns
  <2> USE <1>2 DEF StartReturns, lists, blocks
  <2>1. RefCountsLiveChildren' /\ ParentIsCreator' /\ DiedIsNeeded' /\ CountIsExact' /\ IdsGiven'
    BY BlocksUntouched DEF Live
  <2>2. TypeOK' /\ ListsMatchStatus'
    BY <1>0 DEF TypeOK, Modes, ListsMatchStatus
  <2>3. WindowIsRunning' /\ StopsEmpty'
    BY <1>0 DEF IInv, WindowIsRunning, StopsEmpty, lgx_co_has_task, lgx_co_has_ready_task
  <2>4. QED
    BY <2>1, <2>2, <2>3 DEF IInv
<1>3. QED
  BY <1>1, <1>2

-----------------------------------------------------------------------------
(* lgx_co_died.                                                            *)

\* What IInv says of the coroutine that ends and of its parent, and which
\* blocks are deleted.
LEMMA EndingFacts ==
  ASSUME IInv, lgx_co_died
  PROVE  /\ co_running \in Co /\ status[co_running] = "RUNNING"
         /\ parent[co_running] # co_running
         /\ parent[co_running] \in Co =>
              /\ status[parent[co_running]] # "FREE"
              /\ ref_cnt[parent[co_running]] > 0
              /\ co_running \in LiveChildren(parent[co_running])
         /\ \A x \in Co : x \in Deleted(co_running) <=>
              \/ x = co_running /\ ref_cnt[x] = 0
              \/ x = parent[co_running] /\ ref_cnt[x] = 1 /\ status[x] = "DIED"
         /\ Deleted(co_running) \subseteq Allocated
<1> USE CoAssumption
<1> DEFINE co == co_running
           p == parent[co]
<1>1. co \in Co /\ status[co] = "RUNNING" /\ TypeOK
  BY DEF IInv, TypeOK, ListsMatchStatus, WindowIsRunning, lgx_co_died
<1>2. p \in Co \cup {NULL} /\ id[co] \in Nat
  BY <1>1 DEF TypeOK
<1>3. p \in Co => status[p] # "FREE" /\ id[p] < id[co] /\ p # NULL
  BY <1>1 DEF IInv, ParentIsCreator, Live
<1>4. p # co
  BY <1>1, <1>2, <1>3
<1>5. p \in Co => co \in LiveChildren(p)
  BY <1>1 DEF LiveChildren, Live
<1>6. p \in Co => ref_cnt[p] > 0
  <2> SUFFICES ASSUME p \in Co PROVE ref_cnt[p] > 0
    OBVIOUS
  <2>1. ref_cnt[p] = Cardinality(LiveChildren(p))
    BY DEF IInv, RefCountsLiveChildren
  <2>2. Cardinality(LiveChildren(p)) # 0 /\ Cardinality(LiveChildren(p)) \in Nat
    BY <1>5, CountedSetsFinite, FS_EmptySet
  <2>3. QED
    BY <2>1, <2>2
<1>7. \A x \in Co : x \in Deleted(co) <=>
        \/ x = co /\ ref_cnt[x] = 0
        \/ x = p /\ ref_cnt[x] = 1 /\ status[x] = "DIED"
  BY <1>1 DEF Deleted, LastChildOf
<1>8. Deleted(co) \subseteq Allocated
  BY <1>1 DEF Deleted, LastChildOf, Allocated
<1>9. QED
  BY <1>1, <1>3, <1>4, <1>5, <1>6, <1>7, <1>8

\* The end of a coroutine takes it out of its parent's live children and
\* changes no other set of live children.
LEMMA EndingChildren ==
  ASSUME IInv, lgx_co_died
  PROVE  /\ \A x \in Co : Live(x)' <=> Live(x) /\ x # co_running
         /\ \A q \in Co : LiveChildren(q)' = LiveChildren(q) \ {co_running}
         /\ \A x \in Co : ref_cnt'[x] = IF x = parent[co_running] THEN ref_cnt[x] - 1
                                                                  ELSE ref_cnt[x]
<1> USE CoAssumption
<1>1. TypeOK
  BY DEF IInv
<1>2. \A x \in Co : status'[x] = IF x \in Deleted(co_running) THEN "FREE"
                                ELSE IF x = co_running THEN "DIED" ELSE status[x]
  BY DEF lgx_co_died
<1>3. \A x \in Co : parent'[x] = IF x \in Deleted(co_running) THEN NULL ELSE parent[x]
  BY DEF lgx_co_died
<1>4. \A x \in Co : Live(x)' <=> Live(x) /\ x # co_running
  BY <1>2, EndingFacts DEF Live
<1>5. \A q \in Co : LiveChildren(q)' = LiveChildren(q) \ {co_running}
  <2> SUFFICES ASSUME NEW q \in Co, NEW x \in Co
               PROVE  (parent'[x] = q /\ Live(x)') <=> (parent[x] = q /\ Live(x) /\ x # co_running)
    BY DEF LiveChildren
  <2>1. Live(x) /\ x # co_running => x \notin Deleted(co_running)
    BY EndingFacts DEF Live
  <2>2. QED
    BY <1>3, <1>4, <2>1
<1>6. ASSUME NEW x \in Co
      PROVE  ref_cnt'[x] = IF x = parent[co_running] THEN ref_cnt[x] - 1 ELSE ref_cnt[x]
  <2>1. ref_cnt'[x] = IF x \in Deleted(co_running) THEN 0
                      ELSE IF x = parent[co_running] THEN ref_cnt[x] - 1 ELSE ref_cnt[x]
    BY DEF lgx_co_died
  <2>2. QED
    BY <2>1, EndingFacts
<1>7. QED
  BY <1>4, <1>5, <1>6

\* lgx_co_died keeps the invariant: it deletes what nothing needs any more.
LEMMA DiedKeeps ==
  ASSUME IInv, lgx_co_died
  PROVE  IInv'
<1> USE CoAssumption
<1> DEFINE co == co_running
           p == parent[co]
           gone == Deleted(co)
<1>0. /\ TypeOK /\ ListsMatchStatus /\ RefCountsLiveChildren /\ ParentIsCreator
      /\ DiedIsNeeded /\ CountIsExact /\ IdsGiven
  BY DEF IInv
<1>a. /\ co \in Co /\ status[co] = "RUNNING" /\ p # co
      /\ p \in Co => status[p] # "FREE" /\ ref_cnt[p] > 0 /\ co \in LiveChildren(p)
      /\ \A x \in Co : x \in gone <=>
           \/ x = co /\ ref_cnt[x] = 0
           \/ x = p /\ ref_cnt[x] = 1 /\ status[x] = "DIED"
      /\ gone \subseteq Allocated
  BY EndingFacts
<1>b. /\ \A x \in Co : Live(x)' <=> Live(x) /\ x # co
      /\ \A q \in Co : LiveChildren(q)' = LiveChildren(q) \ {co}
      /\ \A x \in Co : ref_cnt'[x] = IF x = p THEN ref_cnt[x] - 1 ELSE ref_cnt[x]
  BY EndingChildren
<1>c. /\ status' = [c \in Co |-> IF c \in gone THEN "FREE"
                                 ELSE IF c = co THEN "DIED" ELSE status[c]]
      /\ parent' = [c \in Co |-> IF c \in gone THEN NULL ELSE parent[c]]
      /\ id' = [c \in Co |-> IF c \in gone THEN 0 ELSE id[c]]
      /\ co_died' = (co_died \cup {co}) \ gone
      /\ co_count' = co_count - Cardinality(gone)
      /\ co_running' = NULL /\ mode' = "start"
      /\ UNCHANGED <<co_ready, co_suspend, co_id, regs>>
      /\ DOMAIN ref_cnt' = Co /\ ref_cnt' = [c \in Co |-> ref_cnt'[c]]
  BY DEF lgx_co_died
<1> HIDE DEF co, p, gone
<1>1. RefCountsLiveChildren'
  <2> SUFFICES ASSUME NEW q \in Co
               PROVE  ref_cnt'[q] = Cardinality(LiveChildren(q)')
    BY DEF RefCountsLiveChildren
  <2>1. ref_cnt[q] = Cardinality(LiveChildren(q)) /\ IsFiniteSet(LiveChildren(q))
    BY <1>0, CountedSetsFinite DEF RefCountsLiveChildren
  <2>2. CASE q = p
    BY <1>a, <1>b, <2>1, <2>2, FS_RemoveElement
  <2>3. CASE q # p
    <3>1. co \notin LiveChildren(q)
      BY <2>3 DEF LiveChildren, p
    <3>2. LiveChildren(q)' = LiveChildren(q)
      BY <1>b, <3>1
    <3>3. QED
      BY <1>b, <2>1, <2>3, <3>2
  <2>4. QED
    BY <2>2, <2>3
<1>2. ParentIsCreator'
  <2> SUFFICES ASSUME NEW x \in Co, Live(x)', parent'[x] # NULL
               PROVE  status'[parent'[x]] # "FREE" /\ id'[parent'[x]] < id'[x]
    BY DEF ParentIsCreator
  <2>1. Live(x) /\ x # co
    BY <1>b
  <2>2. x \notin gone
    BY <1>a, <2>1 DEF Live
  <2>3. parent'[x] = parent[x] /\ parent[x] \in Co /\ id'[x] = id[x]
    BY <1>0, <1>c, <2>2 DEF TypeOK
  <2>4. status[parent[x]] # "FREE" /\ id[parent[x]] < id[x]
    BY <1>0, <2>1, <2>3 DEF ParentIsCreator
  <2>5. x \in LiveChildren(parent[x]) \ {co}
    BY <2>1 DEF LiveChildren
  <2>6. parent[x] \notin gone
    <3>1. ref_cnt[parent[x]] = Cardinality(LiveChildren(parent[x]))
      BY <1>0, <2>3 DEF RefCountsLiveChildren
    <3>2. ref_cnt[parent[x]] # 0
      BY <2>5, <3>1, CountedSetsFinite, FS_EmptySet
    <3>3. parent[x] = p => ref_cnt[parent[x]] # 1
      <4> SUFFICES ASSUME parent[x] = p PROVE ref_cnt[p] # 1
        OBVIOUS
      <4>1. Cardinality(LiveChildren(p) \ {co}) = ref_cnt[p] - 1
        BY <1>a, <2>3, <3>1, CountedSetsFinite, FS_RemoveElement
      <4>2. IsFiniteSet(LiveChildren(p) \ {co}) /\ LiveChildren(p) \ {co} # {}
        BY <2>5, CountedSetsFinite, FS_RemoveElement
      <4>3. Cardinality(LiveChildren(p) \ {co}) # 0
        BY <4>2, FS_EmptySet
      <4>4. QED
        BY <4>1, <4>3
    <3>4. QED
      BY <1>a, <2>3, <3>2, <3>3
  <2>7. status'[parent[x]] # "FREE" /\ id'[parent[x]] = id[parent[x]]
    BY <1>c, <2>3, <2>4, <2>6
  <2>8. QED
    BY <2>3, <2>4, <2>7
<1>3. DiedIsNeeded'
  <2> SUFFICES ASSUME NEW x \in Co, status'[x] = "DIED"
               PROVE  ref_cnt'[x] > 0
    BY DEF DiedIsNeeded
  <2>1. x \notin gone /\ (x = co \/ status[x] = "DIED") /\ ref_cnt[x] \in Nat
    BY <1>0, <1>c DEF TypeOK
  <2>2. CASE x = co
    BY <1>a, <1>b, <2>1, <2>2
  <2>3. CASE x # co
    BY <1>0, <1>a, <1>b, <2>1, <2>3 DEF DiedIsNeeded
  <2>4. QED
    BY <2>2, <2>3
<1>4. CountIsExact' /\ co_count' \in Nat
  <2>1. Allocated' = Allocated \ gone
    BY <1>a, <1>c DEF Allocated
  <2>2. Allocated \cap gone = gone
    BY <1>a
  <2>3. Cardinality(Allocated') = Cardinality(Allocated) - Cardinality(gone)
    BY <2>1, <2>2, CountedSetsFinite, FS_Difference, ZenonT(60)
  <2>4. Cardinality(gone) \in Nat
    BY <1>a, CountedSetsFinite, FS_Subset, FS_CardinalityType
  <2>5. co_count = Cardinality(Allocated) /\ co_count <= MAX_CO_LIMIT + 1
    BY <1>0 DEF CountIsExact, Allocated
  <2>6. co_count' = Cardinality(Allocated') /\ co_count' \in Nat /\ co_count' <= MAX_CO_LIMIT + 1
    BY <1>c, <2>3, <2>4, <2>5, CountedSetsFinite
  <2>7. QED
    BY <2>6 DEF CountIsExact, Allocated
<1>5. IdsGiven'
  <2>1. \A x \in Co : status'[x] # "FREE" => id'[x] = id[x] /\ status[x] # "FREE"
    BY <1>a, <1>c
  <2>2. \A x \in Co : id'[x] <= id[x]
    BY <1>0, <1>c DEF TypeOK
  <2>3. \A x \in Co : id[x] \in Nat /\ id'[x] \in Nat /\ id[x] <= co_id /\ co_id \in Nat /\ co_id' = co_id
    BY <1>0, <1>c DEF TypeOK, IdsGiven
  <2>4. \A x \in Co : id'[x] <= co_id'
    BY <2>2, <2>3
  <2>5. QED
    BY <1>0, <2>1, <2>4 DEF IdsGiven
<1>6. TypeOK'
  <2>1. ASSUME NEW x \in Co PROVE ref_cnt'[x] \in Nat
    <3>1. ref_cnt[x] \in Nat /\ (x = p => ref_cnt[x] > 0)
      BY <1>0, <1>a DEF TypeOK
    <3>2. ref_cnt'[x] = IF x = p THEN ref_cnt[x] - 1 ELSE ref_cnt[x]
      BY <1>b
    <3>3. QED
      BY <3>1, <3>2
  <2>2. ref_cnt' \in [Co -> Nat]
    BY <1>c, <2>1
  <2>3. /\ status' \in [Co -> Statuses]
        /\ parent' \in [Co -> Co \cup {NULL}]
        /\ id' \in [Co -> Nat]
    BY <1>0, <1>c DEF TypeOK, Statuses
  <2>4. co_died' \subseteq Co
    BY <1>0, <1>a, <1>c DEF TypeOK
  <2>5. /\ mode' \in Modes /\ co_running' \in Co \cup {NULL} /\ co_ready' \in Seq(Co)
        /\ co_suspend' \subseteq Co /\ co_id' \in Nat /\ regs' \in Co \cup {NULL}
    BY <1>0, <1>c DEF TypeOK, Modes
  <2>6. QED
    BY <1>4, <2>2, <2>3, <2>4, <2>5 DEF TypeOK
<1>7. ListsMatchStatus'
  <2>1. \A x \in Co : status'[x] = IF x \in gone THEN "FREE"
                                  ELSE IF x = co THEN "DIED" ELSE status[x]
    BY <1>c
  <2>2. \A x \in Co : x \in gone => x = co \/ status[x] = "DIED"
    BY <1>a
  <2>3. \A x \in Co : (status'[x] = "RUNNING") <=> (x = co_running')
    BY <1>0, <1>a, <1>c, <2>1, <2>2 DEF ListsMatchStatus, co
  <2>4. \A x \in Co : (status'[x] = "READY") <=> (status[x] = "READY")
    BY <1>a, <2>1, <2>2
  <2>5. \A x \in Co : (status'[x] = "SUSPEND") <=> (status[x] = "SUSPEND")
    BY <1>a, <2>1, <2>2
  <2>6. co_died' = {x \in Co : status'[x] = "DIED"}
    <3>1. co_died = {x \in Co : status[x] = "DIED"}
      BY <1>0 DEF ListsMatchStatus
    <3>2. \A x \in Co : (status'[x] = "DIED") <=> x \notin gone /\ (x = co \/ status[x] = "DIED")
      BY <2>1
    <3>3. co_died' = {x \in Co : x \notin gone /\ (x = co \/ status[x] = "DIED")}
      <4>1. co_died' = (co_died \cup {co}) \ gone /\ co \in Co
        BY <1>a, <1>c
      <4>2. QED
        BY <3>1, <4>1
    <3>4. QED
      BY <3>2, <3>3
  <2>7. \A x \in Co : (status'[x] = "READY") <=> (\E i \in 1..Len(co_ready') : co_ready'[i] = x)
    BY <1>0, <1>c, <2>4 DEF ListsMatchStatus
  <2>8. co_suspend' = {x \in Co : status'[x] = "SUSPEND"}
    BY <1>0, <1>c, <2>5 DEF ListsMatchStatus
  <2>9. \A i, j \in 1..Len(co_ready') : co_ready'[i] = co_ready'[j] => i = j
    BY <1>0, <1>c DEF ListsMatchStatus
  <2>10. QED
    BY <2>3, <2>6, <2>7, <2>8, <2>9 DEF ListsMatchStatus
<1>8. WindowIsRunning' /\ StopsEmpty'
  BY <1>c DEF IInv, lgx_co_died, WindowIsRunning, StopsEmpty
<1>9. QED
  BY <1>1, <1>2, <1>3, <1>4, <1>5, <1>6, <1>7, <1>8 DEF IInv

-----------------------------------------------------------------------------
(* The invariant and what follows from it.                                 *)

\* IInv holds before lgx_vm_call.
LEMMA InitEstablishes == Init => IInv
<1> SUFFICES ASSUME Init PROVE IInv
  OBVIOUS
<1> USE CoAssumption DEF Init
<1>1. \A p \in Co : LiveChildren(p) = {}
  BY DEF LiveChildren, Live
<1>2. RefCountsLiveChildren
  BY <1>1, FS_EmptySet DEF RefCountsLiveChildren
<1>3. {c \in Co : status[c] # "FREE"} = {}
  OBVIOUS
<1>4. CountIsExact
  BY <1>3, FS_EmptySet DEF CountIsExact
<1>5. TypeOK /\ ListsMatchStatus
  BY DEF TypeOK, Modes, Statuses, ListsMatchStatus
<1>6. ParentIsCreator /\ DiedIsNeeded /\ WindowIsRunning /\ IdsGiven /\ StopsEmpty
  BY DEF ParentIsCreator, DiedIsNeeded, WindowIsRunning, IdsGiven, StopsEmpty, Live
<1>7. QED
  BY <1>2, <1>4, <1>5, <1>6 DEF IInv

\* Every step keeps IInv.
LEMMA NextKeeps == IInv /\ [Next]_vars => IInv'
<1> SUFFICES ASSUME IInv, [Next]_vars PROVE IInv'
  OBVIOUS
<1>1. ASSUME NEW c \in Co, lgx_vm_call(c) PROVE IInv'
  BY <1>1, CallKeeps
<1>2. ASSUME NEW c \in Co, lgx_co_create(c) PROVE IInv'
  BY <1>2, CreateKeeps
<1>3. CASE BuildinCall \/ BuildinReturn
  BY <1>3, BuildinKeeps
<1>4. CASE lgx_co_yield
  BY <1>4, YieldKeeps
<1>5. CASE lgx_co_suspend
  BY <1>5, SuspendKeeps
<1>6. ASSUME NEW c \in Co, lgx_co_resume(c) PROVE IInv'
  BY <1>6, ResumeKeeps
<1>7. CASE lgx_co_died
  BY <1>7, DiedKeeps
<1>8. CASE lgx_vm_start
  BY <1>8, StartKeeps
<1>9. CASE Returned \/ UNCHANGED vars
  <2>1. UNCHANGED vars
    BY <1>9 DEF Returned
  <2> USE <2>1 DEF vars, lists, blocks
  <2>2. RefCountsLiveChildren' /\ ParentIsCreator' /\ DiedIsNeeded' /\ CountIsExact' /\ IdsGiven'
    BY BlocksUntouched DEF Live
  <2>3. TypeOK' /\ ListsMatchStatus' /\ WindowIsRunning' /\ StopsEmpty'
    BY DEF IInv, TypeOK, ListsMatchStatus, WindowIsRunning, StopsEmpty,
           lgx_co_has_task, lgx_co_has_ready_task
  <2>4. QED
    BY <2>2, <2>3 DEF IInv
<1>10. QED
  BY <1>1, <1>2, <1>3, <1>4, <1>5, <1>6, <1>7, <1>8, <1>9 DEF Next

\* IInv is an invariant of the scheduler.
THEOREM Invariance == Spec => []IInv
BY InitEstablishes, NextKeeps, PTL DEF Spec

\* Every variable keeps its type: in particular neither ref_cnt nor co_count
\* is ever decremented below 0.
THEOREM TypeCorrect == Spec => []TypeOK
<1>1. IInv => TypeOK
  BY DEF IInv
<1>2. QED
  BY <1>1, Invariance, PTL

\* A coroutine is always linked in the one list its status names.
THEOREM ListsAreConsistent == Spec => []ListsMatchStatus
<1>1. IInv => ListsMatchStatus
  BY DEF IInv
<1>2. QED
  BY <1>1, Invariance, PTL

\* Reference counting is exact: ref_cnt is the number of live children, however
\* addresses are reused.
THEOREM CountingIsExact == Spec => []RefCountsLiveChildren
<1>1. IInv => RefCountsLiveChildren
  BY DEF IInv
<1>2. QED
  BY <1>1, Invariance, PTL

\* No live coroutine's parent is ever freed or replaced by another coroutine.
THEOREM ParentsOutliveChildren == Spec => []ParentIsCreator
<1>1. IInv => ParentIsCreator
  BY DEF IInv
<1>2. QED
  BY <1>1, Invariance, PTL

\* Blocks are counted exactly and at most LGX_MAX_CO_LIMIT + 1 exist.
THEOREM BlocksAreAccountedFor == Spec => []CountIsExact
<1>1. IInv => CountIsExact
  BY DEF IInv
<1>2. QED
  BY <1>1, Invariance, PTL

\* An ended coroutine keeps its block only for children that have not ended.
THEOREM EndedBlocksAreNeeded == Spec => []DiedIsNeeded
<1>1. IInv => DiedIsNeeded
  BY DEF IInv
<1>2. QED
  BY <1>1, Invariance, PTL

\* The instruction loop never runs with the registers of another coroutine.
THEOREM RegistersAreCurrent == Spec => []WindowIsRunning
<1>1. IInv => WindowIsRunning
  BY DEF IInv
<1>2. QED
  BY <1>1, Invariance, PTL

\* What lgx_vm_start returns is true: 0 when all coroutines have ended and
\* every block is freed, 1 when those left are all suspended.
THEOREM VerdictIsCorrect == Spec => []VerdictIsTrue
<1>1. IInv => VerdictIsTrue
  <2> SUFFICES ASSUME IInv PROVE VerdictIsTrue
    OBVIOUS
  <2> USE CoAssumption
  <2>0. TypeOK /\ ListsMatchStatus /\ StopsEmpty
    BY DEF IInv
  <2>1. ASSUME mode = "finished", NEW c \in Co
        PROVE  status[c] = "FREE"
    <3>1. \A x \in Co : ~ Live(x)
      BY <2>0, <2>1 DEF Live, ListsMatchStatus, StopsEmpty, lgx_co_has_task, TypeOK
    <3>2. LiveChildren(c) = {}
      BY <3>1 DEF LiveChildren
    <3>3. ref_cnt[c] = 0
      BY <3>2, FS_EmptySet DEF IInv, RefCountsLiveChildren
    <3>4. status[c] # "DIED"
      BY <3>3 DEF IInv, DiedIsNeeded
    <3>5. QED
      BY <2>0, <3>1, <3>4 DEF TypeOK, Statuses, Live
  <2>2. ASSUME mode = "deadlock"
        PROVE  /\ \E c \in Co : status[c] = "SUSPEND"
               /\ \A c \in Co : Live(c) => status[c] = "SUSPEND"
    BY <2>0, <2>2 DEF Live, ListsMatchStatus, StopsEmpty, lgx_co_has_ready_task, TypeOK
  <2>3. QED
    BY <2>1, <2>2 DEF VerdictIsTrue
<1>2. QED
  BY <1>1, Invariance, PTL

-----------------------------------------------------------------------------
(* Programs without native functions.                                      *)

\* What the order of creation rests on: no native function runs, so none is
\* ever suspended, where nothing has been called nothing is linked, and what
\* runs was created just before the ready ones, also when there are none.
NeverWaits ==
  ~ HasBuildin =>
    /\ mode # "buildin"
    /\ co_suspend = {}
    /\ mode = "idle" => co_ready = <<>>
    /\ co_running # NULL => id[co_running] = co_id - Len(co_ready)

OrderInv == NeverWaits /\ RunsInCreationOrder

\* Nothing is ready or suspended in the initial state.
LEMMA InitOrders == Init => OrderInv
BY DEF Init, OrderInv, NeverWaits, RunsInCreationOrder

\* Every step keeps the ready list in the order of creation: a new coroutine
\* goes to its tail and only the head is taken off.
LEMMA NextKeepsOrder == IInv /\ IInv' /\ OrderInv /\ [Next]_vars => OrderInv'
<1> SUFFICES ASSUME IInv, IInv', OrderInv, [Next]_vars PROVE OrderInv'
  OBVIOUS
<1> SUFFICES ASSUME ~ HasBuildin PROVE OrderInv'
  BY DEF OrderInv, NeverWaits, RunsInCreationOrder
<1> USE CoAssumption
<1>0. /\ TypeOK /\ ListsMatchStatus /\ StopsEmpty /\ WindowIsRunning
      /\ mode # "buildin" /\ co_suspend = {} /\ mode # "deadlock"
      /\ mode = "idle" => co_ready = <<>>
      /\ \A i \in 1..Len(co_ready) : id[co_ready[i]] = co_id - Len(co_ready) + i
      /\ co_running # NULL => id[co_running] = co_id - Len(co_ready)
      /\ Len(co_ready) \in Nat /\ co_id \in Nat
  <2>1. TypeOK /\ ListsMatchStatus /\ StopsEmpty /\ WindowIsRunning
    BY DEF IInv
  <2>2. Len(co_ready) \in Nat /\ co_id \in Nat
    BY <2>1 DEF TypeOK
  <2>3. NeverWaits /\ RunsInCreationOrder
    BY DEF OrderInv
  <2>4. QED
    BY <2>1, <2>2, <2>3 DEF NeverWaits, RunsInCreationOrder
<1>1. ASSUME NEW c \in Co, lgx_vm_call(c) PROVE OrderInv'
  <2>1. co_ready = <<>> /\ co_running' = c /\ id'[c] = co_id' /\ co_ready' = <<>>
    BY <1>0, <1>1 DEF lgx_vm_call, NewBlock, Dispatch, lists, TypeOK
  <2>2. co_suspend' = {} /\ mode' = "execute"
    BY <1>0, <1>1 DEF lgx_vm_call, lists
  <2>3. co_id' \in Nat
    BY DEF IInv, TypeOK
  <2>4. co_id' - Len(co_ready') = co_id' /\ 1..Len(co_ready') = {}
    <3>1. Len(co_ready') = 0
      BY <2>1
    <3>2. PICK n \in Nat : n = co_id'
      BY <2>3
    <3>3. n - 0 = n /\ 1..0 = {}
      OBVIOUS
    <3>4. QED
      BY <3>1, <3>2, <3>3
  <2>5. NeverWaits'
    BY <2>1, <2>2, <2>4 DEF NeverWaits
  <2>6. RunsInCreationOrder'
    BY <2>1, <2>2, <2>4 DEF RunsInCreationOrder
  <2>7. QED
    BY <2>5, <2>6 DEF OrderInv
<1>2. ASSUME NEW c \in Co, lgx_co_create(c) PROVE OrderInv'
  <2>1. /\ co_ready' = Append(co_ready, c) /\ co_running' = co_running
        /\ mode' = mode /\ co_suspend' = co_suspend /\ co_id' = co_id + 1
        /\ id' = [id EXCEPT ![c] = co_id + 1] /\ status[c] = "FREE" /\ mode = "execute"
    BY <1>0, <1>2 DEF lgx_co_create, NewBlock, CanCreate
  <2>2. /\ Len(co_ready') = Len(co_ready) + 1
        /\ \A i \in 1..Len(co_ready') :
             IF i = Len(co_ready) + 1 THEN co_ready'[i] = c
             ELSE i \in 1..Len(co_ready) /\ co_ready'[i] = co_ready[i]
    BY <1>0, <2>1, SMTT(30) DEF TypeOK
  <2>3. \A i \in 1..Len(co_ready) : co_ready[i] \in Co /\ co_ready[i] # c
    <3>1. \A i \in 1..Len(co_ready) : co_ready[i] \in Co
      BY <1>0 DEF TypeOK
    <3>2. \A i \in 1..Len(co_ready) : status[co_ready[i]] = "READY"
      BY <1>0, <3>1 DEF ListsMatchStatus
    <3>3. QED
      BY <2>1, <3>1, <3>2
  <2>4. co_running # c
    BY <1>0, <2>1 DEF ListsMatchStatus
  <2>5. \A i \in 1..Len(co_ready') : id'[co_ready'[i]] = co_id' - Len(co_ready') + i
    BY <1>0, <2>1, <2>2, <2>3 DEF TypeOK
  <2>6. co_running' # NULL => id'[co_running'] = co_id' - Len(co_ready')
    BY <1>0, <2>1, <2>2, <2>4 DEF TypeOK
  <2>7. QED
    BY <1>0, <2>1, <2>5, <2>6 DEF OrderInv, NeverWaits, RunsInCreationOrder
<1>3. CASE lgx_co_died
  <2>1. /\ UNCHANGED <<co_ready, co_suspend, co_id>> /\ mode' = "start" /\ co_running' = NULL
        /\ id' = [c \in Co |-> IF c \in Deleted(co_running) THEN 0 ELSE id[c]]
        /\ co_running \in Co
    BY <1>0, <1>3 DEF lgx_co_died, TypeOK, WindowIsRunning
  <2>2. \A c \in Deleted(co_running) : status[c] \in {"RUNNING", "DIED"}
    BY <1>0, <2>1 DEF Deleted, LastChildOf, ListsMatchStatus
  <2>3. \A i \in 1..Len(co_ready) : co_ready[i] \in Co /\ status[co_ready[i]] = "READY"
    BY <1>0 DEF TypeOK, ListsMatchStatus
  <2>4. QED
    BY <1>0, <2>1, <2>2, <2>3 DEF OrderInv, NeverWaits, RunsInCreationOrder
<1>4. CASE lgx_co_schedule
  <2>1. /\ co_running' = Head(co_ready) /\ co_ready' = Tail(co_ready) /\ co_ready # <<>>
        /\ UNCHANGED <<co_suspend, co_id, id>> /\ mode' = "execute"
    BY <1>4 DEF lgx_co_schedule, Dispatch, lgx_co_has_ready_task, blocks
  <2>2. /\ Len(co_ready') = Len(co_ready) - 1 /\ 1 \in 1..Len(co_ready)
        /\ Head(co_ready) = co_ready[1]
        /\ \A i \in 1..Len(co_ready') : i + 1 \in 1..Len(co_ready) /\ co_ready'[i] = co_ready[i + 1]
    BY <1>0, <2>1 DEF TypeOK
  <2>3. id'[co_running'] = co_id' - Len(co_ready')
    BY <1>0, <2>1, <2>2
  <2>4. \A i \in 1..Len(co_ready') : id'[co_ready'[i]] = co_id' - Len(co_ready') + i
    BY <1>0, <2>1, <2>2
  <2>5. QED
    BY <1>0, <2>1, <2>3, <2>4 DEF OrderInv, NeverWaits, RunsInCreationOrder
<1>5. CASE StartReturns
  <2>1. mode' = "finished" /\ UNCHANGED <<co_running, co_ready, co_suspend, co_id, id>>
    BY <1>0, <1>5 DEF StartReturns, WindowIsRunning, lgx_co_has_task,
       lgx_co_has_ready_task, lists, blocks
  <2>2. QED
    BY <1>0, <2>1 DEF OrderInv, NeverWaits, RunsInCreationOrder
<1>6. ASSUME NEW c \in Co PROVE ~ lgx_co_resume(c)
  BY <1>0 DEF lgx_co_resume
<1>7. ~ BuildinCall /\ ~ BuildinReturn /\ ~ lgx_co_yield /\ ~ lgx_co_suspend
  BY <1>0 DEF BuildinCall, BuildinReturn, lgx_co_yield, lgx_co_suspend
<1>8. CASE Returned \/ UNCHANGED vars
  BY <1>0, <1>8 DEF Returned, vars, lists, blocks, OrderInv, NeverWaits, RunsInCreationOrder
<1>9. QED
  BY <1>1, <1>2, <1>3, <1>4, <1>5, <1>6, <1>7, <1>8 DEF Next, lgx_vm_start

\* A program without native functions runs its coroutines one after the other,
\* in the order of their creation, and never stops with one left.
THEOREM CreationOrderIsKept == Spec => []RunsInCreationOrder
<1>1. OrderInv => RunsInCreationOrder
  BY DEF OrderInv
<1>2. QED
  BY <1>1, InitOrders, NextKeepsOrder, Invariance, PTL DEF Spec

-----------------------------------------------------------------------------
(* Coroutine implements TaskSchedule: the initial state maps to an initial *)
(* state and every step to a step or a stutter, under IInv.                *)

\* The mapped values, named as TaskSchedule names them.
Numbers(s, f) == [i \in 1..Len(s) |-> f[s[i]]]
current == IdOf(co_running)
queue == [i \in 1..Len(co_ready) |-> id[co_ready[i]]]
blocked == {id[c] : c \in co_suspend}
outcome == CASE mode = "finished" -> "ok"
             [] mode = "deadlock" -> "stuck"
             [] OTHER -> "none"

-----------------------------------------------------------------------------
(* Sequences of blocks and the sequences of their numbers.                 *)

\* Numbering commutes with linking at the tail and unlinking the head.
LEMMA NumbersCommute ==
  ASSUME NEW s \in Seq(Co), NEW f \in [Co -> Nat]
  PROVE  /\ Numbers(s, f) \in Seq(Nat) /\ Len(Numbers(s, f)) = Len(s)
         /\ \A c \in Co : Numbers(Append(s, c), f) = Append(Numbers(s, f), f[c])
         /\ s # <<>> => /\ Numbers(s, f) # <<>>
                        /\ Head(Numbers(s, f)) = f[Head(s)]
                        /\ Numbers(Tail(s), f) = Tail(Numbers(s, f))
<1>1. Numbers(s, f) \in Seq(Nat) /\ Len(Numbers(s, f)) = Len(s) /\ Len(s) \in Nat
      /\ \A i \in 1..Len(s) : Numbers(s, f)[i] = f[s[i]]
  BY DEF Numbers
<1>2. ASSUME NEW c \in Co
      PROVE  Numbers(Append(s, c), f) = Append(Numbers(s, f), f[c])
  <2>1. Append(s, c) \in Seq(Co) /\ Len(Append(s, c)) = Len(s) + 1 /\ f[c] \in Nat
    OBVIOUS
  <2>2. /\ Numbers(Append(s, c), f) \in Seq(Nat)
        /\ Len(Numbers(Append(s, c), f)) = Len(s) + 1
        /\ \A i \in 1..Len(s) + 1 : Numbers(Append(s, c), f)[i] = f[Append(s, c)[i]]
    BY <2>1 DEF Numbers
  <2>3. Append(Numbers(s, f), f[c]) \in Seq(Nat) /\ Len(Append(Numbers(s, f), f[c])) = Len(s) + 1
    BY <1>1, <2>1
  <2>4. \A i \in 1..Len(s) + 1 : f[Append(s, c)[i]] = Append(Numbers(s, f), f[c])[i]
    BY <1>1, <2>1
  <2>5. QED
    BY <2>2, <2>3, <2>4, SeqEqual
<1>3. ASSUME s # <<>>
      PROVE  /\ Numbers(s, f) # <<>>
             /\ Head(Numbers(s, f)) = f[Head(s)]
             /\ Numbers(Tail(s), f) = Tail(Numbers(s, f))
  <2>1. /\ Tail(s) \in Seq(Co) /\ Len(Tail(s)) = Len(s) - 1 /\ Len(s) > 0
        /\ \A i \in 1..Len(s) - 1 : Tail(s)[i] = s[i + 1]
    BY <1>3
  <2>2. Numbers(s, f) # <<>> /\ Head(Numbers(s, f)) = f[Head(s)]
    BY <1>1, <1>3, <2>1
  <2>3. /\ Numbers(Tail(s), f) \in Seq(Nat)
        /\ Len(Numbers(Tail(s), f)) = Len(s) - 1
        /\ \A i \in 1..Len(s) - 1 : Numbers(Tail(s), f)[i] = f[Tail(s)[i]]
    BY <2>1 DEF Numbers
  <2>4. /\ Tail(Numbers(s, f)) \in Seq(Nat)
        /\ Len(Tail(Numbers(s, f))) = Len(s) - 1
        /\ \A i \in 1..Len(s) - 1 : Tail(Numbers(s, f))[i] = Numbers(s, f)[i + 1]
    BY <1>1, <2>1, <2>2
  <2>5. \A i \in 1..Len(s) - 1 : Numbers(Tail(s), f)[i] = Tail(Numbers(s, f))[i]
    BY <1>1, <2>1, <2>3, <2>4
  <2>6. QED
    BY <2>2, <2>3, <2>4, <2>5, SeqEqual
<1>4. QED
  BY <1>1, <1>2, <1>3

\* The same for one block, in the form the steps cite it.
LEMMA NumbersAppend ==
  ASSUME NEW s \in Seq(Co), NEW f \in [Co -> Nat], NEW c \in Co
  PROVE  Numbers(Append(s, c), f) = Append(Numbers(s, f), f[c])
BY NumbersCommute

\* Numbers only depend on the blocks that are linked.
LEMMA NumbersAgree ==
  ASSUME NEW s \in Seq(Co), NEW f, NEW g, \A i \in 1..Len(s) : f[s[i]] = g[s[i]]
  PROVE  Numbers(s, f) = Numbers(s, g)
BY DEF Numbers

-----------------------------------------------------------------------------
\* What the steps use of the invariant.
LEMMA InvFacts ==
  ASSUME IInv
  PROVE  /\ TypeOK /\ ListsMatchStatus /\ StopsEmpty
         /\ queue = Numbers(co_ready, id)
         /\ co_running \in Co => current = id[co_running] /\ current > 0
         /\ co_running = NULL => current = 0
         /\ \A i \in 1..Len(co_ready) : co_ready[i] \in Co /\ status[co_ready[i]] = "READY"
         /\ \A c \in Co : status[c] = "SUSPEND" => id[c] \in blocked
         /\ \A c \in Co : status[c] # "FREE" => id[c] > 0
         /\ \A x, y \in Co : status[x] # "FREE" /\ status[y] # "FREE" /\ id[x] = id[y] => x = y
<1> USE CoAssumption
<1>1. TypeOK /\ ListsMatchStatus /\ StopsEmpty /\ IdsGiven
  BY DEF IInv
<1>2. queue = Numbers(co_ready, id)
  BY DEF queue, Numbers
<1>3. \A i \in 1..Len(co_ready) : co_ready[i] \in Co /\ status[co_ready[i]] = "READY"
  BY <1>1 DEF TypeOK, ListsMatchStatus
<1>4. co_running \in Co => status[co_running] = "RUNNING"
  BY <1>1 DEF ListsMatchStatus
<1>5. QED
  BY <1>1, <1>2, <1>3, <1>4 DEF IdsGiven, current, IdOf, blocked, ListsMatchStatus

-----------------------------------------------------------------------------
(* One lemma for each kind of step.                                        *)

\* lgx_vm_call boots, lgx_co_create spawns.
LEMMA CreationRefines ==
  ASSUME IInv, NEW c \in Co, lgx_vm_call(c) \/ lgx_co_create(c)
  PROVE  Tasks!TNext
<1> USE CoAssumption
<1>0. /\ TypeOK /\ StopsEmpty /\ NewBlock(c) /\ status[c] = "FREE"
      /\ id' = [id EXCEPT ![c] = co_id + 1] /\ co_id' = co_id + 1
      /\ id'[c] = co_id + 1
  BY DEF IInv, lgx_vm_call, lgx_co_create, NewBlock, CanCreate, TypeOK
<1>1. \A x \in Co : status[x] # "FREE" => id'[x] = id[x]
  BY <1>0 DEF TypeOK
<1>2. Numbers(co_ready, id') = Numbers(co_ready, id)
  <2>1. \A i \in 1..Len(co_ready) : id'[co_ready[i]] = id[co_ready[i]]
    BY <1>1, InvFacts
  <2>2. QED
    BY <1>0, <2>1, NumbersAgree DEF TypeOK
<1>3. co_suspend' = co_suspend => blocked' = blocked
  <2>1. \A x \in co_suspend : x \in Co /\ id'[x] = id[x]
    BY <1>1, InvFacts DEF ListsMatchStatus
  <2>2. QED
    BY <2>1 DEF blocked
<1>4. CASE lgx_vm_call(c)
  <2>1. co_id = 0 /\ co_id' = 1 /\ current' = 1
    BY <1>0, <1>4 DEF lgx_vm_call, StopsEmpty, Dispatch, current, IdOf
  <2>2. queue' = queue /\ blocked' = blocked
    BY <1>2, <1>3, <1>4 DEF lgx_vm_call, lists, queue, Numbers
  <2>3. outcome = "none" /\ outcome' = "none"
    BY <1>4 DEF lgx_vm_call, outcome
  <2>4. QED
    BY <2>1, <2>2, <2>3 DEF Tasks!TNext, Tasks!Boot, current, queue, blocked, outcome
<1>5. CASE lgx_co_create(c)
  <2>1. co_id > 0
    BY <1>0, <1>5 DEF lgx_co_create, StopsEmpty, TypeOK
  <2>2. current' = current
    <3>1. co_running' = co_running /\ (co_running \in Co => id'[co_running] = id[co_running])
      BY <1>1, <1>5, InvFacts DEF lgx_co_create, ListsMatchStatus
    <3>2. QED
      BY <1>0, <3>1 DEF current, IdOf, TypeOK
  <2>3. queue' = Append(queue, co_id + 1)
    <3>1. queue' = Numbers(Append(co_ready, c), id') /\ id' \in [Co -> Nat]
      BY <1>0, <1>5 DEF lgx_co_create, queue, Numbers, TypeOK
    <3>2. Numbers(Append(co_ready, c), id') = Append(Numbers(co_ready, id'), id'[c])
      BY <1>0, <3>1, NumbersCommute, ZenonT(60) DEF TypeOK
    <3>3. QED
      BY <1>0, <1>2, <3>1, <3>2, InvFacts
  <2>4. blocked' = blocked
    BY <1>3, <1>5 DEF lgx_co_create
  <2>5. outcome = "none" /\ outcome' = "none"
    BY <1>5 DEF lgx_co_create, outcome
  <2>6. QED
    BY <2>1, <2>2, <2>3, <2>4, <2>5
    DEF Tasks!TNext, Tasks!Spawn, current, queue, blocked, outcome, lgx_co_create, NewBlock, lgx_vm_call
<1>6. QED
  BY <1>4, <1>5

\* lgx_co_yield and lgx_co_suspend give the processor up.
LEMMA SwitchRefines ==
  ASSUME IInv, lgx_co_yield \/ lgx_co_suspend
  PROVE  Tasks!TNext
<1> USE CoAssumption
<1>0. /\ TypeOK /\ co_running \in Co /\ co_running' = NULL /\ id' = id /\ co_id' = co_id
      /\ outcome = "none" /\ outcome' = "none"
  BY DEF IInv, TypeOK, lgx_co_yield, lgx_co_suspend, blocks, outcome
<1>1. current = id[co_running] /\ current # 0 /\ current' = 0
  BY <1>0, InvFacts DEF current, IdOf
<1>2. CASE lgx_co_yield
  <2>1. queue' = Append(queue, current)
    <3>1. queue' = Numbers(Append(co_ready, co_running), id)
      BY <1>0, <1>2 DEF lgx_co_yield, queue, Numbers
    <3>2. Numbers(Append(co_ready, co_running), id) = Append(Numbers(co_ready, id), id[co_running])
      BY <1>0, NumbersAppend DEF TypeOK
    <3>3. QED
      BY <1>1, <3>1, <3>2, InvFacts
  <2>2. blocked' = blocked
    BY <1>0, <1>2 DEF lgx_co_yield, blocked
  <2>3. QED
    BY <1>0, <1>1, <2>1, <2>2 DEF Tasks!TNext, Tasks!Yield, current, queue, blocked, outcome
<1>3. CASE lgx_co_suspend
  <2>1. queue' = queue
    BY <1>0, <1>3 DEF lgx_co_suspend, queue
  <2>2. blocked' = blocked \cup {current}
    BY <1>0, <1>1, <1>3 DEF lgx_co_suspend, blocked
  <2>3. QED
    BY <1>0, <1>1, <2>1, <2>2 DEF Tasks!TNext, Tasks!Block, current, queue, blocked, outcome
<1>4. QED
  BY <1>2, <1>3

\* lgx_co_resume wakes: a number leaves the blocked ones exactly when its
\* coroutine leaves the suspend list, because numbers are unique.
LEMMA ResumeRefines ==
  ASSUME IInv, NEW c \in Co, lgx_co_resume(c)
  PROVE  Tasks!TNext
<1> USE CoAssumption DEF lgx_co_resume
<1>0. /\ TypeOK /\ id' = id /\ co_id' = co_id /\ outcome = "none" /\ outcome' = "none"
      /\ co_suspend' = co_suspend \ {c} /\ status[c] = "SUSPEND"
  BY DEF IInv, blocks, outcome
<1>1. id[c] \in blocked
  BY <1>0, InvFacts
<1>2. blocked' = blocked \ {id[c]}
  <2>1. \A x \in co_suspend : x \in Co /\ status[x] # "FREE"
    BY InvFacts DEF ListsMatchStatus
  <2>2. \A x \in co_suspend : id[x] = id[c] => x = c
    BY <1>0, <2>1, InvFacts
  <2>3. blocked' = {id[x] : x \in co_suspend \ {c}}
    BY <1>0 DEF blocked
  <2>4. QED
    BY <2>2, <2>3 DEF blocked
<1>3. CASE ResumeLater(c)
  <2>1. current # 0 /\ current' = current
    <3>1. co_running \in Co /\ co_running' = co_running
      BY <1>0, <1>3 DEF ResumeLater, TypeOK
    <3>2. current > 0 /\ current = id[co_running] /\ id[co_running] \in Nat
      BY <1>0, <3>1, InvFacts DEF TypeOK
    <3>3. QED
      BY <1>0, <3>1, <3>2 DEF current, IdOf
  <2>2. queue' = Append(queue, id[c])
    <3>1. queue' = Numbers(Append(co_ready, c), id)
      BY <1>0, <1>3 DEF ResumeLater, queue, Numbers
    <3>2. Numbers(Append(co_ready, c), id) = Append(Numbers(co_ready, id), id[c])
      BY <1>0, NumbersAppend DEF TypeOK
    <3>3. QED
      BY <3>1, <3>2, InvFacts
  <2>3. QED
    BY <1>0, <1>1, <1>2, <2>1, <2>2
    DEF Tasks!TNext, Tasks!Wake, current, queue, blocked, outcome
<1>4. CASE ResumeNow(c)
  <2>1. current = 0 /\ current' = id[c]
    BY <1>0, <1>4, InvFacts DEF ResumeNow, Dispatch, current, IdOf
  <2>2. queue' = queue
    BY <1>0, <1>4 DEF ResumeNow, queue
  <2>3. QED
    BY <1>0, <1>1, <1>2, <2>1, <2>2
    DEF Tasks!TNext, Tasks!Wake, current, queue, blocked, outcome
<1>5. QED
  BY <1>3, <1>4

\* lgx_co_died ends a task: what it deletes is not linked anywhere else.
LEMMA DiedRefines ==
  ASSUME IInv, lgx_co_died
  PROVE  Tasks!TNext
<1> USE CoAssumption
<1>0. /\ TypeOK /\ co_running \in Co /\ co_running' = NULL /\ co_id' = co_id
      /\ co_ready' = co_ready /\ co_suspend' = co_suspend
      /\ outcome = "none" /\ outcome' = "none"
      /\ id' = [x \in Co |-> IF x \in Deleted(co_running) THEN 0 ELSE id[x]]
  BY EndingFacts DEF IInv, lgx_co_died, outcome
<1>1. \A x \in Co : status[x] \in {"READY", "SUSPEND"} => id'[x] = id[x]
  BY <1>0, EndingFacts
<1>2. current # 0 /\ current' = 0
  BY <1>0, InvFacts DEF current, IdOf
<1>3. queue' = queue
  <2>1. \A i \in 1..Len(co_ready) : id'[co_ready[i]] = id[co_ready[i]]
    BY <1>1, InvFacts
  <2>2. Numbers(co_ready, id') = Numbers(co_ready, id)
    BY <1>0, <2>1, NumbersAgree DEF TypeOK
  <2>3. QED
    BY <1>0, <2>2 DEF queue, Numbers
<1>4. blocked' = blocked
  <2>1. \A x \in co_suspend : id'[x] = id[x]
    BY <1>1, InvFacts DEF ListsMatchStatus
  <2>2. QED
    BY <1>0, <2>1 DEF blocked
<1>5. QED
  BY <1>0, <1>2, <1>3, <1>4 DEF Tasks!TNext, Tasks!End, current, queue, blocked, outcome

\* lgx_vm_start dispatches the first task in the queue, or stops.
LEMMA StartRefines ==
  ASSUME IInv, lgx_vm_start
  PROVE  Tasks!TNext
<1> USE CoAssumption
<1>0. /\ TypeOK /\ mode = "start" /\ co_running = NULL /\ current = 0
      /\ id' = id /\ co_id' = co_id /\ outcome = "none" /\ co_id # 0
      /\ queue = Numbers(co_ready, id) /\ co_suspend' = co_suspend
  BY InvFacts DEF IInv, WindowIsRunning, StopsEmpty, lgx_vm_start, lgx_co_schedule,
                  StartReturns, blocks, lists, outcome
<1>1. blocked' = blocked
  BY <1>0 DEF blocked
<1>2. CASE lgx_co_schedule
  <2>1. co_ready # <<>> /\ co_ready' = Tail(co_ready) /\ co_running' = Head(co_ready)
        /\ outcome' = "none"
    BY <1>2 DEF lgx_co_schedule, lgx_co_has_ready_task, Dispatch, outcome
  <2>2. Head(co_ready) \in Co
    BY <1>0, <2>1 DEF TypeOK
  <2>3. queue # <<>> /\ Head(queue) = id[Head(co_ready)] /\ Numbers(Tail(co_ready), id) = Tail(queue)
    BY <1>0, <2>1, NumbersCommute DEF TypeOK
  <2>4. current' = Head(queue)
    BY <1>0, <2>1, <2>2, <2>3 DEF current, IdOf
  <2>5. queue' = Tail(queue)
    BY <1>0, <2>1, <2>3 DEF queue, Numbers
  <2>6. QED
    BY <1>0, <1>1, <2>1, <2>3, <2>4, <2>5
    DEF Tasks!TNext, Tasks!Next_Task, current, queue, blocked, outcome
<1>3. CASE StartReturns
  <2>1. co_ready = <<>> /\ UNCHANGED <<co_running, co_ready>>
    BY <1>3 DEF StartReturns, lgx_co_has_ready_task, lists
  <2>2. queue = <<>> /\ queue' = queue /\ current' = current
    BY <1>0, <2>1 DEF queue, current, IdOf
  <2>3. outcome' = IF blocked = {} THEN "ok" ELSE "stuck"
    BY <1>0, <1>3, <2>1 DEF StartReturns, lgx_co_has_task, blocked, outcome
  <2>4. co_id > 0
    BY <1>0 DEF TypeOK
  <2>5. QED
    BY <1>0, <1>1, <2>2, <2>3, <2>4 DEF Tasks!TNext, Tasks!Stop, current, queue, blocked, outcome
<1>4. QED
  BY <1>2, <1>3 DEF lgx_vm_start

\* Calls and returns of native functions do not show.
LEMMA BuildinStutters ==
  ASSUME BuildinCall \/ BuildinReturn \/ UNCHANGED vars
  PROVE  UNCHANGED Tasks!tvars
BY DEF BuildinCall, BuildinReturn, vars, lists, blocks, Tasks!tvars, IdOf

-----------------------------------------------------------------------------
\* The scheduler of coroutine.c implements TaskSchedule, for every set of
\* addresses and every limit.
THEOREM Implementation == Spec => ImplementsTasks
<1>1. Init => Tasks!Init
  BY DEF Init, Tasks!Init, IdOf
<1>2. IInv /\ [Next]_vars => [Tasks!TNext]_(Tasks!tvars)
  <2> SUFFICES ASSUME IInv, [Next]_vars PROVE [Tasks!TNext]_(Tasks!tvars)
    OBVIOUS
  <2>1. ASSUME NEW c \in Co, lgx_vm_call(c) \/ lgx_co_create(c) PROVE Tasks!TNext
    BY <2>1, CreationRefines
  <2>2. ASSUME lgx_co_yield \/ lgx_co_suspend PROVE Tasks!TNext
    BY <2>2, SwitchRefines
  <2>3. ASSUME NEW c \in Co, lgx_co_resume(c) PROVE Tasks!TNext
    BY <2>3, ResumeRefines
  <2>4. ASSUME lgx_co_died PROVE Tasks!TNext
    BY <2>4, DiedRefines
  <2>5. ASSUME lgx_vm_start PROVE Tasks!TNext
    BY <2>5, StartRefines
  <2>6. ASSUME BuildinCall \/ BuildinReturn \/ UNCHANGED vars PROVE UNCHANGED Tasks!tvars
    BY <2>6, BuildinStutters
  <2>7. QED
    BY <2>1, <2>2, <2>3, <2>4, <2>5, <2>6 DEF Next, Returned
<1>3. QED
  BY <1>1, <1>2, Invariance, PTL DEF Spec, ImplementsTasks, Tasks!TSpec
=============================================================================
