---------------------------- MODULE TaskSchedule -----------------------------
(***************************************************************************)
(* What the coroutine scheduler promises, without its data structures:     *)
(* tasks are numbered in the order they are created, a task is waiting for *)
(* the processor, running, blocked or over, the processor is given in      *)
(* first-come first-served order except to a task a native function wakes  *)
(* while the processor is free, and the VM stops when no task can go on.   *)
(* There are no blocks, no reference counts and no deferred deletion here: *)
(* a task that is over is simply gone.                                     *)
(***************************************************************************)
EXTENDS Naturals, Sequences

VARIABLES
  spawned,   \* tasks created so far: their numbers are 1 .. spawned
  current,   \* number of the running task, 0 for none
  queue,     \* numbers of the tasks waiting for the processor, in order
  blocked,   \* numbers of the suspended tasks
  outcome    \* "none" while the VM runs, then "ok" or "stuck"

tvars == <<spawned, current, queue, blocked, outcome>>

Init ==
  /\ spawned = 0
  /\ current = 0
  /\ queue = <<>>
  /\ blocked = {}
  /\ outcome = "none"

\* The main task is created running.
Boot ==
  /\ spawned = 0
  /\ spawned' = 1
  /\ current' = 1
  /\ UNCHANGED <<queue, blocked, outcome>>

Spawn ==
  /\ spawned > 0
  /\ spawned' = spawned + 1
  /\ queue' = Append(queue, spawned + 1)
  /\ UNCHANGED <<current, blocked, outcome>>

Yield ==
  /\ current # 0
  /\ queue' = Append(queue, current)
  /\ current' = 0
  /\ UNCHANGED <<spawned, blocked, outcome>>

Block ==
  /\ current # 0
  /\ blocked' = blocked \cup {current}
  /\ current' = 0
  /\ UNCHANGED <<spawned, queue, outcome>>

\* A blocked task is woken: at the end of the queue, or, when the processor
\* is free, directly onto it.
Wake(t) ==
  /\ t \in blocked
  /\ blocked' = blocked \ {t}
  /\ IF current # 0
     THEN queue' = Append(queue, t) /\ UNCHANGED current
     ELSE current' = t /\ UNCHANGED queue
  /\ UNCHANGED <<spawned, outcome>>

End ==
  /\ current # 0
  /\ current' = 0
  /\ UNCHANGED <<spawned, queue, blocked, outcome>>

Next_Task ==
  /\ current = 0
  /\ queue # <<>>
  /\ current' = Head(queue)
  /\ queue' = Tail(queue)
  /\ UNCHANGED <<spawned, blocked, outcome>>

\* Only a VM with nothing to run stops, and it reports whether tasks are
\* left that nobody can wake any more.
Stop ==
  /\ spawned > 0
  /\ current = 0
  /\ queue = <<>>
  /\ outcome = "none"
  /\ outcome' = IF blocked = {} THEN "ok" ELSE "stuck"
  /\ UNCHANGED <<spawned, current, queue, blocked>>

TNext ==
  /\ outcome = "none"
  /\ \/ Boot
     \/ Spawn
     \/ Yield
     \/ Block
     \/ \E t \in blocked : Wake(t)
     \/ End
     \/ Next_Task
     \/ Stop

TSpec == Init /\ [][TNext]_tvars
=============================================================================
