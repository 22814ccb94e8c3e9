------------------------------ MODULE TaskPool ------------------------------
(***************************************************************************)
(* What a pool of threads promises to the code that submits tasks to it,   *)
(* with no lock, condition variable or idle counter: submitted tasks wait  *)
(* in one first-in-first-out queue, each is executed by exactly one slot,  *)
(* a slot executes one task at a time, and a pool that has been closed     *)
(* refuses new tasks.  ThreadPool implements this specification.           *)
(***************************************************************************)
EXTENDS Naturals, Sequences

CONSTANTS
  Tasks,    \* what can be submitted
  Slots,    \* the threads that can execute a task
  NoTask    \* content of a slot that executes nothing (not one of Tasks)

VARIABLES
  fresh,      \* tasks not submitted yet
  queue,      \* submitted, not started, oldest first
  slot,       \* slot[s]: the task that s executes, or NoTask
  accepting   \* the pool has not been closed

vars == <<fresh, queue, slot, accepting>>

Init ==
  /\ fresh = Tasks
  /\ queue = <<>>
  /\ slot = [s \in Slots |-> NoTask]
  /\ accepting = TRUE

\* A task is accepted: from now on it is in the queue or in one slot.
Submit(t) ==
  /\ accepting
  /\ t \in fresh
  /\ fresh' = fresh \ {t}
  /\ queue' = Append(queue, t)
  /\ UNCHANGED <<slot, accepting>>

\* A task is refused because the pool is closed; it is never executed.
Refuse(t) ==
  /\ ~accepting
  /\ t \in fresh
  /\ fresh' = fresh \ {t}
  /\ UNCHANGED <<queue, slot, accepting>>

\* A free slot starts the oldest task (also after the pool was closed).
Start(s) ==
  /\ queue # <<>>
  /\ slot[s] = NoTask
  /\ slot' = [slot EXCEPT ![s] = Head(queue)]
  /\ queue' = Tail(queue)
  /\ UNCHANGED <<fresh, accepting>>

Finish(s) ==
  /\ slot[s] # NoTask
  /\ slot' = [slot EXCEPT ![s] = NoTask]
  /\ UNCHANGED <<fresh, queue, accepting>>

Close ==
  /\ accepting
  /\ accepting' = FALSE
  /\ UNCHANGED <<fresh, queue, slot>>

Next ==
  \/ \E t \in Tasks : Submit(t) \/ Refuse(t)
  \/ \E s \in Slots : Start(s) \/ Finish(s)
  \/ Close

Spec == Init /\ [][Next]_vars
=============================================================================
