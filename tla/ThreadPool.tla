----------------------------- MODULE ThreadPool -----------------------------
(***************************************************************************)
(* include/thread_pool.h: std::threadpool, the fixed pool on which the     *)
(* proxy runs its event loops.                                             *)
(*                                                                         *)
(* Threads: the owner (constructor, then destructor), the clients (calls   *)
(* of commit) and the workers (the lambda that addThread starts).  Every   *)
(* read-modify-write of an atomic, every acquisition of _lock and every    *)
(* operation on _task_cv is a step of its own.  Code between lock() and    *)
(* unlock() touches only _tasks, which is read nowhere else, so a critical *)
(* section is one step after the acquisition; the exception is the wait:   *)
(* its predicate also reads _run, which the destructor writes without the  *)
(* lock, so "predicate is false" and "release the lock and block" are two  *)
(* steps.                                                                  *)
(***************************************************************************)
EXTENDS Integers, Sequences, FiniteSets

CONSTANTS
  Tasks,               \* the callables given to commit
  Clients,             \* threads that call commit
  Size,                \* argument of the constructor
  THREADPOOL_MAX_NUM,  \* line 14 of the header
  NoTask,              \* a default-constructed Task
  NoOne                \* _lock is not held

UShortRange == 65536   \* the constructor takes an unsigned short

Workers == 1..THREADPOOL_MAX_NUM

ASSUME PoolAssumption ==
  /\ Size \in Nat
  /\ THREADPOOL_MAX_NUM \in Nat
  /\ NoTask \notin Tasks
  /\ NoOne \notin Clients \cup Workers
  /\ Clients \cap Workers = {}
  /\ IsFiniteSet(Clients)

VARIABLES
  opc,        \* owner: where the constructor or the destructor is
  pool,       \* _pool.size()
  size,       \* addThread's parameter, counted down
  tasks,      \* _tasks
  lock,       \* holder of _lock
  run,        \* _run
  idlThrNum,  \* _idlThrNum
  cpc,        \* cpc[c]: where c is in commit
  ctask,      \* ctask[c]: the task c is committing
  wpc,        \* wpc[w]: where worker w is in the lambda
  cur,        \* cur[w]: w's local variable task
  fresh,      \* tasks that no client has tried to commit yet
  committed,  \* history: tasks in the order they entered _tasks
  taken       \* history: tasks in the order they left _tasks

ownerVars  == <<opc, pool, size>>
clientVars == <<cpc, ctask, fresh, committed>>
workerVars == <<wpc, cur, taken>>
vars == <<opc, pool, size, tasks, lock, run, idlThrNum, cpc, ctask, wpc, cur,
          fresh, committed, taken>>

OwnerPC  == {"add", "count", "live", "notify", "detach", "gone"}
ClientPC == {"idle", "lock", "push", "notify"}
WorkerPC == {"none", "loop", "lock", "pred", "block", "waiting", "wake",
             "dec", "run", "inc", "exit"}

Init ==
  /\ opc = "add"
  /\ pool = 0
  /\ size = Size % UShortRange
  /\ tasks = <<>>
  /\ lock = NoOne
  /\ run = TRUE
  /\ idlThrNum = 0
  /\ cpc = [c \in Clients |-> "idle"]
  /\ ctask = [c \in Clients |-> NoTask]
  /\ wpc = [w \in Workers |-> "none"]
  /\ cur = [w \in Workers |-> NoTask]
  /\ fresh = Tasks
  /\ committed = <<>>
  /\ taken = <<>>

-----------------------------------------------------------------------------
(* Owner: constructor.                                                     *)

\* _pool.emplace_back(...): the new thread may run before the count below.
AddThread ==
  /\ opc = "add"
  /\ pool < THREADPOOL_MAX_NUM /\ size > 0
  /\ pool' = pool + 1
  /\ wpc' = [wpc EXCEPT ![pool + 1] = "loop"]
  /\ opc' = "count"
  /\ UNCHANGED <<size, tasks, lock, run, idlThrNum, clientVars, cur, taken>>

CountIdle ==
  /\ opc = "count"
  /\ idlThrNum' = idlThrNum + 1
  /\ size' = size - 1
  /\ opc' = "add"
  /\ UNCHANGED <<pool, tasks, lock, run, clientVars, workerVars>>

Constructed ==
  /\ opc = "add"
  /\ ~(pool < THREADPOOL_MAX_NUM /\ size > 0)
  /\ opc' = "live"
  /\ UNCHANGED <<pool, size, tasks, lock, run, idlThrNum, clientVars,
                 workerVars>>

(* Owner: destructor.  No commit is in progress when it begins (the object's
   users are done with it), and it takes no lock.                            *)
DtorStop ==
  /\ opc = "live"
  /\ \A c \in Clients : cpc[c] = "idle"
  /\ run' = FALSE
  /\ opc' = "notify"
  /\ UNCHANGED <<pool, size, tasks, lock, idlThrNum, clientVars, workerVars>>

\* Mutant of DtorNotifyAll: notify_one instead of notify_all.
BugDtorNotifyOne ==
  /\ opc = "notify"
  /\ \/ \E w \in Workers : /\ wpc[w] = "waiting"
                           /\ wpc' = [wpc EXCEPT ![w] = "wake"]
     \/ /\ \A w \in Workers : wpc[w] # "waiting"
        /\ wpc' = wpc
  /\ opc' = "detach"
  /\ UNCHANGED <<pool, size, tasks, lock, run, idlThrNum, clientVars, cur,
                 taken>>

DtorNotifyAll ==
  /\ opc = "notify"
  /\ wpc' = [w \in Workers |-> IF wpc[w] = "waiting" THEN "wake" ELSE wpc[w]]
  /\ opc' = "detach"
  /\ UNCHANGED <<pool, size, tasks, lock, run, idlThrNum, clientVars, cur,
                 taken>>

\* Every thread is detached, then the members are destroyed: the steps of a
\* thread that is still inside the pool's code are outside this model.
DtorDetach ==
  /\ opc = "detach"
  /\ opc' = "gone"
  /\ UNCHANGED <<pool, size, tasks, lock, run, idlThrNum, clientVars,
                 workerVars>>

-----------------------------------------------------------------------------
(* Clients: commit.                                                        *)

\* The object exists for its users: constructed and not yet destroyed.
Exists == opc \notin {"add", "count", "gone"}

\* Mutant of Commit: the test of _run is missing.
BugCommitUnchecked(c, t) ==
  /\ Exists
  /\ cpc[c] = "idle"
  /\ t \in fresh
  /\ fresh' = fresh \ {t}
  /\ cpc' = [cpc EXCEPT ![c] = "lock"]
  /\ ctask' = [ctask EXCEPT ![c] = t]
  /\ UNCHANGED <<ownerVars, tasks, lock, run, idlThrNum, workerVars, committed>>

Commit(c, t) ==
  /\ Exists
  /\ cpc[c] = "idle"
  /\ t \in fresh
  /\ run
  /\ fresh' = fresh \ {t}
  /\ cpc' = [cpc EXCEPT ![c] = "lock"]
  /\ ctask' = [ctask EXCEPT ![c] = t]
  /\ UNCHANGED <<ownerVars, tasks, lock, run, idlThrNum, workerVars, committed>>

\* throw runtime_error("commit on ThreadPool is stopped.")
CommitStopped(c, t) ==
  /\ Exists
  /\ cpc[c] = "idle"
  /\ t \in fresh
  /\ ~run
  /\ fresh' = fresh \ {t}
  /\ UNCHANGED <<ownerVars, tasks, lock, run, idlThrNum, workerVars, cpc, ctask,
                 committed>>

CommitLock(c) ==
  /\ cpc[c] = "lock"
  /\ lock = NoOne
  /\ lock' = c
  /\ cpc' = [cpc EXCEPT ![c] = "push"]
  /\ UNCHANGED <<ownerVars, tasks, run, idlThrNum, workerVars, ctask, fresh,
                 committed>>

CommitPush(c) ==
  /\ cpc[c] = "push"
  /\ tasks' = Append(tasks, ctask[c])
  /\ committed' = Append(committed, ctask[c])
  /\ lock' = NoOne
  /\ cpc' = [cpc EXCEPT ![c] = "notify"]
  /\ ctask' = [ctask EXCEPT ![c] = NoTask]
  /\ UNCHANGED <<ownerVars, run, idlThrNum, workerVars, fresh>>

\* Mutant of CommitNotify: the notification is forgotten.
BugCommitSilent(c) ==
  /\ cpc[c] = "notify"
  /\ cpc' = [cpc EXCEPT ![c] = "idle"]
  /\ UNCHANGED <<ownerVars, tasks, lock, run, idlThrNum, ctask, fresh,
                 committed, wpc, cur, taken>>

\* _task_cv.notify_one(): one waiting worker, if there is one.
CommitNotify(c) ==
  /\ cpc[c] = "notify"
  /\ cpc' = [cpc EXCEPT ![c] = "idle"]
  /\ \/ \E w \in Workers : /\ wpc[w] = "waiting"
                           /\ wpc' = [wpc EXCEPT ![w] = "wake"]
     \/ /\ \A w \in Workers : wpc[w] # "waiting"
        /\ wpc' = wpc
  /\ UNCHANGED <<ownerVars, tasks, lock, run, idlThrNum, ctask, fresh,
                 committed, cur, taken>>

-----------------------------------------------------------------------------
(* Workers: the lambda of addThread.                                       *)

WorkerGoes(w, from, to) ==
  /\ opc # "gone"
  /\ wpc[w] = from
  /\ wpc' = [wpc EXCEPT ![w] = to]

\* while (_run)
LoopTest(w) ==
  /\ WorkerGoes(w, "loop", IF run THEN "lock" ELSE "exit")
  /\ UNCHANGED <<ownerVars, tasks, lock, run, idlThrNum, clientVars, cur, taken>>

\* Mutant of Acquire: the mutex does not exclude.
BugAcquireHeld(w) ==
  /\ \/ WorkerGoes(w, "lock", "pred")
     \/ WorkerGoes(w, "wake", "pred")
  /\ lock' = w
  /\ UNCHANGED <<ownerVars, tasks, run, idlThrNum, clientVars, cur, taken>>

\* unique_lock lock{_lock}, or the re-acquisition inside wait.
Acquire(w) ==
  /\ \/ WorkerGoes(w, "lock", "pred")
     \/ WorkerGoes(w, "wake", "pred")
  /\ lock = NoOne
  /\ lock' = w
  /\ UNCHANGED <<ownerVars, tasks, run, idlThrNum, clientVars, cur, taken>>

\* Mutant of Take: the newest task is taken instead of the front.
BugTakeNewest(w) ==
  /\ WorkerGoes(w, "pred", "dec")
  /\ tasks # <<>>
  /\ cur' = [cur EXCEPT ![w] = tasks[Len(tasks)]]
  /\ tasks' = SubSeq(tasks, 1, Len(tasks) - 1)
  /\ taken' = Append(taken, tasks[Len(tasks)])
  /\ lock' = NoOne
  /\ UNCHANGED <<ownerVars, run, idlThrNum, clientVars>>

\* Mutant of Take: the pop is missing.
BugTakeNoPop(w) ==
  /\ WorkerGoes(w, "pred", "dec")
  /\ tasks # <<>>
  /\ cur' = [cur EXCEPT ![w] = Head(tasks)]
  /\ taken' = Append(taken, Head(tasks))
  /\ lock' = NoOne
  /\ UNCHANGED <<ownerVars, tasks, run, idlThrNum, clientVars>>

\* The wait's predicate holds and _tasks is not empty: move the front, pop,
\* unlock.
Take(w) ==
  /\ WorkerGoes(w, "pred", "dec")
  /\ tasks # <<>>
  /\ cur' = [cur EXCEPT ![w] = Head(tasks)]
  /\ tasks' = Tail(tasks)
  /\ taken' = Append(taken, Head(tasks))
  /\ lock' = NoOne
  /\ UNCHANGED <<ownerVars, run, idlThrNum, clientVars>>

\* The predicate holds because of !_run and there is no task: return.
Leave(w) ==
  /\ WorkerGoes(w, "pred", "exit")
  /\ tasks = <<>>
  /\ ~run
  /\ lock' = NoOne
  /\ UNCHANGED <<ownerVars, tasks, run, idlThrNum, clientVars, cur, taken>>

\* Mutant of DecideToWait: the lock is released before the thread waits.
BugUnlockBeforeWait(w) ==
  /\ WorkerGoes(w, "pred", "block")
  /\ tasks = <<>>
  /\ run
  /\ lock' = NoOne
  /\ UNCHANGED <<ownerVars, tasks, run, idlThrNum, clientVars, cur, taken>>

\* The predicate is false: the thread is going to block, still holding _lock.
DecideToWait(w) ==
  /\ WorkerGoes(w, "pred", "block")
  /\ tasks = <<>>
  /\ run
  /\ UNCHANGED <<ownerVars, tasks, lock, run, idlThrNum, clientVars, cur, taken>>

\* Release _lock and join the waiters of _task_cv, atomically.
Block(w) ==
  /\ WorkerGoes(w, "block", "waiting")
  /\ lock' = NoOne
  /\ UNCHANGED <<ownerVars, tasks, run, idlThrNum, clientVars, cur, taken>>

\* A condition variable may wake a thread that nobody notified.
SpuriousWake(w) ==
  /\ WorkerGoes(w, "waiting", "wake")
  /\ UNCHANGED <<ownerVars, tasks, lock, run, idlThrNum, clientVars, cur, taken>>

DecIdle(w) ==
  /\ WorkerGoes(w, "dec", "run")
  /\ idlThrNum' = idlThrNum - 1
  /\ UNCHANGED <<ownerVars, tasks, lock, run, clientVars, cur, taken>>

\* task() returns.  An event loop may never do so.
FinishTask(w) ==
  /\ WorkerGoes(w, "run", "inc")
  /\ cur' = [cur EXCEPT ![w] = NoTask]
  /\ UNCHANGED <<ownerVars, tasks, lock, run, idlThrNum, clientVars, taken>>

\* Mutant of IncIdle: the increment after task() is missing.
BugNoIncrement(w) ==
  /\ WorkerGoes(w, "inc", "loop")
  /\ UNCHANGED <<ownerVars, tasks, lock, run, idlThrNum, clientVars, cur, taken>>

IncIdle(w) ==
  /\ WorkerGoes(w, "inc", "loop")
  /\ idlThrNum' = idlThrNum + 1
  /\ UNCHANGED <<ownerVars, tasks, lock, run, clientVars, cur, taken>>

-----------------------------------------------------------------------------
Owner == AddThread \/ CountIdle \/ Constructed
         \/ DtorStop \/ DtorNotifyAll \/ DtorDetach

Client(c) ==
  \/ \E t \in Tasks : Commit(c, t) \/ CommitStopped(c, t)
  \/ CommitLock(c)
  \/ CommitPush(c)
  \/ CommitNotify(c)

\* What a worker does when it is scheduled, as long as task() returns.
WorkerStep(w) == LoopTest(w) \/ Acquire(w) \/ Take(w) \/ Leave(w)
                 \/ DecideToWait(w) \/ Block(w) \/ DecIdle(w) \/ IncIdle(w)

Worker(w) == WorkerStep(w) \/ FinishTask(w) \/ SpuriousWake(w)

Next ==
  \/ Owner
  \/ \E c \in Clients : Client(c)
  \/ \E w \in Workers : Worker(w)

Spec == Init /\ [][Next]_vars

\* The operating system schedules every thread that can run.  Nothing is
\* assumed of the time a task takes, of the calls the clients make, of the
\* moment the pool is destroyed or of spurious wake-ups.
Fairness ==
  /\ WF_vars(AddThread \/ CountIdle \/ Constructed)
  /\ WF_vars(DtorNotifyAll)
  /\ \A c \in Clients : WF_vars(CommitPush(c)) /\ WF_vars(CommitNotify(c))
  /\ \A w \in Workers : WF_vars(WorkerStep(w))

FairSpec == Spec /\ Fairness

-----------------------------------------------------------------------------
(* Properties.                                                             *)

TypeOK ==
  /\ opc \in OwnerPC
  /\ pool \in 0..THREADPOOL_MAX_NUM
  /\ size \in Nat
  /\ tasks \in Seq(Tasks)
  /\ lock \in Clients \cup Workers \cup {NoOne}
  /\ run \in BOOLEAN
  /\ idlThrNum \in Int
  /\ cpc \in [Clients -> ClientPC]
  /\ ctask \in [Clients -> Tasks \cup {NoTask}]
  /\ wpc \in [Workers -> WorkerPC]
  /\ cur \in [Workers -> Tasks \cup {NoTask}]
  /\ fresh \in SUBSET Tasks
  /\ committed \in Seq(Tasks)
  /\ taken \in Seq(Tasks)

(* The inductive strengthening of the type invariant.                      *)

\* Where the owner is determines which threads exist, whether _run is set and
\* whether a call of commit can be in progress.
ControlOK ==
  /\ opc = "count" => size > 0 /\ pool > 0
  /\ opc \in {"add", "count", "live"} <=> run
  /\ \A w \in Workers : wpc[w] = "none" <=> w > pool
  /\ \A c \in Clients : cpc[c] # "idle" => opc = "live"

\* _lock is held exactly by the thread that is in a critical section, and a
\* worker that is going to block has seen an empty queue that stays empty.
LockOK ==
  /\ \A w \in Workers : wpc[w] \in {"pred", "block"} <=> lock = w
  /\ \A c \in Clients : cpc[c] = "push" <=> lock = c
  /\ \A w \in Workers : wpc[w] = "block" => tasks = <<>>

\* A thread holds a task exactly between receiving it and handing it over.
HandOver ==
  /\ \A c \in Clients : cpc[c] \in {"lock", "push"} <=> ctask[c] # NoTask
  /\ \A w \in Workers : wpc[w] \in {"dec", "run"} <=> cur[w] # NoTask

\* Who owns what: the control state of owner, clients and workers agrees with
\* the lock, the queue and the tasks in their hands (thread_pool.h:31-112).
PoolInv == TypeOK /\ ControlOK /\ LockOK /\ HandOver

\* Tasks leave the queue in the order in which commit put them there, none is
\* dropped and none is taken twice, whatever the interleaving of the clients'
\* push and the workers' front/pop (thread_pool.h:63-68 and 101-103).
FIFO == committed = taken \o tasks

\* A task is executed by one worker only: two workers never hold the same one
\* (thread_pool.h:101-106).
OneExecutor ==
  \A v, w \in Workers : (v # w /\ cur[v] # NoTask) => cur[v] # cur[w]

\* Strengthening of OneExecutor: a task is untried, in the hands of one client,
\* at one position of _tasks, in the hands of one worker, or gone.
OnePlace ==
  /\ OneExecutor
  /\ \A i, j \in DOMAIN tasks : tasks[i] = tasks[j] => i = j
  /\ \A i \in DOMAIN tasks :
       /\ tasks[i] \notin fresh
       /\ \A c \in Clients : ctask[c] # tasks[i]
       /\ \A w \in Workers : cur[w] # tasks[i]
  /\ \A c \in Clients :
       /\ ctask[c] \notin fresh
       /\ ctask[c] # NoTask => /\ \A d \in Clients \ {c} : ctask[d] # ctask[c]
                              /\ \A w \in Workers : cur[w] # ctask[c]
  /\ \A w \in Workers : cur[w] \notin fresh

Busy == {w \in Workers : wpc[w] \in {"run", "inc"}}

\* _idlThrNum is exactly the number of counted threads that are not between
\* the decrement and the increment around task(), so idlCount() is never
\* negative and never above thrCount() (thread_pool.h:105-107, 110).
IdleAccurate ==
  /\ idlThrNum = pool - (IF opc = "count" THEN 1 ELSE 0) - Cardinality(Busy)
  /\ idlThrNum >= 0

Waiting   == {w \in Workers : wpc[w] = "waiting"}
Awake     == {w \in Workers : wpc[w] \in {"loop", "lock", "pred", "wake", "inc"}}
Notifying == {c \in Clients : cpc[c] = "notify"}

\* While the pool runs no wake-up is lost: if some worker is blocked, then for
\* every queued task there is a worker that is on its way to the queue or a
\* commit that is about to notify (thread_pool.h:63-73 against 96-99).
NoLostWakeup ==
  (run /\ Waiting # {}) =>
    Len(tasks) <= Cardinality(Awake) + Cardinality(Notifying)

Queued(t) == \E i \in DOMAIN tasks : tasks[i] = t
AllBusy == \A w \in 1..pool : wpc[w] = "run"

\* A committed task does not stay in the queue while a thread of the pool is
\* free: it is taken, or every thread is executing a task, or the pool is
\* being destroyed (thread_pool.h:73, "wake one thread to execute").
QueuedTaskStarts ==
  \A t \in Tasks : (opc = "live" /\ Queued(t)) ~> (~Queued(t) \/ AllBusy \/ ~run)

\* Tasks that have not entered _tasks: untried, or in the hands of a client.
Unsubmitted ==
  fresh \cup {ctask[c] : c \in {d \in Clients : cpc[d] \in {"lock", "push"}}}

\* The pool implements the abstract pool: a commit takes effect at the push,
\* a start at the pop.
Abstract == INSTANCE TaskPool WITH
  Slots <- Workers,
  fresh <- Unsubmitted,
  queue <- tasks,
  slot <- cur,
  accepting <- run

\* Every behaviour of the pool is one of the abstract pool (TaskPool).
ImplementsTaskPool == Abstract!Spec

\* The destructor's notify_all (line 34, "wake up all threads") may miss a
\* worker, because neither the write of _run nor the notification is made under
\* _lock: the worker that had found the predicate false just before.  It is
\* never more than that one; every other thread leaves the wait.
DtorStrandsAtMostOne ==
  opc \in {"detach", "gone"} =>
    \A v, w \in Workers :
      (wpc[v] \in {"block", "waiting"} /\ wpc[w] \in {"block", "waiting"}) => v = w
=============================================================================
