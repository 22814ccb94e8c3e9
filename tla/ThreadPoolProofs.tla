-------------------------- MODULE ThreadPoolProofs --------------------------
(***************************************************************************)
(* Proofs about ThreadPool, for any set of tasks, any finite set of        *)
(* clients, any constructor argument and any THREADPOOL_MAX_NUM.  Every    *)
(* invariant is proved in the same way: initially true, preserved by the   *)
(* owner's, the clients' and the workers' steps.                           *)
(***************************************************************************)
EXTENDS ThreadPool, SequenceTheorems, FiniteSetTheorems, TLAPS

-----------------------------------------------------------------------------
(* Lemmas on the queue.                                                    *)

\* What front() and pop() do to a queue that is not empty.
LEMMA PopFacts ==
  ASSUME NEW S, NEW q \in Seq(S), q # <<>>
  PROVE  /\ Len(q) \in Nat /\ Len(q) > 0
         /\ 1 \in DOMAIN q /\ Head(q) = q[1] /\ Head(q) \in S
         /\ Tail(q) \in Seq(S)
         /\ Len(Tail(q)) = Len(q) - 1
         /\ \A i \in DOMAIN Tail(q) : i + 1 \in DOMAIN q /\ Tail(q)[i] = q[i + 1]
  OBVIOUS

\* What emplace() does to a queue.
LEMMA PushFacts ==
  ASSUME NEW S, NEW q \in Seq(S), NEW e \in S
  PROVE  /\ Append(q, e) \in Seq(S)
         /\ Len(Append(q, e)) = Len(q) + 1
         /\ \A i \in DOMAIN Append(q, e) :
               \/ i \in DOMAIN q /\ Append(q, e)[i] = q[i]
               \/ i = Len(q) + 1 /\ Append(q, e)[i] = e
  OBVIOUS

-----------------------------------------------------------------------------
(* Control state, lock and tasks in hand.                                  *)

LEMMA InvInit ==
  ASSUME Init
  PROVE  PoolInv
  BY PoolAssumption DEF Init, PoolInv, TypeOK, ControlOK, LockOK, HandOver,
     Workers, OwnerPC, ClientPC, WorkerPC, UShortRange

LEMMA OwnerKeepsInv ==
  ASSUME PoolInv, Owner
  PROVE  PoolInv'
PROOF
  <1> USE PoolAssumption DEF OwnerPC, ClientPC, WorkerPC, PoolInv, TypeOK,
          ControlOK, LockOK, HandOver, clientVars, workerVars
  <1>1. CASE AddThread
    BY <1>1 DEF AddThread, Workers
  <1>2. CASE CountIdle
    BY <1>2 DEF CountIdle
  <1>3. CASE Constructed
    BY <1>3 DEF Constructed
  <1>4. CASE DtorStop
    BY <1>4 DEF DtorStop
  <1>5. CASE DtorNotifyAll
    BY <1>5 DEF DtorNotifyAll
  <1>6. CASE DtorDetach
    BY <1>6 DEF DtorDetach
  <1> QED BY <1>1, <1>2, <1>3, <1>4, <1>5, <1>6 DEF Owner

LEMMA ClientKeepsInv ==
  ASSUME PoolInv, NEW c \in Clients, Client(c)
  PROVE  PoolInv'
PROOF
  <1> USE PoolAssumption DEF OwnerPC, ClientPC, WorkerPC, PoolInv, TypeOK,
          ControlOK, LockOK, HandOver, ownerVars, workerVars
  <1>1. CASE \E t \in Tasks : Commit(c, t)
    BY <1>1 DEF Commit, Exists
  <1>2. CASE \E t \in Tasks : CommitStopped(c, t)
    BY <1>2 DEF CommitStopped, Exists
  <1>3. CASE CommitLock(c)
    BY <1>3 DEF CommitLock
  <1>4. CASE CommitPush(c)
    BY <1>4 DEF CommitPush
  <1>5. CASE CommitNotify(c)
    BY <1>5 DEF CommitNotify
  <1> QED BY <1>1, <1>2, <1>3, <1>4, <1>5 DEF Client

LEMMA WorkerKeepsInv ==
  ASSUME PoolInv, NEW w \in Workers, Worker(w)
  PROVE  PoolInv'
PROOF
  <1> USE PoolAssumption DEF OwnerPC, ClientPC, WorkerPC, PoolInv, TypeOK,
          ControlOK, LockOK, HandOver, WorkerGoes, ownerVars, clientVars, Workers
  <1>1. CASE LoopTest(w)
    BY <1>1 DEF LoopTest
  <1>2. CASE Acquire(w)
    BY <1>2 DEF Acquire
  <1>3. CASE Take(w)
    <2>1. /\ Head(tasks) \in Tasks /\ Tail(tasks) \in Seq(Tasks)
          /\ Append(taken, Head(tasks)) \in Seq(Tasks)
      BY <1>3, PopFacts DEF Take
    <2>2. TypeOK'
      BY <1>3, <2>1 DEF Take
    <2>3. ControlOK' /\ HandOver'
      BY <1>3, <2>1 DEF Take
    <2>4. LockOK'
      BY <1>3 DEF Take
    <2> QED BY <2>2, <2>3, <2>4
  <1>4. CASE Leave(w)
    BY <1>4 DEF Leave
  <1>5. CASE DecideToWait(w)
    BY <1>5 DEF DecideToWait
  <1>6. CASE Block(w)
    BY <1>6 DEF Block
  <1>7. CASE SpuriousWake(w)
    BY <1>7 DEF SpuriousWake
  <1>8. CASE DecIdle(w)
    BY <1>8 DEF DecIdle
  <1>9. CASE FinishTask(w)
    BY <1>9 DEF FinishTask
  <1>10. CASE IncIdle(w)
    BY <1>10 DEF IncIdle
  <1> QED BY <1>1, <1>2, <1>3, <1>4, <1>5, <1>6, <1>7, <1>8, <1>9, <1>10
             DEF Worker, WorkerStep

\* Inductiveness of PoolInv: the control states of owner, clients and workers
\* stay in agreement with the lock, the queue and the tasks in hand.
LEMMA NextKeepsInv ==
  ASSUME PoolInv, [Next]_vars
  PROVE  PoolInv'
PROOF
  <1>1. CASE Owner
    BY <1>1, OwnerKeepsInv
  <1>2. ASSUME NEW c \in Clients, Client(c)
        PROVE  PoolInv'
    BY <1>2, ClientKeepsInv
  <1>3. ASSUME NEW w \in Workers, Worker(w)
        PROVE  PoolInv'
    BY <1>3, WorkerKeepsInv
  <1>4. CASE UNCHANGED vars
    BY <1>4 DEF vars, PoolInv, TypeOK, ControlOK, LockOK, HandOver
  <1> QED BY <1>1, <1>2, <1>3, <1>4 DEF Next

\* The pool's control state is consistent in every reachable state; in
\* particular at most one thread is in a critical section of _lock.
THEOREM PoolInvHolds == Spec => []PoolInv
PROOF
  <1>1. Init => PoolInv
    BY InvInit
  <1>2. PoolInv /\ [Next]_vars => PoolInv'
    BY NextKeepsInv
  <1> QED BY <1>1, <1>2, PTL DEF Spec

\* Type correctness (thread_pool.h): the pool never grows past
\* THREADPOOL_MAX_NUM and only committed tasks are ever in the queue.
THEOREM TypeCorrect == Spec => []TypeOK
  BY PoolInvHolds, PTL DEF PoolInv

-----------------------------------------------------------------------------
(* Order of the tasks.                                                     *)

\* Tasks leave the queue in the order in which commit put them there, none is
\* dropped and none is taken twice (thread_pool.h:63-68 and 101-103).
THEOREM FIFOHolds == Spec => []FIFO
PROOF
  <1>1. Init => FIFO
    BY DEF Init, FIFO
  <1>2. ASSUME PoolInv, FIFO, [Next]_vars
        PROVE  FIFO'
    <2>0. tasks \in Seq(Tasks) /\ taken \in Seq(Tasks) /\ committed \in Seq(Tasks)
      BY <1>2 DEF PoolInv, TypeOK
    <2>1. CASE UNCHANGED <<committed, taken, tasks>>
      BY <1>2, <2>1 DEF FIFO
    <2>2. ASSUME NEW c \in Clients, CommitPush(c)
          PROVE  FIFO'
      <3>1. ctask[c] \in Tasks
        BY <1>2, <2>2 DEF CommitPush, PoolInv, TypeOK, HandOver
      <3>2. committed' = committed \o <<ctask[c]>> /\ tasks' = tasks \o <<ctask[c]>>
        BY <2>0, <2>2, <3>1, AppendIsConcat DEF CommitPush
      <3>3. (taken \o tasks) \o <<ctask[c]>> = taken \o (tasks \o <<ctask[c]>>)
        BY <2>0, <3>1
      <3> QED BY <1>2, <2>2, <3>2, <3>3 DEF CommitPush, FIFO, workerVars
    <2>3. ASSUME NEW w \in Workers, Take(w)
          PROVE  FIFO'
      <3>1. Head(tasks) \in Tasks /\ Tail(tasks) \in Seq(Tasks)
        BY <2>0, <2>3, PopFacts DEF Take
      <3>2. tasks = <<Head(tasks)>> \o Tail(tasks)
        BY <2>0, <2>3 DEF Take
      <3>3. taken \o (<<Head(tasks)>> \o Tail(tasks))
              = Append(taken, Head(tasks)) \o Tail(tasks)
        BY <2>0, <3>1
      <3> QED BY <1>2, <2>3, <3>2, <3>3 DEF Take, FIFO, clientVars
    <2> QED
      BY <1>2, <2>1, <2>2, <2>3 DEF Next, Owner, AddThread, CountIdle, Constructed,
         DtorStop, DtorNotifyAll, DtorDetach, Client, Commit, CommitStopped,
         CommitLock, CommitNotify, Worker, WorkerStep, LoopTest, Acquire, Leave,
         DecideToWait, Block, SpuriousWake, DecIdle, FinishTask, IncIdle,
         vars, ownerVars, clientVars, workerVars
  <1> QED BY <1>1, <1>2, PoolInvHolds, PTL DEF Spec

-----------------------------------------------------------------------------
(* Each task is in one place only.                                         *)

\* Inductiveness of OnePlace: pushing, popping and finishing move a task from
\* one place to the next and never copy it.
LEMMA NextKeepsOnePlace ==
  ASSUME PoolInv, OnePlace, [Next]_vars
  PROVE  OnePlace'
PROOF
  <1> USE PoolAssumption DEF PoolInv, TypeOK
  <1>1. CASE UNCHANGED <<fresh, ctask, tasks, cur>>
    BY <1>1 DEF OnePlace, OneExecutor
  <1>2. ASSUME NEW c \in Clients, NEW t \in Tasks, Commit(c, t)
        PROVE  OnePlace'
    BY <1>2 DEF OnePlace, OneExecutor, Commit, ownerVars, workerVars
  <1>3. ASSUME NEW c \in Clients, NEW t \in Tasks, CommitStopped(c, t)
        PROVE  OnePlace'
    BY <1>3 DEF OnePlace, OneExecutor, CommitStopped, ownerVars, workerVars
  <1>4. ASSUME NEW c \in Clients, CommitPush(c)
        PROVE  OnePlace'
    <2>1. ctask[c] \in Tasks
      BY <1>4 DEF CommitPush, HandOver
    <2>2. \A i \in DOMAIN tasks' : \/ i \in DOMAIN tasks /\ tasks'[i] = tasks[i]
                                   \/ i = Len(tasks) + 1 /\ tasks'[i] = ctask[c]
      BY <1>4, <2>1, PushFacts DEF CommitPush
    <2> QED BY <1>4, <2>1, <2>2 DEF OnePlace, OneExecutor, CommitPush, workerVars
  <1>5. ASSUME NEW w \in Workers, Take(w)
        PROVE  OnePlace'
    <2>1. /\ 1 \in DOMAIN tasks /\ Head(tasks) = tasks[1] /\ tasks[1] \in Tasks
          /\ \A i \in DOMAIN tasks' : /\ i \in Nat /\ i > 0
                                      /\ i + 1 \in DOMAIN tasks
                                      /\ tasks'[i] = tasks[i + 1]
      BY <1>5, PopFacts DEF Take
    <2> QED BY <1>5, <2>1 DEF OnePlace, OneExecutor, Take, WorkerGoes, clientVars
  <1>6. ASSUME NEW w \in Workers, FinishTask(w)
        PROVE  OnePlace'
    BY <1>6 DEF OnePlace, OneExecutor, FinishTask, WorkerGoes, clientVars
  <1> QED
    BY <1>1, <1>2, <1>3, <1>4, <1>5, <1>6 DEF Next, Owner, AddThread, CountIdle,
       Constructed, DtorStop, DtorNotifyAll, DtorDetach, Client, CommitLock,
       CommitNotify, Worker, WorkerStep, LoopTest, Acquire, Leave, DecideToWait,
       Block, SpuriousWake, DecIdle, IncIdle, vars, ownerVars, clientVars,
       workerVars

\* A task is never in two places at once.
THEOREM OnePlaceHolds == Spec => []OnePlace
PROOF
  <1>1. Init => OnePlace
    BY PoolAssumption DEF Init, OnePlace, OneExecutor
  <1>2. PoolInv /\ OnePlace /\ [Next]_vars => OnePlace'
    BY NextKeepsOnePlace
  <1> QED BY <1>1, <1>2, PoolInvHolds, PTL DEF Spec

\* Two workers never execute the same task (thread_pool.h:101-106).
THEOREM OneExecutorHolds == Spec => []OneExecutor
  BY OnePlaceHolds, PTL DEF OnePlace

-----------------------------------------------------------------------------
(* The pool implements TaskPool.                                           *)

LEMMA AbstractInit ==
  ASSUME Init
  PROVE  Abstract!Init
  BY DEF Init, Abstract!Init, Unsubmitted

\* Each step of the pool is a step of the abstract pool or leaves its state
\* unchanged: the push submits, a refused commit refuses, the pop starts, the
\* end of task() finishes, the destructor's write of _run closes.
LEMMA StepSimulation ==
  ASSUME PoolInv, OnePlace, [Next]_vars
  PROVE  [Abstract!Next]_(Abstract!vars)
PROOF
  <1> USE PoolAssumption DEF PoolInv, TypeOK
  <1>1. ASSUME UNCHANGED <<fresh, ctask, tasks, cur, run>>,
               \A c \in Clients : cpc'[c] \in {"lock", "push"} <=> cpc[c] \in {"lock", "push"}
        PROVE  UNCHANGED Abstract!vars
    BY <1>1 DEF Abstract!vars, Unsubmitted
  <1>2. ASSUME NEW c \in Clients, NEW t \in Tasks, Commit(c, t)
        PROVE  UNCHANGED Abstract!vars
    <2>1. ctask' = [ctask EXCEPT ![c] = t] /\ cpc' = [cpc EXCEPT ![c] = "lock"]
          /\ fresh' = fresh \ {t} /\ t \in fresh /\ cpc[c] = "idle"
      BY <1>2 DEF Commit
    <2>2. Unsubmitted' = Unsubmitted
      BY <2>1 DEF Unsubmitted
    <2> QED BY <1>2, <2>2 DEF Commit, Abstract!vars, workerVars
  <1>3. ASSUME NEW c \in Clients, NEW t \in Tasks, CommitStopped(c, t)
        PROVE  Abstract!Refuse(t)
    <2>1. Unsubmitted' = Unsubmitted \ {t} /\ t \in Unsubmitted
      BY <1>3 DEF CommitStopped, Unsubmitted, OnePlace, HandOver
    <2> QED BY <1>3, <2>1 DEF CommitStopped, Abstract!Refuse, workerVars
  <1>4. ASSUME NEW c \in Clients, CommitPush(c)
        PROVE  Abstract!Submit(ctask[c]) /\ ctask[c] \in Tasks
    <2>1. ctask[c] \in Tasks /\ run
      BY <1>4 DEF CommitPush, HandOver, ControlOK
    <2>2. Unsubmitted' = Unsubmitted \ {ctask[c]} /\ ctask[c] \in Unsubmitted
      BY <1>4, <2>1 DEF CommitPush, Unsubmitted, OnePlace, HandOver
    <2> QED BY <1>4, <2>1, <2>2 DEF CommitPush, Abstract!Submit, workerVars
  <1>5. ASSUME NEW w \in Workers, Take(w)
        PROVE  Abstract!Start(w)
    <2>1. cur[w] = NoTask
      BY <1>5 DEF Take, WorkerGoes, HandOver
    <2> QED BY <1>5, <2>1 DEF Take, Abstract!Start, clientVars, Unsubmitted
  <1>6. ASSUME NEW w \in Workers, FinishTask(w)
        PROVE  Abstract!Finish(w)
    BY <1>6 DEF FinishTask, WorkerGoes, HandOver, Abstract!Finish, clientVars, Unsubmitted
  <1>7. CASE DtorStop
    BY <1>7 DEF DtorStop, ControlOK, Abstract!Close, Abstract!Next, clientVars,
       workerVars, Unsubmitted
  <1>8. CASE UNCHANGED vars
    BY <1>1, <1>8 DEF vars
  <1>9. ASSUME NEW c \in Clients, CommitLock(c) \/ CommitNotify(c)
        PROVE  UNCHANGED Abstract!vars
    BY <1>1, <1>9 DEF CommitLock, CommitNotify, ownerVars, workerVars
  <1>10. CASE AddThread \/ CountIdle \/ Constructed \/ DtorNotifyAll \/ DtorDetach
    BY <1>1, <1>10 DEF AddThread, CountIdle, Constructed, DtorNotifyAll,
       DtorDetach, clientVars, workerVars
  <1>11. ASSUME NEW w \in Workers,
                LoopTest(w) \/ Acquire(w) \/ Leave(w) \/ DecideToWait(w)
                \/ Block(w) \/ SpuriousWake(w) \/ DecIdle(w) \/ IncIdle(w)
         PROVE  UNCHANGED Abstract!vars
    BY <1>1, <1>11 DEF LoopTest, Acquire, Leave, DecideToWait, Block,
       SpuriousWake, DecIdle, IncIdle, clientVars
  <1> QED
    BY <1>2, <1>3, <1>4, <1>5, <1>6, <1>7, <1>8, <1>9, <1>10, <1>11
       DEF Next, Owner, Client, Worker, WorkerStep, Abstract!Next

\* Every behaviour of the pool is a behaviour of the abstract pool.
THEOREM Refinement == Spec => ImplementsTaskPool
PROOF
  <1>1. Init => Abstract!Init
    BY AbstractInit
  <1>2. PoolInv /\ OnePlace /\ [Next]_vars => [Abstract!Next]_(Abstract!vars)
    BY StepSimulation
  <1> QED
    BY <1>1, <1>2, PoolInvHolds, OnePlaceHolds, PTL
       DEF Spec, ImplementsTaskPool, Abstract!Spec

-----------------------------------------------------------------------------
(* Counting threads.                                                       *)

LEMMA CountFacts ==
  ASSUME NEW S, IsFiniteSet(S), NEW x
  PROVE  /\ Cardinality(S) \in Nat
         /\ Cardinality(S) = 0 <=> S = {}
         /\ x \notin S => Cardinality(S \cup {x}) = Cardinality(S) + 1
         /\ x \in S => Cardinality(S \ {x}) = Cardinality(S) - 1
  BY FS_CardinalityType, FS_EmptySet, FS_AddElement, FS_RemoveElement

LEMMA FiniteThreads ==
  /\ \A S \in SUBSET Workers : IsFiniteSet(S)
  /\ \A S \in SUBSET Clients : IsFiniteSet(S)
PROOF
  <1>1. IsFiniteSet(Workers)
    BY PoolAssumption, FS_Interval DEF Workers
  <1>2. IsFiniteSet(Clients)
    BY PoolAssumption
  <1> QED BY <1>1, <1>2, FS_Subset

\* Until the constructor returns nobody can commit, so no worker has a task.
NothingYet ==
  opc \in {"add", "count"} =>
    /\ tasks = <<>>
    /\ \A w \in Workers : wpc[w] \notin {"dec", "run", "inc"}

LEMMA NothingYetHolds == Spec => []NothingYet
PROOF
  <1>1. Init => NothingYet
    BY DEF Init, NothingYet
  <1>2. ASSUME PoolInv, NothingYet, [Next]_vars
        PROVE  NothingYet'
    <2> USE <1>2 DEF PoolInv, TypeOK, ControlOK, NothingYet
    <2>1. CASE Owner
      BY <2>1 DEF Owner, AddThread, CountIdle, Constructed, DtorStop,
         DtorNotifyAll, DtorDetach, workerVars, OwnerPC
    <2>2. ASSUME NEW c \in Clients, Client(c)
          PROVE  NothingYet'
      BY <2>2 DEF Client, Commit, CommitStopped, CommitLock, CommitPush,
         CommitNotify, Exists, ownerVars, workerVars
    <2>3. ASSUME NEW w \in Workers, Worker(w)
          PROVE  NothingYet'
      BY <2>3 DEF Worker, WorkerStep, LoopTest, Acquire, Take, Leave,
         DecideToWait, Block, SpuriousWake, DecIdle, FinishTask, IncIdle,
         WorkerGoes, ownerVars
    <2>4. CASE UNCHANGED vars
      BY <2>4 DEF vars
    <2> QED BY <2>1, <2>2, <2>3, <2>4 DEF Next
  <1> QED BY <1>1, <1>2, PoolInvHolds, PTL DEF Spec

IdleCount ==
  idlThrNum = pool - (IF opc = "count" THEN 1 ELSE 0) - Cardinality(Busy)

LEMMA NextKeepsIdleCount ==
  ASSUME PoolInv, IdleCount, [Next]_vars
  PROVE  IdleCount'
PROOF
  <1> USE PoolAssumption DEF PoolInv, TypeOK
  <1>0. pool \in Nat /\ idlThrNum \in Int /\ IsFiniteSet(Busy) /\ Cardinality(Busy) \in Nat
    <2>1. IsFiniteSet(Busy)
      BY FiniteThreads, Zenon DEF Busy
    <2>2. Cardinality(Busy) \in Nat
      BY <2>1, FS_CardinalityType
    <2> QED BY <2>1, <2>2
  <1>1. ASSUME UNCHANGED <<idlThrNum, pool>>, opc # "count", opc' # "count", Busy' = Busy
        PROVE  IdleCount'
    BY <1>1 DEF IdleCount
  <1>2. ASSUME UNCHANGED <<idlThrNum, pool, opc>>, Busy' = Busy
        PROVE  IdleCount'
    BY <1>2 DEF IdleCount
  <1>3. CASE AddThread
    <2>1. pool + 1 \in Workers /\ wpc[pool + 1] = "none"
      BY <1>3, <1>0 DEF AddThread, ControlOK, Workers
    <2>2. Busy' = Busy
      BY <1>3, <2>1 DEF AddThread, Busy
    <2> QED BY <1>3, <1>0, <2>2 DEF AddThread, IdleCount
  <1>4. CASE CountIdle
    <2>1. Busy' = Busy
      BY <1>4 DEF CountIdle, Busy, workerVars
    <2> QED BY <1>4, <1>0, <2>1 DEF CountIdle, IdleCount
  <1>5. CASE Constructed \/ DtorStop \/ DtorNotifyAll \/ DtorDetach
    BY <1>5, <1>1 DEF Constructed, DtorStop, DtorNotifyAll, DtorDetach, Busy,
       workerVars
  <1>6. ASSUME NEW c \in Clients, Client(c)
        PROVE  IdleCount'
    <2>1. UNCHANGED <<idlThrNum, pool, opc>>
      BY <1>6 DEF Client, Commit, CommitStopped, CommitLock, CommitPush,
         CommitNotify, ownerVars
    <2>2. Busy' = Busy
      BY <1>6 DEF Client, Commit, CommitStopped, CommitLock, CommitPush,
         CommitNotify, workerVars, Busy
    <2> QED BY <1>2, <2>1, <2>2
  <1>7. ASSUME NEW w \in Workers, DecIdle(w)
        PROVE  IdleCount'
    <2>1. Busy' = Busy \cup {w} /\ w \notin Busy
      BY <1>7 DEF DecIdle, WorkerGoes, Busy
    <2>2. Cardinality(Busy') = Cardinality(Busy) + 1
      BY <1>0, <2>1, CountFacts
    <2> QED BY <1>7, <1>0, <2>2 DEF DecIdle, IdleCount, ownerVars
  <1>8. ASSUME NEW w \in Workers, IncIdle(w)
        PROVE  IdleCount'
    <2>1. Busy' = Busy \ {w} /\ w \in Busy
      BY <1>8 DEF IncIdle, WorkerGoes, Busy
    <2>2. Cardinality(Busy') = Cardinality(Busy) - 1
      BY <1>0, <2>1, CountFacts
    <2> QED BY <1>8, <1>0, <2>2 DEF IncIdle, IdleCount, ownerVars
  <1>9. ASSUME NEW w \in Workers,
               LoopTest(w) \/ Acquire(w) \/ Take(w) \/ Leave(w) \/ DecideToWait(w)
               \/ Block(w) \/ SpuriousWake(w) \/ FinishTask(w)
        PROVE  IdleCount'
    <2>1. UNCHANGED <<idlThrNum, pool, opc>>
      BY <1>9 DEF LoopTest, Acquire, Take, Leave, DecideToWait, Block,
         SpuriousWake, FinishTask, ownerVars
    <2>2. Busy' = Busy
      BY <1>9 DEF LoopTest, Acquire, Take, Leave, DecideToWait, Block,
         SpuriousWake, FinishTask, WorkerGoes, Busy
    <2> QED BY <1>2, <2>1, <2>2
  <1>10. CASE UNCHANGED vars
    BY <1>2, <1>10 DEF vars, Busy
  <1> QED
    BY <1>3, <1>4, <1>5, <1>6, <1>7, <1>8, <1>9, <1>10
       DEF Next, Owner, Worker, WorkerStep

\* The idle counter is exact in every reachable state, never negative
\* (thread_pool.h:105-107, 110).
THEOREM IdleAccurateHolds == Spec => []IdleAccurate
PROOF
  <1>1. Init => IdleCount
    <2>1. Init => Busy = {}
      BY DEF Init, Busy
    <2> QED BY <2>1, FS_EmptySet DEF Init, IdleCount
  <1>2. PoolInv /\ IdleCount /\ [Next]_vars => IdleCount'
    BY NextKeepsIdleCount
  <1>3. ASSUME PoolInv, NothingYet, IdleCount
        PROVE  IdleAccurate
    <2>1. pool \in Nat
      BY <1>3, PoolAssumption DEF PoolInv, TypeOK
    <2>2. Busy \subseteq 1..pool
      BY <1>3, PoolAssumption DEF PoolInv, ControlOK, TypeOK, Busy, Workers
    <2>3. IsFiniteSet(1..pool) /\ Cardinality(1..pool) = pool
      BY <2>1, FS_Interval
    <2>4. Cardinality(Busy) \in Nat /\ Cardinality(Busy) <= pool
      BY <2>2, <2>3, FS_Subset, FS_CardinalityType
    <2>5. opc = "count" => Cardinality(Busy) = 0 /\ pool > 0
      BY <1>3, FS_EmptySet DEF NothingYet, Busy, PoolInv, ControlOK
    <2> QED BY <1>3, <2>1, <2>4, <2>5 DEF IdleCount, IdleAccurate
  <1> QED BY <1>1, <1>2, <1>3, PoolInvHolds, NothingYetHolds, PTL DEF Spec

-----------------------------------------------------------------------------
(* No wake-up is lost while the pool runs.                                 *)

LEMMA NextKeepsNoLostWakeup ==
  ASSUME PoolInv, NoLostWakeup, [Next]_vars
  PROVE  NoLostWakeup'
PROOF
  <1> USE PoolAssumption DEF PoolInv, TypeOK
  <1>0. /\ IsFiniteSet(Awake) /\ IsFiniteSet(Awake') /\ IsFiniteSet(Notifying)
        /\ Cardinality(Awake) \in Nat /\ Cardinality(Awake') \in Nat
        /\ Cardinality(Notifying) \in Nat /\ Len(tasks) \in Nat
    <2>1. IsFiniteSet(Awake) /\ IsFiniteSet(Awake') /\ IsFiniteSet(Notifying)
      BY FiniteThreads, Zenon DEF Awake, Notifying
    <2> QED BY <2>1, FS_CardinalityType
  <1>1. ASSUME UNCHANGED <<run, tasks, cpc>>, Waiting' \subseteq Waiting,
               Awake' = Awake \/ \E w : w \notin Awake /\ Awake' = Awake \cup {w}
        PROVE  NoLostWakeup'
    <2>1. Cardinality(Awake) <= Cardinality(Awake')
      <3>1. CASE Awake' = Awake
        BY <1>0, <3>1
      <3>2. ASSUME NEW w, w \notin Awake, Awake' = Awake \cup {w}
            PROVE  Cardinality(Awake') = Cardinality(Awake) + 1
        BY <1>0, <3>2, CountFacts
      <3> QED BY <1>0, <1>1, <3>1, <3>2
    <2>2. Notifying' = Notifying
      BY <1>1 DEF Notifying
    <2> QED BY <1>0, <1>1, <2>1, <2>2 DEF NoLostWakeup
  <1>2. ASSUME run' = FALSE \/ tasks' = <<>>
        PROVE  NoLostWakeup'
    <2>1. Cardinality(Notifying') \in Nat
      <3>1. IsFiniteSet(Notifying')
        BY FiniteThreads, Zenon DEF Notifying
      <3> QED BY <3>1, FS_CardinalityType
    <2> QED BY <1>0, <1>2, <2>1 DEF NoLostWakeup
  <1>3. CASE AddThread
    <2>1. pool + 1 \in Workers /\ wpc[pool + 1] = "none"
      BY <1>3 DEF AddThread, ControlOK, Workers
    <2>2. /\ Waiting' \subseteq Waiting
          /\ pool + 1 \notin Awake /\ Awake' = Awake \cup {pool + 1}
      BY <1>3, <2>1 DEF AddThread, Waiting, Awake
    <2> QED BY <1>1, <1>3, <2>2 DEF AddThread, clientVars
  <1>4. CASE CountIdle \/ Constructed
    BY <1>1, <1>4 DEF CountIdle, Constructed, clientVars, workerVars, Waiting, Awake
  <1>5. CASE DtorStop \/ DtorNotifyAll \/ DtorDetach
    BY <1>2, <1>5 DEF DtorStop, DtorNotifyAll, DtorDetach, ControlOK
  <1>6. ASSUME NEW c \in Clients,
               CommitLock(c) \/ \E t \in Tasks : Commit(c, t) \/ CommitStopped(c, t)
        PROVE  NoLostWakeup'
    <2>1. Notifying' = Notifying /\ Awake' = Awake /\ Waiting' = Waiting
      BY <1>6 DEF CommitLock, Commit, CommitStopped, workerVars, Notifying, Awake,
         Waiting
    <2> QED BY <1>6, <2>1 DEF CommitLock, Commit, CommitStopped, NoLostWakeup
  <1>7. ASSUME NEW c \in Clients, CommitPush(c)
        PROVE  NoLostWakeup'
    <2>1. Len(tasks') = Len(tasks) + 1
      BY <1>7, PushFacts DEF CommitPush, HandOver
    <2>2. Notifying' = Notifying \cup {c} /\ c \notin Notifying
      BY <1>7 DEF CommitPush, Notifying
    <2>3. Cardinality(Notifying') = Cardinality(Notifying) + 1
      BY <1>0, <2>2, CountFacts
    <2>4. Awake' = Awake /\ Waiting' = Waiting
      BY <1>7 DEF CommitPush, workerVars, Awake, Waiting
    <2> QED BY <1>0, <1>7, <2>1, <2>3, <2>4 DEF CommitPush, NoLostWakeup
  <1>8. ASSUME NEW c \in Clients, CommitNotify(c)
        PROVE  NoLostWakeup'
    <2>1. Notifying' = Notifying \ {c} /\ c \in Notifying
      BY <1>8 DEF CommitNotify, Notifying
    <2>2. Cardinality(Notifying') = Cardinality(Notifying) - 1
      BY <1>0, <2>1, CountFacts
    <2>3. CASE \A w \in Workers : wpc[w] # "waiting"
      <3>1. Waiting' = {}
        BY <1>8, <2>3 DEF CommitNotify, Waiting
      <3> QED BY <3>1 DEF NoLostWakeup
    <2>4. ASSUME NEW w \in Workers, wpc[w] = "waiting", wpc' = [wpc EXCEPT ![w] = "wake"]
          PROVE  NoLostWakeup'
      <3>1. /\ w \in Waiting /\ Waiting' = Waiting \ {w}
            /\ w \notin Awake /\ Awake' = Awake \cup {w}
        BY <2>4 DEF Waiting, Awake
      <3>2. Cardinality(Awake') = Cardinality(Awake) + 1
        BY <1>0, <3>1, CountFacts
      <3> QED BY <1>0, <1>8, <2>2, <3>1, <3>2 DEF CommitNotify, NoLostWakeup
    <2> QED BY <1>8, <2>3, <2>4 DEF CommitNotify
  <1>9. ASSUME NEW w \in Workers, LoopTest(w)
        PROVE  NoLostWakeup'
    <2>1. CASE run
      BY <1>1, <1>9, <2>1 DEF LoopTest, WorkerGoes, clientVars, Awake, Waiting
    <2>2. CASE ~run
      BY <1>2, <1>9, <2>2 DEF LoopTest
    <2> QED BY <2>1, <2>2
  <1>10. ASSUME NEW w \in Workers, Take(w)
         PROVE  NoLostWakeup'
    <2>1. Len(tasks') = Len(tasks) - 1
      BY <1>10, PopFacts DEF Take
    <2>2. w \in Awake /\ Awake' = Awake \ {w} /\ Waiting' = Waiting
      BY <1>10 DEF Take, WorkerGoes, Awake, Waiting
    <2>3. Cardinality(Awake') = Cardinality(Awake) - 1
      BY <1>0, <2>2, CountFacts
    <2>4. Notifying' = Notifying
      BY <1>10 DEF Take, clientVars, Notifying
    <2> QED BY <1>0, <1>10, <2>1, <2>2, <2>3, <2>4 DEF Take, NoLostWakeup
  <1>11. ASSUME NEW w \in Workers, Leave(w) \/ DecideToWait(w) \/ Block(w)
         PROVE  NoLostWakeup'
    BY <1>2, <1>11 DEF Leave, DecideToWait, Block, WorkerGoes, LockOK
  <1>12. ASSUME NEW w \in Workers,
                Acquire(w) \/ SpuriousWake(w) \/ DecIdle(w) \/ FinishTask(w) \/ IncIdle(w)
         PROVE  NoLostWakeup'
    <2>1. UNCHANGED <<run, tasks, cpc>>
      BY <1>12 DEF Acquire, SpuriousWake, DecIdle, FinishTask, IncIdle, clientVars
    <2>2. Waiting' \subseteq Waiting
      BY <1>12 DEF Acquire, SpuriousWake, DecIdle, FinishTask, IncIdle, WorkerGoes,
         Waiting
    <2>3. Awake' = Awake \/ (w \notin Awake /\ Awake' = Awake \cup {w})
      BY <1>12 DEF Acquire, SpuriousWake, DecIdle, FinishTask, IncIdle, WorkerGoes,
         Awake
    <2> QED BY <1>1, <2>1, <2>2, <2>3
  <1>13. CASE UNCHANGED vars
    BY <1>1, <1>13 DEF vars, Waiting, Awake
  <1> QED
    BY <1>3, <1>4, <1>5, <1>6, <1>7, <1>8, <1>9, <1>10, <1>11, <1>12, <1>13
       DEF Next, Owner, Client, Worker, WorkerStep

\* While the pool runs, a blocked worker never sleeps over a task that nobody
\* else is on the way to (thread_pool.h:63-73 against 96-99).
THEOREM NoLostWakeupHolds == Spec => []NoLostWakeup
PROOF
  <1>1. Init => NoLostWakeup
    BY DEF Init, NoLostWakeup, Waiting
  <1>2. PoolInv /\ NoLostWakeup /\ [Next]_vars => NoLostWakeup'
    BY NextKeepsNoLostWakeup
  <1> QED BY <1>1, <1>2, PoolInvHolds, PTL DEF Spec

-----------------------------------------------------------------------------
(* What the destructor's notification can miss.                            *)

LEMMA NextKeepsStrands ==
  ASSUME PoolInv, DtorStrandsAtMostOne, [Next]_vars
  PROVE  DtorStrandsAtMostOne'
PROOF
  <1> USE PoolAssumption DEF PoolInv, TypeOK, ControlOK, LockOK, DtorStrandsAtMostOne
  <1>1. CASE DtorNotifyAll
    BY <1>1 DEF DtorNotifyAll
  <1>2. CASE AddThread \/ CountIdle \/ Constructed \/ DtorStop \/ DtorDetach
    BY <1>2 DEF AddThread, CountIdle, Constructed, DtorStop, DtorDetach, workerVars
  <1>3. ASSUME NEW c \in Clients, Client(c)
        PROVE  DtorStrandsAtMostOne'
    BY <1>3 DEF Client, Commit, CommitStopped, CommitLock, CommitPush,
       CommitNotify, ownerVars, workerVars
  <1>4. ASSUME NEW w \in Workers, DecideToWait(w)
        PROVE  DtorStrandsAtMostOne'
    BY <1>4 DEF DecideToWait, ownerVars
  <1>5. ASSUME NEW w \in Workers,
               LoopTest(w) \/ Acquire(w) \/ Take(w) \/ Leave(w) \/ Block(w)
               \/ SpuriousWake(w) \/ DecIdle(w) \/ FinishTask(w) \/ IncIdle(w)
        PROVE  DtorStrandsAtMostOne'
    BY <1>5 DEF LoopTest, Acquire, Take, Leave, Block, SpuriousWake, DecIdle,
       FinishTask, IncIdle, WorkerGoes, ownerVars
  <1>6. CASE UNCHANGED vars
    BY <1>6 DEF vars
  <1> QED
    BY <1>1, <1>2, <1>3, <1>4, <1>5, <1>6 DEF Next, Owner, Worker, WorkerStep

\* After the destructor's notify_all at most one worker is still going to sleep
\* (thread_pool.h:33-34 against 97-99).
THEOREM DtorStrandsAtMostOneHolds == Spec => []DtorStrandsAtMostOne
PROOF
  <1>1. Init => DtorStrandsAtMostOne
    BY DEF Init, DtorStrandsAtMostOne
  <1>2. PoolInv /\ DtorStrandsAtMostOne /\ [Next]_vars => DtorStrandsAtMostOne'
    BY NextKeepsStrands
  <1> QED BY <1>1, <1>2, PoolInvHolds, PTL DEF Spec
=============================================================================
