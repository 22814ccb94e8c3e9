---------------------------- MODULE ProxyService ----------------------------
(***************************************************************************)
(* The life of the proxy process: main, fileCacheProxy::init, startService,*)
(* the signal handler, and the destruction of the singleton by Garbo.      *)
(*                                                                         *)
(* Threads: the main thread, and the threads of the pool, each of which    *)
(* executes event_base_dispatch of one loop.  The pool is the abstract one *)
(* (TaskPool, which ThreadPool implements): a task is the index of a loop. *)
(* A termination signal may be delivered to any thread at any step and     *)
(* suspends it.  There are four of them, and a thread that runs the handler*)
(* masks only the one that it handles, so that handlers nest.              *)
(*                                                                         *)
(* The code logs through one spdlog logger whose mutex is not recursive.   *)
(* Every log call, of the main thread and of the handler, takes the mutex  *)
(* in one step and gives it back in another.                               *)
(***************************************************************************)
EXTENDS Integers, Sequences, FiniteSets, Functions

CONSTANTS
  ThreadCount,          \* number of event loops, from the configuration
  THREADPOOL_MAX_NUM,   \* of thread_pool.h
  MAX_CONNECTION_TEST,  \* attempts to reach a tracker
  ConnectOutcomes,      \* what tracker_get_connection_r may do
  NumSignals,           \* signals that main installs the handler for
  MaxSignals,           \* bound on the signals delivered
  Main,                 \* the main thread
  NoLoop                \* a pool thread that executes nothing

Loops == 0..(ThreadCount - 1)

\* Mutant of PoolSize: one thread too few.
BugPoolTooSmall ==
  LET asked == ThreadCount % 65536
  IN  (IF asked < THREADPOOL_MAX_NUM THEN asked ELSE THREADPOOL_MAX_NUM) - 1

\* new std::threadpool(ThreadCount): the parameter is an unsigned short and
\* the pool does not grow past its limit.
PoolSize ==
  LET asked == ThreadCount % 65536
  IN  IF asked < THREADPOOL_MAX_NUM THEN asked ELSE THREADPOOL_MAX_NUM
PoolThreads == 1..PoolSize
Threads == {Main} \cup PoolThreads

\* What a call of tracker_get_connection_r leaves behind: a connection, no
\* connection although info->count was filled in, or nothing at all.
Outcomes == {"connected", "nullCounted", "nullEmpty"}

ASSUME ServiceAssumption ==
  /\ ThreadCount \in Nat \ {0}
  /\ THREADPOOL_MAX_NUM \in Nat \ {0}
  /\ MAX_CONNECTION_TEST \in Nat \ {0}
  /\ NumSignals \in Nat \ {0} /\ MaxSignals \in Nat
  /\ ConnectOutcomes \subseteq Outcomes
  /\ Main \notin Int
  /\ NoLoop \notin Int

VARIABLES
  mpc,        \* where the main thread is
  logging,    \* the main thread's call of the logger, if any
  isReady,    \* the flag polled by startService
  logger,     \* m_fc_rotating_logger is set
  listenfd,   \* the listening socket
  pool,       \* mThreadPool
  fdfs,       \* the FastDFS client library
  instance,   \* _Instance is not nullptr
  i,          \* loop variable of startService
  testNum,    \* attempts made for loop i
  conn,       \* conn[k]: connectResult of loop k
  base,       \* base[k]: the event_base of loop k
  http,       \* http[k]: the evhttp of loop k
  params,     \* threadParams, as loop indices
  del,        \* threadParams deleted so far
  brk,        \* brk[k]: event_base_loopbreak was called
  lpc,        \* lpc[k]: what event_base_dispatch of loop k is doing
  hpc,        \* hpc[t]: the signal handlers that t is in, the innermost last
  nsig,       \* signals delivered
  fresh, queue, slot, accepting   \* state of the pool (TaskPool)

mainVars == <<mpc, logging>>
initVars == <<logger, listenfd, pool, fdfs, instance>>
loopVars == <<i, testNum, conn, base, http, params, del, brk>>
poolVars == <<fresh, queue, slot, accepting>>
sigVars  == <<hpc, nsig>>
vars == <<mpc, logging, isReady, logger, listenfd, pool, fdfs, instance, i,
          testNum, conn, base, http, params, del, brk, lpc, hpc, nsig, fresh,
          queue, slot, accepting>>

Pool == INSTANCE TaskPool WITH Tasks <- Loops, Slots <- PoolThreads, NoTask <- NoLoop

\* main has installed the handlers; the constructor of the singleton ran
\* before main and left listenfd and mThreadPool without a value.
Init ==
  /\ mpc = "start" /\ logging = "no"
  /\ isReady = FALSE
  /\ logger = FALSE /\ listenfd = "unset" /\ pool = "unset" /\ fdfs = "unset"
  /\ instance = TRUE
  /\ i = 0 /\ testNum = 0
  /\ conn = [k \in Loops |-> "none"]
  /\ base = [k \in Loops |-> "none"]
  /\ http = [k \in Loops |-> "none"]
  /\ params = <<>> /\ del = 0
  /\ brk = [k \in Loops |-> FALSE]
  /\ lpc = [k \in Loops |-> "none"]
  /\ hpc = [t \in Threads |-> <<>>]
  /\ nsig = 0
  /\ Pool!Init

Alive == mpc \notin {"gone", "crashed"}

\* Where a handler has the logger's mutex, and who else may have it.
InLogger == {"log1in", "log2in"}
Held ==
  \/ logging = "in"
  \/ \E t \in Threads : \E n \in DOMAIN hpc[t] : hpc[t][n] \in InLogger

\* The main thread is at a step of its own: not in a handler, not in a log call.
At(label) == mpc = label /\ hpc[Main] = <<>> /\ logging = "no"
GoTo(label) == mpc' = label /\ logging' = "no"
LogThenGoTo(label) == mpc' = label /\ logging' = "want"

\* A log call of the main thread takes the mutex ...
LogAcquire ==
  /\ Alive
  /\ logging = "want" /\ hpc[Main] = <<>>
  /\ ~Held
  /\ logging' = "in"
  /\ UNCHANGED <<mpc, isReady, initVars, loopVars, lpc, sigVars, poolVars>>

\* ... and returns.
LogDone ==
  /\ Alive
  /\ logging = "in" /\ hpc[Main] = <<>>
  /\ logging' = "no"
  /\ UNCHANGED <<mpc, isReady, initVars, loopVars, lpc, sigVars, poolVars>>

-----------------------------------------------------------------------------
(* fileCacheProxy::init.                                                   *)

\* Steps 1 and 2: directories, then the logger.  rotating_logger_mt throws if it
\* cannot open the file; nobody catches the exception and the process aborts.
InitLogger ==
  /\ At("start")
  /\ \/ logger' = TRUE /\ LogThenGoTo("config")
     \/ logger' = FALSE /\ GoTo("crashed")
  /\ UNCHANGED <<isReady, listenfd, pool, fdfs, instance, loopVars, lpc, sigVars,
                 poolVars>>

\* Step 3: read the configuration; every item that cannot be used ends init.
\* Config::Load does not return from a line that is longer than its buffer.
LoadConfig ==
  /\ At("config")
  /\ \/ LogThenGoTo("socket")
     \/ LogThenGoTo("failed")
     \/ GoTo("looping")
  /\ UNCHANGED <<isReady, initVars, loopVars, lpc, sigVars, poolVars>>

\* Step 4: socket() may fail; so may setsockopt, bind or listen, with the
\* descriptor open.
BindSocket ==
  /\ At("socket")
  /\ \/ listenfd' = "open" /\ GoTo("pool")
     \/ listenfd' \in {"invalid", "open"} /\ LogThenGoTo("failed")
  /\ UNCHANGED <<isReady, logger, pool, fdfs, instance, loopVars, lpc, sigVars,
                 poolVars>>

\* Step 5: the threads of the pool exist from here on.  std::thread throws if
\* the system has none left, and nobody catches it.
CreatePool ==
  /\ At("pool")
  /\ \/ pool' = "live" /\ GoTo("fdfs")
     \/ pool' = pool /\ GoTo("crashed")
  /\ UNCHANGED <<isReady, logger, listenfd, fdfs, instance, loopVars, lpc,
                 sigVars, poolVars>>

\* Mutant of InitFdfs: a failure of fdfs_client_init does not end init.
BugIgnoreFdfs ==
  /\ At("fdfs")
  /\ fdfs' \in {"up", "unset"}
  /\ isReady' = TRUE
  /\ GoTo("serve")
  /\ UNCHANGED <<logger, listenfd, pool, instance, loopVars, lpc, sigVars, poolVars>>

\* Step 6 and the end of init.
InitFdfs ==
  /\ At("fdfs")
  /\ \/ fdfs' = "up" /\ isReady' = TRUE /\ GoTo("serve")
     \/ LogThenGoTo("failed") /\ UNCHANGED <<fdfs, isReady>>
  /\ UNCHANGED <<logger, listenfd, pool, instance, loopVars, lpc, sigVars, poolVars>>

\* Mutant of InitFailed: main calls init again.
BugRetryInit ==
  /\ At("failed")
  /\ GoTo("config")
  /\ UNCHANGED <<isReady, initVars, loopVars, lpc, sigVars, poolVars>>

\* main: init returned an error, return 0; static destruction follows.
InitFailed ==
  /\ At("failed")
  /\ GoTo("param")
  /\ UNCHANGED <<isReady, initVars, loopVars, lpc, sigVars, poolVars>>

-----------------------------------------------------------------------------
(* fileCacheProxy::startService.                                           *)

StartService ==
  /\ At("serve")
  /\ GoTo(IF isReady THEN "loop" ELSE "param")
  /\ UNCHANGED <<isReady, initVars, loopVars, lpc, sigVars, poolVars>>

\* for (...; ThreadCount > i; ...)
BeginLoop ==
  /\ At("loop")
  /\ GoTo(IF ThreadCount > i THEN "connect" ELSE "wait")
  /\ testNum' = 0
  /\ UNCHANGED <<isReady, initVars, i, conn, base, http, params, del, brk, lpc,
                 sigVars, poolVars>>

\* continue
NextLoop == i' = i + 1 /\ GoTo("loop")

\* Mutant of Connect: one attempt too many.
BugOneTestMore ==
  /\ At("connect")
  /\ testNum <= MAX_CONNECTION_TEST
  /\ \E o \in ConnectOutcomes :
       /\ conn' = [conn EXCEPT ![i] = IF o = "connected" THEN "open" ELSE "null"]
       /\ IF o = "nullEmpty"
          THEN testNum' = testNum + 1 /\ LogThenGoTo("connect")
          ELSE testNum' = testNum /\ GoTo("evbase")
  /\ UNCHANGED <<isReady, initVars, i, base, http, params, del, brk, lpc, sigVars,
                 poolVars>>

\* One iteration of the connection loop.  It ends when info->count > 0; the
\* pointer that the call returned is not looked at.
Connect ==
  /\ At("connect")
  /\ testNum < MAX_CONNECTION_TEST
  /\ \E o \in ConnectOutcomes :
       /\ conn' = [conn EXCEPT ![i] = IF o = "connected" THEN "open" ELSE "null"]
       /\ IF o = "nullEmpty"
          THEN testNum' = testNum + 1 /\ LogThenGoTo("connect")
          ELSE testNum' = testNum /\ GoTo("evbase")
  /\ UNCHANGED <<isReady, initVars, i, base, http, params, del, brk, lpc, sigVars,
                 poolVars>>

GiveUp ==
  /\ At("connect")
  /\ testNum >= MAX_CONNECTION_TEST
  /\ NextLoop
  /\ UNCHANGED <<isReady, initVars, testNum, conn, base, http, params, del, brk,
                 lpc, sigVars, poolVars>>

NewBase ==
  /\ At("evbase")
  /\ \/ base' = [base EXCEPT ![i] = "live"] /\ GoTo("evhttp") /\ i' = i
     \/ base' = base /\ NextLoop
  /\ UNCHANGED <<isReady, initVars, testNum, conn, http, params, del, brk, lpc,
                 sigVars, poolVars>>

\* Mutant of NewHttp: the base is not freed when evhttp_new fails.
BugLeakBase ==
  /\ At("evhttp")
  /\ \/ http' = [http EXCEPT ![i] = "live"] /\ base' = base /\ GoTo("accept") /\ i' = i
     \/ base' = base /\ http' = http /\ NextLoop
  /\ UNCHANGED <<isReady, initVars, testNum, conn, params, del, brk, lpc, sigVars,
                 poolVars>>

NewHttp ==
  /\ At("evhttp")
  /\ \/ http' = [http EXCEPT ![i] = "live"] /\ base' = base /\ GoTo("accept") /\ i' = i
     \/ base' = [base EXCEPT ![i] = "freed"] /\ http' = http /\ NextLoop
  /\ UNCHANGED <<isReady, initVars, testNum, conn, params, del, brk, lpc, sigVars,
                 poolVars>>

\* A failure ends startService (ERR_EV_NEW, which main ignores).
AcceptSocket ==
  /\ At("accept")
  /\ \/ GoTo("commit") /\ UNCHANGED <<base, http>>
     \/ /\ http' = [http EXCEPT ![i] = "freed"]
        /\ base' = [base EXCEPT ![i] = "freed"]
        /\ GoTo("param")
  /\ UNCHANGED <<isReady, initVars, i, testNum, conn, params, del, brk, lpc,
                 sigVars, poolVars>>

\* new threadParam, push_back, the callbacks, and commit to the pool.
CommitLoop ==
  /\ At("commit")
  /\ params' = Append(params, i)
  /\ Pool!Submit(i)
  /\ NextLoop
  /\ UNCHANGED <<isReady, initVars, testNum, conn, base, http, del, brk, lpc,
                 sigVars>>

\* while (isReady) sleep; then log "Service exited." and return to main.
ServiceExits ==
  /\ At("wait")
  /\ ~isReady
  /\ LogThenGoTo("param")
  /\ UNCHANGED <<isReady, initVars, loopVars, lpc, sigVars, poolVars>>

-----------------------------------------------------------------------------
(* Static destruction: ~Garbo, ~fileCacheProxy, ~threadParam.              *)

Deleting == params[del + 1]

\* Mutant of DeleteParam: it waits for the loop's thread first (the get() that
\* is commented out), before the loop is told to break.
BugWaitForLoop ==
  /\ At("param")
  /\ del < Len(params)
  /\ lpc[Deleting] \in {"none", "done"}
  /\ conn' = [conn EXCEPT ![Deleting] = "closed"]
  /\ GoTo("break")
  /\ UNCHANGED <<isReady, initVars, i, testNum, base, http, params, del, brk, lpc,
                 sigVars, poolVars>>

\* ~threadParam: close the tracker connection, delete info.  A connection that
\* is nullptr is closed all the same, which may crash.
DeleteParam ==
  /\ At("param")
  /\ del < Len(params)
  /\ conn' = [conn EXCEPT ![Deleting] = "closed"]
  /\ GoTo("break") \/ (conn[Deleting] = "null" /\ GoTo("crashed"))
  /\ UNCHANGED <<isReady, initVars, i, testNum, base, http, params, del, brk, lpc,
                 sigVars, poolVars>>

\* event_base_loopbreak: the flag is set; a thread that sleeps in the loop is
\* not woken (no evthread_use_pthreads).
LoopBreak ==
  /\ At("break")
  /\ brk' = [brk EXCEPT ![Deleting] = TRUE]
  /\ GoTo("freehttp")
  /\ UNCHANGED <<isReady, initVars, i, testNum, conn, base, http, params, del, lpc,
                 sigVars, poolVars>>

\* evhttp_free also closes the socket that the evhttp accepts on, which all
\* loops share.
FreeHttp ==
  /\ At("freehttp")
  /\ http' = [http EXCEPT ![Deleting] = "freed"]
  /\ listenfd' = "closed"
  /\ GoTo("freebase")
  /\ UNCHANGED <<isReady, logger, pool, fdfs, instance, i, testNum, conn, base, params, del, brk, lpc,
                 sigVars, poolVars>>

FreeBase ==
  /\ At("freebase")
  /\ base' = [base EXCEPT ![Deleting] = "freed"]
  /\ del' = del + 1
  /\ GoTo("param")
  /\ UNCHANGED <<isReady, initVars, i, testNum, conn, http, params, brk, lpc,
                 sigVars, poolVars>>

DestroyFdfs ==
  /\ At("param")
  /\ del = Len(params)
  /\ fdfs' = "down"
  /\ GoTo("closefd")
  /\ UNCHANGED <<isReady, logger, listenfd, pool, instance, loopVars, lpc, sigVars,
                 poolVars>>

CloseListen ==
  /\ At("closefd")
  /\ listenfd' = "closed"
  /\ GoTo("delpool")
  /\ UNCHANGED <<isReady, logger, pool, fdfs, instance, loopVars, lpc, sigVars,
                 poolVars>>

\* delete mThreadPool.  A worker without a task may have missed the notification
\* (DtorStrandsAtMostOne of ThreadPool) and still wait on the condition variable
\* that is destroyed: the destruction then waits for it for ever, or goes on.
\* Deleting a pointer that was never set crashes or goes on.
DeletePool ==
  /\ At("delpool")
  /\ pool' = "deleted"
  /\ \/ /\ pool = "live" /\ Pool!Close
        /\ GoTo("garbo") \/ ((\E t \in PoolThreads : slot[t] = NoLoop) /\ GoTo("blocked"))
     \/ /\ pool # "live" /\ UNCHANGED poolVars
        /\ GoTo("garbo") \/ GoTo("crashed")
  /\ UNCHANGED <<isReady, logger, listenfd, fdfs, instance, loopVars, lpc, sigVars>>

ClearInstance ==
  /\ At("garbo")
  /\ instance' = FALSE
  /\ GoTo("exit")
  /\ UNCHANGED <<isReady, logger, listenfd, pool, fdfs, loopVars, lpc, sigVars,
                 poolVars>>

\* The process ends, and its remaining threads with it.
Exit ==
  /\ At("exit")
  /\ GoTo("gone")
  /\ UNCHANGED <<isReady, initVars, loopVars, lpc, sigVars, poolVars>>

-----------------------------------------------------------------------------
(* Pool threads: event_base_dispatch.                                      *)

Idle(t) == Alive /\ hpc[t] = <<>>

\* The pool starts the oldest loop.
StartDispatch(t) ==
  /\ Idle(t)
  /\ Pool!Start(t)
  /\ lpc' = [lpc EXCEPT ![Head(queue)] = "polling"]
  /\ UNCHANGED <<mainVars, isReady, initVars, loopVars, sigVars>>

\* A request arrives in the loop of t and its handler runs.  The handlers of
\* uploads and deletions use the loop's connection, also if it is nullptr.  What
\* a loop does with freed memory is outside the model.
Serve(t) ==
  /\ Idle(t)
  /\ slot[t] \in Loops
  /\ lpc[slot[t]] = "polling" /\ http[slot[t]] = "live"
  /\ \/ lpc' = [lpc EXCEPT ![slot[t]] = "active"] /\ mpc' = mpc
     \/ conn[slot[t]] = "null" /\ mpc' = "crashed" /\ lpc' = lpc
  /\ UNCHANGED <<logging, isReady, initVars, loopVars, sigVars, poolVars>>

\* The handler returned: wait for the next event, or leave the loop if it was
\* broken meanwhile.
Served(t) ==
  /\ Idle(t)
  /\ slot[t] \in Loops
  /\ lpc[slot[t]] = "active" /\ base[slot[t]] = "live"
  /\ \/ /\ ~brk[slot[t]]
        /\ lpc' = [lpc EXCEPT ![slot[t]] = "polling"]
        /\ UNCHANGED poolVars
     \/ /\ brk[slot[t]]
        /\ lpc' = [lpc EXCEPT ![slot[t]] = "done"]
        /\ Pool!Finish(t)
  /\ UNCHANGED <<mainVars, isReady, initVars, loopVars, sigVars>>

-----------------------------------------------------------------------------
(* Signals: signal_handler of main.cpp, signal_handle of the singleton.    *)

\* A thread is interrupted, by a signal that it is not handling already.  Without
\* an instance or without a logger the handler dereferences a null pointer.
Signal(t) ==
  /\ Alive
  /\ t = Main \/ pool # "unset"
  /\ Len(hpc[t]) < NumSignals
  /\ nsig < MaxSignals
  /\ nsig' = nsig + 1
  /\ IF instance /\ logger
     THEN hpc' = [hpc EXCEPT ![t] = Append(@, "log1")] /\ mpc' = mpc
     ELSE mpc' = "crashed" /\ hpc' = hpc
  /\ UNCHANGED <<logging, isReady, initVars, loopVars, lpc, poolVars>>

\* The innermost handler of t is at label.
InHandler(t, label) == Alive /\ hpc[t] # <<>> /\ hpc[t][Len(hpc[t])] = label
HandlerGoTo(t, label) == hpc' = [hpc EXCEPT ![t] = [@ EXCEPT ![Len(@)] = label]]

\* Each of its two log calls takes the logger's mutex ...
HandlerAcquires(t) ==
  /\ ~Held
  /\ \/ InHandler(t, "log1") /\ HandlerGoTo(t, "log1in")
     \/ InHandler(t, "log2") /\ HandlerGoTo(t, "log2in")
  /\ UNCHANGED <<mainVars, isReady, initVars, loopVars, lpc, nsig, poolVars>>

\* ... and gives it back: after "Receive signal" ...
HandlerLogs(t) ==
  /\ InHandler(t, "log1in")
  /\ HandlerGoTo(t, "set")
  /\ UNCHANGED <<mainVars, isReady, initVars, loopVars, lpc, nsig, poolVars>>

\* Mutant of HandlerSets: isReady is left alone.
BugHandlerOnlyLogs(t) ==
  /\ InHandler(t, "set")
  /\ HandlerGoTo(t, "log2")
  /\ UNCHANGED <<mainVars, isReady, initVars, loopVars, lpc, nsig, poolVars>>

HandlerSets(t) ==
  /\ InHandler(t, "set")
  /\ isReady' = FALSE
  /\ HandlerGoTo(t, "log2")
  /\ UNCHANGED <<mainVars, initVars, loopVars, lpc, nsig, poolVars>>

\* ... and after "Ready to exit...", when what was interrupted goes on.
HandlerReturns(t) ==
  /\ InHandler(t, "log2in")
  /\ hpc' = [hpc EXCEPT ![t] = SubSeq(@, 1, Len(@) - 1)]
  /\ UNCHANGED <<mainVars, isReady, initVars, loopVars, lpc, nsig, poolVars>>

-----------------------------------------------------------------------------
MainStep ==
  \/ LogAcquire \/ LogDone
  \/ InitLogger \/ LoadConfig \/ BindSocket \/ CreatePool \/ InitFdfs \/ InitFailed
  \/ StartService \/ BeginLoop \/ Connect \/ GiveUp \/ NewBase \/ NewHttp
  \/ AcceptSocket \/ CommitLoop \/ ServiceExits
  \/ DeleteParam \/ LoopBreak \/ FreeHttp \/ FreeBase
  \/ DestroyFdfs \/ CloseListen \/ DeletePool \/ ClearInstance \/ Exit

HandlerStep(t) ==
  HandlerAcquires(t) \/ HandlerLogs(t) \/ HandlerSets(t) \/ HandlerReturns(t)

Next ==
  \/ MainStep
  \/ \E t \in PoolThreads : StartDispatch(t) \/ Serve(t) \/ Served(t)
  \/ \E t \in Threads : Signal(t) \/ HandlerStep(t)

Spec == Init /\ [][Next]_vars

\* The threads are scheduled, sleep(1) returns, the pool starts what it has
\* (QueuedTaskStarts of ThreadPool).  Nothing is assumed of signals, of the
\* requests that arrive or of the time a handler of requests takes.
Fairness ==
  /\ WF_vars(MainStep)
  /\ \A t \in PoolThreads : WF_vars(StartDispatch(t))
  /\ \A t \in Threads : WF_vars(HandlerStep(t))

FairSpec == Spec /\ Fairness

-----------------------------------------------------------------------------
(* Properties.                                                             *)

MainPC == {"start", "config", "socket", "pool", "fdfs", "failed", "serve",
           "loop", "connect", "evbase", "evhttp", "accept", "commit", "wait",
           "param", "break", "freehttp", "freebase", "closefd", "delpool",
           "garbo", "exit", "gone", "crashed", "looping", "blocked"}
DtorPC == {"param", "break", "freehttp", "freebase", "closefd", "delpool",
           "garbo", "exit", "gone"}

TypeOK ==
  /\ mpc \in MainPC
  /\ logging \in {"no", "want", "in"} /\ isReady \in BOOLEAN
  /\ logger \in BOOLEAN /\ instance \in BOOLEAN
  /\ listenfd \in {"unset", "invalid", "open", "closed"}
  /\ pool \in {"unset", "live", "deleted"}
  /\ fdfs \in {"unset", "up", "down"}
  /\ i \in 0..ThreadCount
  /\ testNum \in 0..MAX_CONNECTION_TEST
  /\ conn \in [Loops -> {"none", "open", "null", "closed"}]
  /\ base \in [Loops -> {"none", "live", "freed"}]
  /\ http \in [Loops -> {"none", "live", "freed"}]
  /\ params \in Seq(Loops)
  /\ del \in 0..Len(params)
  /\ brk \in [Loops -> BOOLEAN]
  /\ lpc \in [Loops -> {"none", "polling", "active", "done"}]
  /\ hpc \in [Threads -> Seq({"log1", "log1in", "set", "log2", "log2in"})]
  /\ nsig \in 0..MaxSignals
  /\ fresh \in SUBSET Loops
  /\ queue \in Seq(Loops)
  /\ slot \in [PoolThreads -> Loops \cup {NoLoop}]
  /\ accepting \in BOOLEAN

Undeleted == {params[j] : j \in (del + 1)..Len(params)}
Building(labels) == IF mpc \in labels THEN {i} ELSE {}

\* Every event_base that startService creates is freed exactly once: at any
\* moment the live ones are those that threadParams still has to delete and
\* the one under construction, and each has one owner.  This is what the
\* error paths of startService (lines 254-278) and ~threadParam must agree on.
BaseOwnedOnce ==
  mpc # "crashed" =>
    /\ {k \in Loops : base[k] = "live"}
         = Undeleted \cup Building({"evhttp", "accept", "commit"})
    /\ {k \in Loops : http[k] = "live"}
         = (Undeleted \cup Building({"accept", "commit"}))
             \ (IF mpc = "freebase" THEN {Deleting} ELSE {})
    /\ IsInjective(params)

\* A request handler runs only with the FastDFS client and the instance that
\* it uses, on a thread of a live pool: init precedes the first dispatch, and
\* the process does not take them down under a loop that still owns its evhttp
\* (init lines 201-228, ~fileCacheProxy lines 457-463).
HandlerHasService ==
  \A k \in Loops : (lpc[k] = "active" /\ http[k] = "live" /\ Alive) =>
    fdfs = "up" /\ pool = "live" /\ instance

\* Some thread is in the handler and has not cleared isReady yet.
Signalled ==
  \E t \in Threads : \E n \in DOMAIN hpc[t] : hpc[t][n] \in {"log1", "log1in", "set"}

\* A thread that has the logger's mutex was interrupted by a signal: its handler
\* waits for the mutex, and so does every later log call (line 24).
Jammed ==
  \/ logging = "in" /\ hpc[Main] # <<>>
  \/ \E t \in Threads : \E n \in 1..(Len(hpc[t]) - 1) : hpc[t][n] \in InLogger

\* A termination signal that arrives while the service waits ends the wait,
\* whichever thread is interrupted: the handler gets through its log call,
\* lowers isReady, and the main thread sees it and goes on to the destruction
\* (lines 22-40 and 293-300).  The exception is a second signal that interrupts
\* the first one's handler in its log call.
SignalEndsService == (mpc = "wait" /\ Signalled) ~> (mpc \in DtorPC \/ ~Alive \/ Jammed)

Dispatched == {k \in Loops : lpc[k] # "none"}

\* Every loop that was committed is dispatched as long as there are no more than
\* THREADPOOL_MAX_NUM; of more loops that many are, and the rest stay in the
\* queue (line 290, thread_pool.h line 88).
LoopsDispatched ==
  (mpc = "wait") ~> \/ Cardinality(Dispatched) >= Len(params)
                     \/ Cardinality(Dispatched) >= THREADPOOL_MAX_NUM
                     \/ ~isReady \/ ~Alive \/ Jammed

\* Once the process is leaving the service it ends, with two exceptions: a
\* signal that interrupts a thread inside a log call, and a worker that still
\* waits on the condition variable that ~threadpool destroys (lines 298-300,
\* 455-464).
DestructionEnds == (mpc \in DtorPC) ~> (~Alive \/ Jammed \/ mpc = "blocked")

\* The process as the scripts around it see it.
Stage ==
  CASE mpc = "start" -> "early"
    [] mpc = "config" -> "logged"
    [] mpc = "socket" -> "configured"
    [] mpc \in {"pool", "fdfs"} -> "bound"
    [] mpc \in {"gone", "crashed"} -> "dead"
    [] mpc \in {"looping", "blocked"} -> "hung"
    [] mpc \in (DtorPC \ {"gone"}) \cup {"failed"} -> "leaving"
    [] OTHER -> "serving"
Told ==
  /\ mpc \in {"serve", "loop", "connect", "evbase", "evhttp", "accept", "commit", "wait"}
  /\ ~isReady
Stuck == Alive /\ Jammed
Life == [stage |-> Stage, told |-> Told, stuck |-> Stuck]

Abstract == INSTANCE ProxyLife

\* To the scripts the process is no more than ProxyLife: it goes through its
\* stages in order, dies or hangs only where ProxyLife says, a signal has only
\* the effects listed there (whichever thread handles it and however late), and a
\* process whose logger is stuck stays so (main.cpp lines 9-28,
\* fileCacheProxy.cpp lines 22-40, 85, 98, 249 and 463).
ImplementsProxyLife ==
  /\ Life = Abstract!Fresh
  /\ [][Life' \in {Life} \cup (IF UNCHANGED sigVars THEN Abstract!Advance(Life)
                                ELSE Abstract!Terminated(Life))]_vars

\* evhttp_free "Works only if no requests are currently being served".
FreeOnlyIdle == \A k \in Loops : http[k] = "freed" => lpc[k] # "active"
=============================================================================
