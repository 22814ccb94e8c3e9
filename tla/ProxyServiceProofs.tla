------------------------- MODULE ProxyServiceProofs -------------------------
(***************************************************************************)
(* Theorems about ProxyService, for any number of loops, pool threads,     *)
(* connection attempts and signals.                                        *)
(***************************************************************************)
EXTENDS ProxyService, TLAPS

Starting == {"start", "config", "looping", "socket", "pool", "fdfs", "failed"}
InLoop == {"connect", "evbase", "evhttp", "accept", "commit"}
Serving == {"serve", "loop", "wait"} \cup InLoop
Deletion == {"break", "freehttp", "freebase"}
Closing == {"closefd", "delpool", "blocked", "garbo", "exit", "gone"}

\* Where the main thread is with its loops and with the threadParams.
LoopsOK ==
  /\ mpc \in Starting => params = <<>>
  /\ mpc \in InLoop => i < ThreadCount
  /\ \A j \in 1..Len(params) : params[j] < i
  /\ mpc \in Deletion => del < Len(params)
  /\ mpc \in Closing => del = Len(params)

\* What init has set up and the destruction has not yet taken down.
ServiceUp ==
  /\ mpc = "fdfs" => pool = "live"
  /\ mpc \in Serving \/ (params # <<>> /\ mpc \in {"param"} \cup Deletion) =>
       fdfs = "up" /\ pool = "live" /\ instance

\* When a signal may still find no logger or no instance.
SignalOK ==
  /\ mpc = "start" => ~logger /\ pool = "unset"
  /\ mpc \notin {"start", "crashed"} => logger
  /\ ~instance => mpc \in {"exit", "gone", "crashed"}

\* A handler that interrupts a thread which has the logger's mutex is in its
\* first log call.
MutexOK ==
  /\ logging = "in" => \A n \in DOMAIN hpc[Main] : hpc[Main][n] = "log1"
  /\ \A t \in Threads : \A n, m \in DOMAIN hpc[t] :
       n < m /\ hpc[t][n] \in InLogger => hpc[t][m] = "log1"

ServiceInv ==
  TypeOK /\ LoopsOK /\ ServiceUp /\ SignalOK /\ MutexOK /\ BaseOwnedOnce

-----------------------------------------------------------------------------
(* The constants and the sequence of threadParams.                         *)

LEMMA ConstantFacts ==
  /\ ThreadCount \in Nat /\ 0 \in Loops /\ PoolSize \in Nat
  /\ Main \in Threads /\ PoolThreads \subseteq Threads
  /\ \A n \in 0..ThreadCount : n < ThreadCount => n \in Loops /\ n + 1 \in 0..ThreadCount
  /\ NoLoop \notin Loops
  <1>1. ThreadCount % 65536 \in Nat
    BY ServiceAssumption
  <1>2. PoolSize \in Nat
    BY <1>1, ServiceAssumption DEF PoolSize
  <1> QED
    BY <1>2, ServiceAssumption DEF Loops, Threads

LEMMA DeletingFacts ==
  ASSUME TypeOK, LoopsOK, mpc \in Deletion \/ (mpc = "param" /\ del < Len(params))
  PROVE  /\ del + 1 \in 1..Len(params) /\ Deleting = params[del + 1]
         /\ Deleting \in Loops /\ Deleting \in Undeleted
  <1>1. params \in Seq(Loops) /\ Len(params) \in Nat /\ del \in Nat /\ del < Len(params)
    BY DEF TypeOK, LoopsOK
  <1>2. del + 1 \in 1..Len(params)
    BY <1>1
  <1>3. params[del + 1] \in Loops
    BY <1>1, <1>2
  <1>4. del + 1 \in (del + 1)..Len(params)
    BY <1>1
  <1> QED
    BY <1>2, <1>3, <1>4 DEF Deleting, Undeleted

\* What is left to delete is older than the loop under construction.
LEMMA UndeletedFacts ==
  ASSUME TypeOK, LoopsOK
  PROVE  Undeleted \subseteq Loops /\ i \notin Undeleted
  <1>1. /\ params \in Seq(Loops) /\ Len(params) \in Nat /\ del \in Nat
        /\ i \in Nat
    BY ConstantFacts DEF TypeOK
  <1>2. ASSUME NEW j \in (del + 1)..Len(params)
        PROVE  params[j] \in Loops /\ params[j] # i
    <2>1. j \in 1..Len(params)
      BY <1>1
    <2>2. params[j] \in Loops /\ params[j] < i
      BY <1>1, <2>1 DEF LoopsOK
    <2>3. params[j] \in Int
      BY <2>2 DEF Loops
    <2> QED
      BY <1>1, <2>2, <2>3
  <1> QED
    BY <1>2 DEF Undeleted

-----------------------------------------------------------------------------
(* Type correctness.                                                       *)

LEMMA InitTypes == Init => TypeOK
  <1> SUFFICES ASSUME Init PROVE TypeOK
    OBVIOUS
  <1>1. /\ i \in 0..ThreadCount /\ testNum \in 0..MAX_CONNECTION_TEST
        /\ nsig \in 0..MaxSignals
    BY ServiceAssumption DEF Init
  <1>2. params \in Seq(Loops) /\ del \in 0..Len(params)
    BY DEF Init
  <1>3. /\ fresh \in SUBSET Loops /\ queue \in Seq(Loops)
        /\ slot \in [PoolThreads -> Loops \cup {NoLoop}] /\ accepting \in BOOLEAN
    BY DEF Init, Pool!Init
  <1>4. hpc \in [Threads -> Seq({"log1", "log1in", "set", "log2", "log2in"})]
    BY DEF Init
  <1> QED
    BY <1>1, <1>2, <1>3, <1>4 DEF Init, TypeOK, MainPC

\* Actions of init and of the end of the process.
LEMMA InitStepTypes ==
  ASSUME TypeOK,
         \/ LogAcquire \/ LogDone \/ InitLogger \/ LoadConfig \/ BindSocket \/ CreatePool
         \/ InitFdfs \/ InitFailed \/ StartService \/ ServiceExits
         \/ DestroyFdfs \/ CloseListen \/ ClearInstance \/ Exit
  PROVE  TypeOK'
  <1>1. UNCHANGED <<loopVars, lpc, sigVars, poolVars>>
    BY DEF LogAcquire, LogDone, InitLogger, LoadConfig, BindSocket, CreatePool, InitFdfs, InitFailed,
           StartService, ServiceExits, DestroyFdfs, CloseListen, ClearInstance, Exit
  <1>2. mpc' \in MainPC /\ logging' \in {"no", "want", "in"}
    BY DEF LogAcquire, LogDone, InitLogger, LoadConfig, BindSocket, CreatePool, InitFdfs, InitFailed,
           StartService, ServiceExits, DestroyFdfs, CloseListen, ClearInstance, Exit,
           GoTo, LogThenGoTo, MainPC, TypeOK
  <1>3. /\ isReady' \in BOOLEAN /\ logger' \in BOOLEAN /\ instance' \in BOOLEAN
        /\ listenfd' \in {"unset", "invalid", "open", "closed"}
        /\ pool' \in {"unset", "live", "deleted"} /\ fdfs' \in {"unset", "up", "down"}
    BY DEF LogAcquire, LogDone, InitLogger, LoadConfig, BindSocket, CreatePool, InitFdfs, InitFailed,
           StartService, ServiceExits, DestroyFdfs, CloseListen, ClearInstance, Exit,
           TypeOK, initVars
  <1> QED
    BY <1>1, <1>2, <1>3 DEF TypeOK, loopVars, sigVars, poolVars

\* Actions of startService that build a loop.
LEMMA BuildStepTypes ==
  ASSUME TypeOK, LoopsOK,
         \/ BeginLoop \/ Connect \/ GiveUp \/ NewBase \/ NewHttp \/ AcceptSocket
         \/ CommitLoop
  PROVE  TypeOK'
  <1>1. UNCHANGED <<isReady, initVars, del, brk, lpc, sigVars, slot, accepting>>
    BY DEF BeginLoop, Connect, GiveUp, NewBase, NewHttp, AcceptSocket, CommitLoop,
           poolVars, loopVars, Pool!Submit
  <1>2. mpc' \in MainPC /\ logging' \in {"no", "want", "in"}
    BY DEF BeginLoop, Connect, GiveUp, NewBase, NewHttp, AcceptSocket, CommitLoop,
           NextLoop, GoTo, LogThenGoTo, MainPC, TypeOK
  <1>3. testNum' \in 0..MAX_CONNECTION_TEST
    <2>1. UNCHANGED testNum \/ testNum' = 0
          \/ (testNum < MAX_CONNECTION_TEST /\ testNum' = testNum + 1)
      BY DEF BeginLoop, Connect, GiveUp, NewBase, NewHttp, AcceptSocket, CommitLoop
    <2> QED
      BY <2>1, ServiceAssumption DEF TypeOK
  <1>4. CASE BeginLoop
    BY <1>1, <1>2, <1>3, <1>4
    DEF BeginLoop, TypeOK, initVars, sigVars, poolVars
  <1>5. CASE ~BeginLoop
    <2>1. i \in Loops /\ i + 1 \in 0..ThreadCount
      <3>1. mpc \in InLoop
        BY <1>5 DEF Connect, GiveUp, NewBase, NewHttp, AcceptSocket, CommitLoop, At,
                    InLoop
      <3> QED
        BY <3>1, ConstantFacts DEF LoopsOK, TypeOK
    <2>2. i' \in 0..ThreadCount
      BY <1>5, <2>1 DEF Connect, GiveUp, NewBase, NewHttp, AcceptSocket, CommitLoop,
                        NextLoop, TypeOK
    <2>3. conn' \in [Loops -> {"none", "open", "null", "closed"}]
      BY <1>5 DEF Connect, GiveUp, NewBase, NewHttp, AcceptSocket, CommitLoop, TypeOK
    <2>4. /\ base' \in [Loops -> {"none", "live", "freed"}]
          /\ http' \in [Loops -> {"none", "live", "freed"}]
      BY <1>5 DEF Connect, GiveUp, NewBase, NewHttp, AcceptSocket, CommitLoop, TypeOK
    <2>5. /\ params' \in Seq(Loops) /\ del \in 0..Len(params')
          /\ fresh' \in SUBSET Loops /\ queue' \in Seq(Loops)
      <3>1. CASE CommitLoop
        <4>1. /\ params' = Append(params, i) /\ queue' = Append(queue, i)
              /\ fresh' = fresh \ {i}
          BY <3>1 DEF CommitLoop, Pool!Submit
        <4>2. params' \in Seq(Loops) /\ Len(params') = Len(params) + 1
          BY <2>1, <4>1 DEF TypeOK
        <4>3. del \in 0..(Len(params) + 1)
          BY DEF TypeOK
        <4>4. queue' \in Seq(Loops) /\ fresh' \in SUBSET Loops
          BY <2>1, <4>1 DEF TypeOK
        <4> QED
          BY <4>2, <4>3, <4>4
      <3>2. CASE ~CommitLoop
        BY <1>5, <3>2
        DEF Connect, GiveUp, NewBase, NewHttp, AcceptSocket, TypeOK, poolVars
      <3> QED
        BY <3>1, <3>2
    <2> QED
      BY <1>1, <1>2, <1>3, <2>2, <2>3, <2>4, <2>5 DEF TypeOK, initVars, sigVars
  <1> QED
    BY <1>4, <1>5

\* Actions of the destruction.
LEMMA DtorStepTypes ==
  ASSUME TypeOK, LoopsOK,
         DeleteParam \/ LoopBreak \/ FreeHttp \/ FreeBase \/ DeletePool
  PROVE  TypeOK'
  <1>1. UNCHANGED <<isReady, logger, fdfs, instance, i, testNum, params, lpc, sigVars,
                    fresh, queue, slot>>
    BY DEF DeleteParam, LoopBreak, FreeHttp, FreeBase, DeletePool, Pool!Close, poolVars,
           initVars, loopVars
  <1>2. mpc' \in MainPC /\ logging' \in {"no", "want", "in"}
    BY DEF DeleteParam, LoopBreak, FreeHttp, FreeBase, DeletePool, GoTo, MainPC
  <1>3. /\ listenfd' \in {"unset", "invalid", "open", "closed"}
        /\ pool' \in {"unset", "live", "deleted"}
    BY DEF DeleteParam, LoopBreak, FreeHttp, FreeBase, DeletePool, TypeOK, initVars
  <1>4. accepting' \in BOOLEAN
    BY DEF DeleteParam, LoopBreak, FreeHttp, FreeBase, DeletePool, TypeOK, poolVars,
           Pool!Close
  <1>5. del' \in 0..Len(params)
    <2>1. CASE FreeBase
      <3>1. mpc = "freebase" /\ del' = del + 1
        BY <2>1 DEF FreeBase, At
      <3> QED
        BY <3>1, DeletingFacts DEF Deletion
    <2>2. CASE ~FreeBase
      BY <2>2 DEF DeleteParam, LoopBreak, FreeHttp, DeletePool, TypeOK, loopVars
    <2> QED
      BY <2>1, <2>2
  <1>6. /\ conn' \in [Loops -> {"none", "open", "null", "closed"}]
        /\ base' \in [Loops -> {"none", "live", "freed"}]
        /\ http' \in [Loops -> {"none", "live", "freed"}]
        /\ brk' \in [Loops -> BOOLEAN]
    BY DEF DeleteParam, LoopBreak, FreeHttp, FreeBase, DeletePool, TypeOK, loopVars
  <1> QED
    BY <1>1, <1>2, <1>3, <1>4, <1>5, <1>6 DEF TypeOK, sigVars

\* Actions of the threads of the pool.
LEMMA PoolStepTypes ==
  ASSUME TypeOK, NEW t \in PoolThreads, StartDispatch(t) \/ Serve(t) \/ Served(t)
  PROVE  TypeOK'
  <1>1. /\ UNCHANGED <<logging, isReady, initVars, loopVars, sigVars, fresh, accepting>>
        /\ mpc' \in MainPC
    BY DEF StartDispatch, Serve, Served, poolVars, Pool!Start, Pool!Finish, mainVars, MainPC,
           TypeOK
  <1>2. CASE StartDispatch(t)
    <2>1. /\ queue # <<>> /\ slot' = [slot EXCEPT ![t] = Head(queue)]
          /\ queue' = Tail(queue) /\ lpc' = [lpc EXCEPT ![Head(queue)] = "polling"]
      BY <1>2 DEF StartDispatch, Pool!Start
    <2>2. Head(queue) \in Loops /\ Tail(queue) \in Seq(Loops)
      BY <2>1 DEF TypeOK
    <2>3. /\ slot' \in [PoolThreads -> Loops \cup {NoLoop}]
          /\ lpc' \in [Loops -> {"none", "polling", "active", "done"}]
      BY <2>1, <2>2 DEF TypeOK
    <2> QED
      BY <1>1, <2>1, <2>2, <2>3
      DEF TypeOK, initVars, loopVars, sigVars
  <1>3. CASE Serve(t) \/ Served(t)
    <2>1. UNCHANGED queue
      BY <1>3 DEF Serve, Served, poolVars, Pool!Finish
    <2>2. slot' \in [PoolThreads -> Loops \cup {NoLoop}]
      BY <1>3 DEF Serve, Served, poolVars, Pool!Finish, TypeOK
    <2>3. lpc' \in [Loops -> {"none", "polling", "active", "done"}]
      BY <1>3 DEF Serve, Served, TypeOK
    <2> QED
      BY <1>1, <2>1, <2>2, <2>3 DEF TypeOK, initVars, loopVars, sigVars
  <1> QED
    BY <1>2, <1>3

\* What a step of a handler does to the handlers of its thread.
LEMMA HandlerFrames ==
  ASSUME TypeOK, NEW t \in Threads, HandlerStep(t)
  PROVE  /\ hpc[t] # <<>> /\ Len(hpc[t]) \in Nat \ {0} /\ DOMAIN hpc[t] = 1..Len(hpc[t])
         /\ hpc' \in [Threads -> Seq({"log1", "log1in", "set", "log2", "log2in"})]
         /\ DOMAIN hpc'[t] \subseteq DOMAIN hpc[t]
         /\ DOMAIN hpc'[t] = 1..Len(hpc'[t]) /\ Len(hpc'[t]) \in Nat
         /\ Len(hpc'[t]) <= Len(hpc[t])
         /\ \A n \in DOMAIN hpc'[t] : n # Len(hpc[t]) => hpc'[t][n] = hpc[t][n]
         /\ \A u \in Threads : u # t => hpc'[u] = hpc[u]
         /\ hpc' # hpc
         /\ hpc[t][Len(hpc[t])] = "log1" => ~Held
  <1> DEFINE Frames == {"log1", "log1in", "set", "log2", "log2in"}
  <1> PICK s : s = hpc[t]
    OBVIOUS
  <1> PICK L : L = Len(s)
    OBVIOUS
  <1>1. s \in Seq(Frames) /\ s # <<>> /\ hpc \in [Threads -> Seq(Frames)]
    BY DEF TypeOK, HandlerStep, HandlerAcquires, HandlerLogs, HandlerSets, HandlerReturns,
           InHandler
  <1>2. L \in Nat \ {0} /\ DOMAIN s = 1..L /\ \A n \in 1..L : s[n] \in Frames
    BY <1>1
  <1>3. CASE HandlerReturns(t)
    <2>1. hpc' = [hpc EXCEPT ![t] = SubSeq(s, 1, L - 1)] /\ s[L] = "log2in"
      BY <1>3 DEF HandlerReturns, InHandler
    <2>2. /\ SubSeq(s, 1, L - 1) \in Seq(Frames) /\ Len(SubSeq(s, 1, L - 1)) = L - 1
          /\ \A n \in 1..(L - 1) : SubSeq(s, 1, L - 1)[n] = s[n]
      BY <1>1, <1>2
    <2>3. DOMAIN SubSeq(s, 1, L - 1) = 1..(L - 1) /\ 1..(L - 1) \subseteq 1..L
      BY <1>2, <2>2
    <2>4. hpc'[t] = SubSeq(s, 1, L - 1) /\ SubSeq(s, 1, L - 1) # s
      BY <1>1, <1>2, <2>1, <2>2
    <2> QED
      BY <1>1, <1>2, <2>1, <2>2, <2>3, <2>4
  <1>4. CASE HandlerAcquires(t) \/ HandlerLogs(t) \/ HandlerSets(t)
    <2>1. PICK label \in Frames \ {s[L]} : hpc' = [hpc EXCEPT ![t] = [s EXCEPT ![L] = label]]
      BY <1>4 DEF HandlerAcquires, HandlerLogs, HandlerSets, InHandler, HandlerGoTo
    <2>2. /\ [s EXCEPT ![L] = label] \in Seq(Frames)
          /\ Len([s EXCEPT ![L] = label]) = L /\ DOMAIN [s EXCEPT ![L] = label] = 1..L
      BY <1>1, <1>2
    <2>3. hpc'[t] = [s EXCEPT ![L] = label] /\ hpc'[t] # s
      BY <1>1, <1>2, <2>1
    <2>4. s[L] = "log1" => ~Held
      BY <1>4 DEF HandlerAcquires, HandlerLogs, HandlerSets, InHandler
    <2> QED
      BY <1>1, <1>2, <2>1, <2>2, <2>3, <2>4
  <1> QED
    BY <1>3, <1>4 DEF HandlerStep

LEMMA SignalStepTypes ==
  ASSUME TypeOK, NEW t \in Threads, Signal(t) \/ HandlerStep(t)
  PROVE  TypeOK'
  <1>1. UNCHANGED <<logging, initVars, loopVars, lpc, poolVars>>
    BY DEF Signal, HandlerStep, HandlerAcquires, HandlerLogs, HandlerSets, HandlerReturns,
           mainVars
  <1>2. mpc' \in MainPC /\ isReady' \in BOOLEAN
    BY DEF Signal, HandlerStep, HandlerAcquires, HandlerLogs, HandlerSets, HandlerReturns,
           mainVars, MainPC, TypeOK
  <1>3. nsig' \in 0..MaxSignals
    BY ServiceAssumption
    DEF Signal, HandlerStep, HandlerAcquires, HandlerLogs, HandlerSets, HandlerReturns, TypeOK
  <1>4. hpc' \in [Threads -> Seq({"log1", "log1in", "set", "log2", "log2in"})]
    <2>1. CASE Signal(t)
      <3>1. hpc' = [hpc EXCEPT ![t] = Append(hpc[t], "log1")] \/ hpc' = hpc
        BY <2>1 DEF Signal
      <3>2. Append(hpc[t], "log1") \in Seq({"log1", "log1in", "set", "log2", "log2in"})
        BY DEF TypeOK
      <3> QED
        BY <3>1, <3>2 DEF TypeOK
    <2>2. CASE HandlerStep(t)
      BY <2>2, HandlerFrames
    <2> QED
      BY <2>1, <2>2
  <1> QED
    BY <1>1, <1>2, <1>3, <1>4 DEF TypeOK, initVars, loopVars, poolVars

-----------------------------------------------------------------------------
(* The control of the main thread.                                         *)

\* The threads of the pool and the signal handlers leave the main thread's
\* work alone; a signal may end the process.
LEMMA OtherSteps ==
  ASSUME \/ \E t \in PoolThreads : StartDispatch(t) \/ Serve(t) \/ Served(t)
         \/ \E t \in Threads : Signal(t) \/ HandlerStep(t)
  PROVE  /\ mpc' = mpc \/ mpc' = "crashed"
         /\ UNCHANGED <<logging, initVars, loopVars>>
         /\ mpc \notin {"gone", "crashed"}
  BY DEF StartDispatch, Serve, Served, Idle, Alive, Signal, HandlerStep, HandlerAcquires,
         HandlerLogs, HandlerSets, HandlerReturns, InHandler, mainVars

LEMMA LoopsStep ==
  ASSUME TypeOK, LoopsOK, MainStep
  PROVE  LoopsOK'
  <1> USE DEF Starting, InLoop, Deletion, Closing
  <1>1. Len(params) \in Nat /\ i \in Nat /\ del \in Nat /\ del <= Len(params)
    BY ConstantFacts DEF TypeOK
  <1>2. CASE \/ LogAcquire \/ LogDone \/ InitLogger \/ LoadConfig \/ BindSocket \/ CreatePool
             \/ InitFdfs \/ InitFailed \/ StartService \/ BeginLoop \/ Connect
             \/ ServiceExits \/ DeleteParam \/ LoopBreak \/ FreeHttp
             \/ DestroyFdfs \/ CloseListen \/ DeletePool \/ ClearInstance \/ Exit
    <2>1. UNCHANGED <<i, params, del>>
      BY <1>2
      DEF LogAcquire, LogDone, InitLogger, LoadConfig, BindSocket, CreatePool, InitFdfs, InitFailed,
          StartService, BeginLoop, Connect, ServiceExits, DeleteParam, LoopBreak,
          FreeHttp, DestroyFdfs, CloseListen, DeletePool, ClearInstance, Exit, loopVars
    <2>2. mpc' \in Starting => mpc \in Starting
      BY <1>2
      DEF LogAcquire, LogDone, InitLogger, LoadConfig, BindSocket, CreatePool, InitFdfs, InitFailed,
          StartService, BeginLoop, Connect, ServiceExits, DeleteParam, LoopBreak,
          FreeHttp, DestroyFdfs, CloseListen, DeletePool, ClearInstance, Exit, At, GoTo,
          LogThenGoTo
    <2>3. mpc' \in InLoop => i < ThreadCount
      BY <1>2
      DEF LogAcquire, LogDone, InitLogger, LoadConfig, BindSocket, CreatePool, InitFdfs, InitFailed,
          StartService, BeginLoop, Connect, ServiceExits, DeleteParam, LoopBreak,
          FreeHttp, DestroyFdfs, CloseListen, DeletePool, ClearInstance, Exit, At, GoTo,
          LogThenGoTo, LoopsOK
    <2>4. mpc' \in Deletion => del < Len(params)
      BY <1>2
      DEF LogAcquire, LogDone, InitLogger, LoadConfig, BindSocket, CreatePool, InitFdfs, InitFailed,
          StartService, BeginLoop, Connect, ServiceExits, DeleteParam, LoopBreak,
          FreeHttp, DestroyFdfs, CloseListen, DeletePool, ClearInstance, Exit, At, GoTo,
          LogThenGoTo, LoopsOK
    <2>5. mpc' \in Closing => del = Len(params)
      BY <1>2
      DEF LogAcquire, LogDone, InitLogger, LoadConfig, BindSocket, CreatePool, InitFdfs, InitFailed,
          StartService, BeginLoop, Connect, ServiceExits, DeleteParam, LoopBreak,
          FreeHttp, DestroyFdfs, CloseListen, DeletePool, ClearInstance, Exit, At, GoTo,
          LogThenGoTo, LoopsOK
    <2> QED
      BY <2>1, <2>2, <2>3, <2>4, <2>5 DEF LoopsOK
  <1>3. \A j \in 1..Len(params) : params[j] \in Int /\ params[j] < i /\ params[j] < i + 1
    <2>1. \A j \in 1..Len(params) : params[j] \in Loops
      BY DEF TypeOK
    <2>2. \A j \in 1..Len(params) : params[j] \in Int
      BY <2>1 DEF Loops
    <2> QED
      BY <1>1, <2>2 DEF LoopsOK
  <1>4. CASE GiveUp \/ NewBase \/ NewHttp \/ AcceptSocket
    <2>1. UNCHANGED <<params, del>> /\ i' \in {i, i + 1}
          /\ mpc' \in {"loop", "evhttp", "accept", "commit", "param"}
          /\ (mpc' \in InLoop => mpc \in InLoop /\ i' = i)
      BY <1>4 DEF GiveUp, NewBase, NewHttp, AcceptSocket, NextLoop, GoTo, At
    <2> QED
      BY <1>3, <2>1 DEF LoopsOK
  <1>5. CASE CommitLoop
    <2>1. params' = Append(params, i) /\ i' = i + 1 /\ mpc' = "loop" /\ del' = del
      BY <1>5 DEF CommitLoop, NextLoop, GoTo
    <2>2. /\ Len(params') = Len(params) + 1
          /\ \A j \in 1..Len(params) : params'[j] = params[j]
          /\ params'[Len(params) + 1] = i
      BY <2>1 DEF TypeOK
    <2>3. \A j \in 1..(Len(params) + 1) : j \in 1..Len(params) \/ j = Len(params) + 1
      BY <1>1
    <2>4. \A j \in 1..(Len(params) + 1) : params'[j] < i + 1
      BY <1>1, <1>3, <2>2, <2>3
    <2> QED
      BY <2>1, <2>2, <2>4 DEF LoopsOK
  <1>6. CASE FreeBase
    <2>1. mpc = "freebase" /\ mpc' = "param" /\ UNCHANGED <<params, i>>
      BY <1>6 DEF FreeBase, At, GoTo
    <2> QED
      BY <2>1 DEF LoopsOK
  <1> QED
    BY <1>2, <1>4, <1>5, <1>6 DEF MainStep

\* The FastDFS client, the pool and the instance are there from the end of
\* init until the last threadParam is deleted.
LEMMA ServiceUpStep ==
  ASSUME TypeOK, LoopsOK, SignalOK, ServiceUp, MainStep
  PROVE  ServiceUp'
  <1> DEFINE Up == fdfs = "up" /\ pool = "live" /\ instance
  <1> USE DEF Starting, InLoop, Serving, Deletion, Closing
  <1>1. CASE \/ LogAcquire \/ LogDone \/ InitLogger \/ LoadConfig \/ BindSocket \/ CreatePool \/ InitFailed
    <2>1. /\ params' = params
          /\ mpc' = mpc \/ (mpc \in Starting /\ mpc' \notin Serving \cup Deletion)
          /\ mpc' = "fdfs" => pool' = "live" \/ (mpc = "fdfs" /\ pool' = pool)
      BY <1>1 DEF LogAcquire, LogDone, InitLogger, LoadConfig, BindSocket, CreatePool, InitFailed, At,
                  GoTo, LogThenGoTo, loopVars, initVars
    <2>2. mpc \in Starting => params = <<>>
      BY DEF LoopsOK
    <2>3. LogAcquire \/ LogDone => UNCHANGED <<fdfs, pool, instance>>
      BY DEF LogAcquire, LogDone, initVars
    <2>4. LogAcquire \/ LogDone \/ mpc \in Starting
      BY <1>1 DEF InitLogger, LoadConfig, BindSocket, CreatePool, InitFailed, At
    <2> QED
      BY <2>1, <2>2, <2>3, <2>4 DEF ServiceUp
  <1>2. CASE InitFdfs
    <2>1. mpc = "fdfs" /\ params' = <<>> /\ UNCHANGED <<pool, instance>>
          /\ (mpc' = "failed" \/ (mpc' = "serve" /\ fdfs' = "up"))
      BY <1>2 DEF InitFdfs, At, GoTo, LogThenGoTo, LoopsOK, loopVars
    <2>2. pool = "live" /\ instance
      BY <2>1 DEF SignalOK, ServiceUp
    <2> QED
      BY <2>1, <2>2 DEF ServiceUp
  <1>3. CASE \/ StartService \/ BeginLoop \/ Connect \/ GiveUp \/ NewBase \/ NewHttp
             \/ AcceptSocket \/ CommitLoop \/ ServiceExits
    <2>1. mpc \in Serving /\ mpc' # "fdfs" /\ UNCHANGED <<fdfs, pool, instance>>
      BY <1>3 DEF StartService, BeginLoop, Connect, GiveUp, NewBase, NewHttp, AcceptSocket,
                  CommitLoop, ServiceExits, NextLoop, At, GoTo, LogThenGoTo, initVars
    <2> QED
      BY <2>1 DEF ServiceUp
  <1>4. CASE DeleteParam \/ LoopBreak \/ FreeHttp \/ FreeBase
    <2>1. mpc \in {"param"} \cup Deletion /\ UNCHANGED <<fdfs, pool, instance, params>>
          /\ mpc' \in {"param", "crashed"} \cup Deletion
      BY <1>4 DEF DeleteParam, LoopBreak, FreeHttp, FreeBase, At, GoTo, initVars
    <2> QED
      BY <2>1 DEF ServiceUp
  <1>5. CASE DestroyFdfs \/ CloseListen \/ DeletePool \/ ClearInstance \/ Exit
    <2>1. mpc' \in Closing \cup {"crashed"}
      BY <1>5 DEF DestroyFdfs, CloseListen, DeletePool, ClearInstance, Exit, GoTo
    <2> QED
      BY <2>1 DEF ServiceUp
  <1> QED
    BY <1>1, <1>2, <1>3, <1>4, <1>5 DEF MainStep

LEMMA SignalOKStep ==
  ASSUME SignalOK, MainStep
  PROVE  SignalOK'
  <1>1. CASE \/ InitLogger \/ LoadConfig \/ BindSocket \/ CreatePool \/ InitFdfs \/ InitFailed
    BY <1>1 DEF SignalOK, InitLogger, LoadConfig, BindSocket, CreatePool, InitFdfs,
                InitFailed, At, GoTo, LogThenGoTo, initVars
  <1>2. CASE \/ LogAcquire \/ LogDone \/ StartService \/ BeginLoop \/ Connect \/ GiveUp \/ NewBase
             \/ NewHttp \/ AcceptSocket \/ CommitLoop \/ ServiceExits
             \/ DeleteParam \/ LoopBreak \/ FreeHttp \/ FreeBase
    <2>1. /\ UNCHANGED <<logger, pool, instance>>
          /\ mpc' = mpc \/ mpc' = "crashed"
             \/ (/\ mpc \notin {"start", "exit", "gone", "crashed"}
                 /\ mpc' \notin {"start", "exit", "gone", "crashed"})
      BY <1>2
      DEF LogAcquire, LogDone, StartService, BeginLoop, Connect, GiveUp, NewBase, NewHttp, AcceptSocket,
          CommitLoop, ServiceExits, DeleteParam, LoopBreak, FreeHttp, FreeBase, NextLoop,
          At, GoTo, LogThenGoTo, initVars, loopVars
    <2> QED
      BY <2>1 DEF SignalOK
  <1>3. CASE DestroyFdfs \/ CloseListen \/ DeletePool \/ ClearInstance \/ Exit
    BY <1>3 DEF SignalOK, DestroyFdfs, CloseListen, DeletePool, ClearInstance, Exit, At,
                GoTo, initVars
  <1> QED
    BY <1>1, <1>2, <1>3 DEF MainStep

-----------------------------------------------------------------------------
(* The logger's mutex.                                                     *)

\* A step of the main thread is outside every handler.
LEMMA MainOutside ==
  ASSUME MainStep
  PROVE  UNCHANGED sigVars /\ hpc[Main] = <<>> /\ Alive
  BY DEF MainStep, LogAcquire, LogDone, InitLogger, LoadConfig, BindSocket, CreatePool,
         InitFdfs, InitFailed, StartService, BeginLoop, Connect, GiveUp, NewBase, NewHttp,
         AcceptSocket, CommitLoop, ServiceExits, DeleteParam, LoopBreak, FreeHttp,
         FreeBase, DestroyFdfs, CloseListen, DeletePool, ClearInstance, Exit, At, Alive

LEMMA MainMutex ==
  ASSUME MutexOK, MainStep
  PROVE  MutexOK' /\ (Jammed' <=> Jammed)
  <1>1. hpc' = hpc /\ hpc[Main] = <<>>
    BY MainOutside DEF sigVars
  <1>2. DOMAIN hpc[Main] = {}
    BY <1>1
  <1> QED
    BY <1>1, <1>2 DEF MutexOK, Jammed

\* A handler above a log call that has the mutex waits, so the steps of handlers
\* leave a logger jammed that is, and do not jam one that is not.
LEMMA HandlerMutex ==
  ASSUME TypeOK, MutexOK, NEW t \in Threads, HandlerStep(t)
  PROVE  MutexOK' /\ (Jammed' <=> Jammed)
  <1> PICK L : L = Len(hpc[t])
    OBVIOUS
  <1>1. /\ L \in Nat \ {0} /\ DOMAIN hpc[t] = 1..L /\ hpc[t] # <<>>
        /\ DOMAIN hpc'[t] = 1..Len(hpc'[t]) /\ Len(hpc'[t]) \in Nat /\ Len(hpc'[t]) <= L
        /\ \A n \in DOMAIN hpc'[t] : n # L => hpc'[t][n] = hpc[t][n]
        /\ \A u \in Threads : u # t => hpc'[u] = hpc[u]
        /\ hpc[t][L] = "log1" => ~Held
    BY HandlerFrames
  <1>2. logging' = logging
    BY DEF HandlerStep, HandlerAcquires, HandlerLogs, HandlerSets, HandlerReturns, mainVars
  <1>3. \A n \in 1..(L - 1) : hpc[t][n] \notin InLogger
    <2> SUFFICES ASSUME NEW n \in 1..(L - 1), hpc[t][n] \in InLogger PROVE FALSE
      OBVIOUS
    <2>1. n \in DOMAIN hpc[t] /\ L \in DOMAIN hpc[t] /\ n < L
      BY <1>1
    <2>2. hpc[t][L] = "log1" /\ Held
      BY <2>1 DEF MutexOK, Held
    <2> QED
      BY <1>1, <2>2
  <1>4. logging = "in" => t # Main
    <2>1. L \in DOMAIN hpc[t]
      BY <1>1
    <2> QED
      BY <1>1, <2>1 DEF MutexOK, Held
  <1>5. \A n \in 1..(Len(hpc'[t]) - 1) :
          n \in 1..(L - 1) /\ n \in DOMAIN hpc'[t] /\ hpc'[t][n] = hpc[t][n]
    BY <1>1
  <1>6. \A n \in 1..(Len(hpc'[t]) - 1) : hpc'[t][n] \notin InLogger
    BY <1>3, <1>5
  <1>7. ASSUME NEW u \in Threads, NEW n \in DOMAIN hpc'[u], NEW m \in DOMAIN hpc'[u],
               n < m, hpc'[u][n] \in InLogger
        PROVE  hpc'[u][m] = "log1"
    <2>1. CASE u = t
      <3>1. n \in 1..(Len(hpc'[t]) - 1)
        BY <1>1, <1>7, <2>1
      <3> QED
        BY <1>6, <1>7, <2>1, <3>1
    <2>2. CASE u # t
      BY <1>1, <1>7, <2>2 DEF MutexOK
    <2> QED
      BY <2>1, <2>2
  <1>8. MutexOK'
    BY <1>1, <1>2, <1>4, <1>7, ConstantFacts DEF MutexOK
  <1>9. Jammed' <=> Jammed
    <2>1. (logging' = "in" /\ hpc'[Main] # <<>>) <=> (logging = "in" /\ hpc[Main] # <<>>)
      BY <1>1, <1>2, <1>4, ConstantFacts
    <2>2. \A u \in Threads :
            (\E n \in 1..(Len(hpc'[u]) - 1) : hpc'[u][n] \in InLogger)
              <=> (\E n \in 1..(Len(hpc[u]) - 1) : hpc[u][n] \in InLogger)
      BY <1>1, <1>3, <1>6
    <2> QED
      BY <2>1, <2>2, Zenon DEF Jammed
  <1> QED
    BY <1>8, <1>9

\* A signal may jam the logger.
LEMMA SignalMutex ==
  ASSUME TypeOK, MutexOK, NEW t \in Threads, Signal(t)
  PROVE  MutexOK' /\ (Jammed => Jammed')
  <1>1. logging' = logging /\ (hpc' = hpc \/ hpc' = [hpc EXCEPT ![t] = Append(hpc[t], "log1")])
    BY DEF Signal
  <1>2. CASE hpc' = hpc
    BY <1>1, <1>2 DEF MutexOK, Jammed
  <1>3. CASE hpc' = [hpc EXCEPT ![t] = Append(hpc[t], "log1")]
    <2> PICK L : L = Len(hpc[t])
      OBVIOUS
    <2>1. /\ L \in Nat /\ DOMAIN hpc[t] = 1..L /\ DOMAIN hpc'[t] = 1..(L + 1)
          /\ Len(hpc'[t]) = L + 1 /\ hpc'[t][L + 1] = "log1" /\ hpc'[t] # <<>>
          /\ \A n \in 1..L : hpc'[t][n] = hpc[t][n]
          /\ \A u \in Threads : u # t => hpc'[u] = hpc[u]
      <3>1. hpc[t] \in Seq({"log1", "log1in", "set", "log2", "log2in"})
            /\ hpc'[t] = Append(hpc[t], "log1")
        BY <1>3 DEF TypeOK
      <3>2. PICK q : q = hpc[t]
        OBVIOUS
      <3>3. /\ Len(q) \in Nat /\ DOMAIN q = 1..Len(q)
            /\ Len(Append(q, "log1")) = Len(q) + 1
            /\ DOMAIN Append(q, "log1") = 1..(Len(q) + 1)
            /\ Append(q, "log1")[Len(q) + 1] = "log1" /\ Append(q, "log1") # <<>>
            /\ \A n \in 1..Len(q) : Append(q, "log1")[n] = q[n]
        BY <3>1, <3>2
      <3>4. \A u \in Threads : u # t => hpc'[u] = hpc[u]
        BY <1>3 DEF TypeOK
      <3> QED
        BY <3>1, <3>2, <3>3, <3>4
    <2>2. ASSUME NEW u \in Threads, NEW n \in DOMAIN hpc'[u], NEW m \in DOMAIN hpc'[u],
                 n < m, hpc'[u][n] \in InLogger
          PROVE  hpc'[u][m] = "log1"
      <3>1. CASE u = t
        <4>1. n \in 1..L /\ (m \in 1..L \/ m = L + 1)
          BY <2>1, <2>2, <3>1
        <4> QED
          BY <2>1, <2>2, <3>1, <4>1 DEF MutexOK
      <3>2. CASE u # t
        BY <2>1, <2>2, <3>2 DEF MutexOK
      <3> QED
        BY <3>1, <3>2
    <2>3. logging' = "in" => \A n \in DOMAIN hpc'[Main] : hpc'[Main][n] = "log1"
      <3>1. CASE t = Main
        <4>1. \A n \in 1..(L + 1) : n \in 1..L \/ n = L + 1
          BY <2>1
        <4> QED
          BY <1>1, <2>1, <3>1, <4>1 DEF MutexOK
      <3>2. CASE t # Main
        BY <1>1, <2>1, <3>2, ConstantFacts DEF MutexOK
      <3> QED
        BY <3>1, <3>2
    <2>4. MutexOK'
      BY <2>2, <2>3 DEF MutexOK
    <2>5. \A u \in Threads :
            (\E n \in 1..(Len(hpc[u]) - 1) : hpc[u][n] \in InLogger)
              => (\E n \in 1..(Len(hpc'[u]) - 1) : hpc'[u][n] \in InLogger)
      <3>1. \A n \in 1..(L - 1) : n \in 1..L
        BY <2>1
      <3>2. 1..(Len(hpc'[t]) - 1) = 1..L
        BY <2>1
      <3> QED
        BY <2>1, <3>1, <3>2
    <2>6. (logging = "in" /\ hpc[Main] # <<>>) => (logging' = "in" /\ hpc'[Main] # <<>>)
      BY <1>1, <2>1, ConstantFacts
    <2> QED
      BY <2>4, <2>5, <2>6, Zenon DEF Jammed
  <1> QED
    BY <1>1, <1>2, <1>3

LEMMA PoolMutex ==
  ASSUME MutexOK, NEW t \in PoolThreads, StartDispatch(t) \/ Serve(t) \/ Served(t)
  PROVE  MutexOK' /\ (Jammed' <=> Jammed)
  <1>1. UNCHANGED <<logging, hpc>>
    BY DEF StartDispatch, Serve, Served, mainVars, sigVars
  <1> QED
    BY <1>1 DEF MutexOK, Jammed

-----------------------------------------------------------------------------
(* The owners of the event bases.                                          *)

\* Where the main thread has a base, or an evhttp, under construction, and
\* where the evhttp of the threadParam at hand is gone.
Owning == {"evhttp", "accept", "commit", "freebase"}

LEMMA OwnersKept ==
  ASSUME BaseOwnedOnce, mpc # "crashed", UNCHANGED <<base, http, params, del>>,
         \/ mpc \notin Owning /\ mpc' \notin Owning
         \/ UNCHANGED <<mpc, i>>
  PROVE  BaseOwnedOnce'
  <1>1. UNCHANGED <<Undeleted, Deleting>>
    BY DEF Undeleted, Deleting
  <1>2. CASE UNCHANGED <<mpc, i>>
    BY <1>1, <1>2 DEF BaseOwnedOnce, Building
  <1>3. CASE mpc \notin Owning /\ mpc' \notin Owning
    BY <1>1, <1>3 DEF BaseOwnedOnce, Building, Owning
  <1> QED
    BY <1>2, <1>3

LEMMA NewBaseOwners ==
  ASSUME TypeOK, LoopsOK, BaseOwnedOnce, NewBase
  PROVE  BaseOwnedOnce'
  <1>1. mpc = "evbase" /\ i \in Loops /\ UNCHANGED <<http, params, del, Undeleted, Deleting>>
    BY ConstantFacts DEF NewBase, At, LoopsOK, TypeOK, InLoop, Undeleted, Deleting
  <1>2. CASE base' = [base EXCEPT ![i] = "live"] /\ GoTo("evhttp") /\ i' = i
    <2>1. mpc' = "evhttp"
      BY <1>2 DEF GoTo
    <2>2. {k \in Loops : base'[k] = "live"} = {k \in Loops : base[k] = "live"} \cup {i}
      BY <1>1, <1>2 DEF TypeOK
    <2> QED
      BY <1>1, <1>2, <2>1, <2>2 DEF BaseOwnedOnce, Building
  <1>3. CASE base' = base /\ NextLoop
    BY <1>1, <1>3, OwnersKept DEF NextLoop, GoTo, Owning
  <1> QED
    BY <1>2, <1>3 DEF NewBase

LEMMA NewHttpOwners ==
  ASSUME TypeOK, LoopsOK, BaseOwnedOnce, NewHttp
  PROVE  BaseOwnedOnce'
  <1>1. /\ mpc = "evhttp" /\ i \in Loops
        /\ UNCHANGED <<params, del, Undeleted, Deleting>> /\ i \notin Undeleted
    BY ConstantFacts, UndeletedFacts
    DEF NewHttp, At, LoopsOK, TypeOK, InLoop, Undeleted, Deleting
  <1>2. CASE http' = [http EXCEPT ![i] = "live"] /\ base' = base /\ GoTo("accept") /\ i' = i
    <2>1. mpc' = "accept"
      BY <1>2 DEF GoTo
    <2>2. {k \in Loops : http'[k] = "live"} = {k \in Loops : http[k] = "live"} \cup {i}
      BY <1>1, <1>2 DEF TypeOK
    <2> QED
      BY <1>1, <1>2, <2>1, <2>2 DEF BaseOwnedOnce, Building
  <1>3. CASE base' = [base EXCEPT ![i] = "freed"] /\ http' = http /\ NextLoop
    <2>1. mpc' = "loop"
      BY <1>3 DEF NextLoop, GoTo
    <2>2. {k \in Loops : base'[k] = "live"} = {k \in Loops : base[k] = "live"} \ {i}
      BY <1>1, <1>3 DEF TypeOK
    <2> QED
      BY <1>1, <1>3, <2>1, <2>2 DEF BaseOwnedOnce, Building
  <1> QED
    BY <1>2, <1>3 DEF NewHttp

LEMMA AcceptSocketOwners ==
  ASSUME TypeOK, LoopsOK, BaseOwnedOnce, AcceptSocket
  PROVE  BaseOwnedOnce'
  <1>1. /\ mpc = "accept" /\ i \in Loops /\ i' = i
        /\ UNCHANGED <<params, del, Undeleted, Deleting>> /\ i \notin Undeleted
    BY ConstantFacts, UndeletedFacts
    DEF AcceptSocket, At, LoopsOK, TypeOK, InLoop, Undeleted, Deleting
  <1>2. CASE GoTo("commit") /\ UNCHANGED <<base, http>>
    BY <1>1, <1>2 DEF BaseOwnedOnce, Building, GoTo
  <1>3. CASE /\ http' = [http EXCEPT ![i] = "freed"]
             /\ base' = [base EXCEPT ![i] = "freed"] /\ GoTo("param")
    <2>1. mpc' = "param"
      BY <1>3 DEF GoTo
    <2>2. /\ {k \in Loops : base'[k] = "live"} = {k \in Loops : base[k] = "live"} \ {i}
          /\ {k \in Loops : http'[k] = "live"} = {k \in Loops : http[k] = "live"} \ {i}
      BY <1>1, <1>3 DEF TypeOK
    <2> QED
      BY <1>1, <1>3, <2>1, <2>2 DEF BaseOwnedOnce, Building
  <1> QED
    BY <1>2, <1>3 DEF AcceptSocket

LEMMA CommitLoopOwners ==
  ASSUME TypeOK, LoopsOK, BaseOwnedOnce, CommitLoop
  PROVE  BaseOwnedOnce'
  <1> DEFINE L == Len(params)
  <1>1. /\ mpc = "commit" /\ mpc' = "loop" /\ params' = Append(params, i)
        /\ UNCHANGED <<base, http, del>>
    BY DEF CommitLoop, At, NextLoop, GoTo
  <1>2. params \in Seq(Loops) /\ L \in Nat /\ i \in Loops /\ del \in 0..L
    BY <1>1, ConstantFacts DEF TypeOK, LoopsOK, InLoop
  <1>3. /\ Len(params') = L + 1 /\ DOMAIN params = 1..L /\ DOMAIN params' = 1..(L + 1)
        /\ \A j \in 1..L : params'[j] = params[j]
        /\ params'[L + 1] = i
    BY <1>1, <1>2
  <1>4. Undeleted' = Undeleted \cup {i}
    <2>1. (del + 1)..(L + 1) = ((del + 1)..L) \cup {L + 1} /\ (del + 1)..L \subseteq 1..L
      BY <1>2
    <2>2. Undeleted' = {params'[j] : j \in (del + 1)..(L + 1)}
      BY <1>1, <1>3 DEF Undeleted
    <2>3. \A j \in (del + 1)..L : params'[j] = params[j]
      BY <1>3, <2>1
    <2>4. Undeleted = {params[j] : j \in (del + 1)..L}
      BY DEF Undeleted
    <2> DEFINE Rest == (del + 1)..L
               last == L + 1
    <2>5. /\ (del + 1)..last = Rest \cup {last}
          /\ \A j \in Rest : params'[j] = params[j]
          /\ params'[last] = i
      BY <1>3, <2>1, <2>3
    <2> HIDE DEF Rest, last
    <2>6. {params'[j] : j \in Rest \cup {last}} = {params[j] : j \in Rest} \cup {i}
      BY <2>5
    <2> QED
      BY <2>2, <2>4, <2>5, <2>6 DEF Rest, last
  <1>5. IsInjective(params')
    <2>1. \A j \in 1..L : params[j] # i
      <3>1. \A j \in 1..L : params[j] \in Loops /\ params[j] < i
        BY <1>2 DEF LoopsOK
      <3>2. \A j \in 1..L : params[j] \in Int
        BY <3>1 DEF Loops
      <3> QED
        BY <1>2, <3>1, <3>2 DEF Loops
    <2>2. \A j \in 1..(L + 1) : j \in 1..L \/ j = L + 1
      BY <1>2
    <2>3. \A a, b \in 1..L : params[a] = params[b] => a = b
      BY <1>1, <1>3 DEF BaseOwnedOnce, IsInjective
    <2> QED
      BY <1>3, <2>1, <2>2, <2>3 DEF IsInjective
  <1> QED
    BY <1>1, <1>4, <1>5 DEF BaseOwnedOnce, Building

LEMMA FreeHttpOwners ==
  ASSUME TypeOK, LoopsOK, BaseOwnedOnce, FreeHttp
  PROVE  BaseOwnedOnce'
  <1>1. /\ mpc = "freehttp" /\ mpc' = "freebase"
        /\ UNCHANGED <<base, params, del, i, Undeleted, Deleting>>
        /\ http' = [http EXCEPT ![Deleting] = "freed"]
    BY DEF FreeHttp, At, GoTo, Undeleted, Deleting
  <1>2. Deleting \in Loops
    BY <1>1, DeletingFacts DEF Deletion
  <1>3. {k \in Loops : http'[k] = "live"} = {k \in Loops : http[k] = "live"} \ {Deleting}
    BY <1>1, <1>2 DEF TypeOK
  <1> QED
    BY <1>1, <1>3 DEF BaseOwnedOnce, Building

\* The threadParam that is deleted is the only owner of its base.
LEMMA FreeBaseOwners ==
  ASSUME TypeOK, LoopsOK, BaseOwnedOnce, FreeBase
  PROVE  BaseOwnedOnce'
  <1> PICK c : c = Deleting
    OBVIOUS
  <1> DEFINE L == Len(params)
  <1>1. /\ mpc = "freebase" /\ mpc' = "param" /\ UNCHANGED <<http, params, i>>
        /\ base' = [base EXCEPT ![c] = "freed"] /\ del' = del + 1
    BY DEF FreeBase, At, GoTo
  <1>2. c \in Loops /\ c = params[del + 1] /\ del + 1 \in 1..L /\ L \in Nat /\ del \in Nat
        /\ DOMAIN params = 1..L
    BY <1>1, DeletingFacts DEF Deletion, TypeOK
  <1>3. {k \in Loops : base'[k] = "live"} = {k \in Loops : base[k] = "live"} \ {c}
    BY <1>1, <1>2 DEF TypeOK
  <1>4. Undeleted' = Undeleted \ {c}
    <2>1. /\ (del + 1)..L = ((del + 2)..L) \cup {del + 1}
          /\ (del + 2)..L \subseteq 1..L /\ del + 1 \notin (del + 2)..L
      BY <1>2
    <2>2. \A a, b \in 1..L : params[a] = params[b] => a = b
      BY <1>1, <1>2 DEF BaseOwnedOnce, IsInjective
    <2>3. \A j \in (del + 2)..L : params[j] # c
      BY <1>2, <2>1, <2>2
    <2>4. Undeleted' = {params[j] : j \in (del + 2)..L}
      BY <1>1, <1>2 DEF Undeleted
    <2>5. Undeleted = {params[j] : j \in (del + 1)..L}
      BY DEF Undeleted
    <2> QED
      BY <1>2, <2>1, <2>3, <2>4, <2>5
  <1> QED
    BY <1>1, <1>3, <1>4 DEF BaseOwnedOnce, Building

LEMMA OwnersStep ==
  ASSUME TypeOK, LoopsOK, BaseOwnedOnce, MainStep
  PROVE  BaseOwnedOnce'
  <1>1. CASE \/ LogAcquire \/ LogDone \/ InitLogger \/ LoadConfig \/ BindSocket \/ CreatePool \/ InitFdfs
             \/ InitFailed \/ StartService \/ BeginLoop \/ Connect \/ GiveUp \/ ServiceExits
             \/ DeleteParam \/ LoopBreak \/ DestroyFdfs \/ CloseListen \/ DeletePool
             \/ ClearInstance \/ Exit
    <2>1. UNCHANGED <<base, http, params, del>>
      BY <1>1
      DEF LogAcquire, LogDone, InitLogger, LoadConfig, BindSocket, CreatePool, InitFdfs, InitFailed,
          StartService, BeginLoop, Connect, GiveUp, ServiceExits, DeleteParam, LoopBreak,
          DestroyFdfs, CloseListen, DeletePool, ClearInstance, Exit, loopVars
    <2>2. mpc # "crashed"
      BY <1>1
      DEF LogAcquire, LogDone, InitLogger, LoadConfig, BindSocket, CreatePool, InitFdfs, InitFailed,
          StartService, BeginLoop, Connect, GiveUp, ServiceExits, DeleteParam, LoopBreak,
          DestroyFdfs, CloseListen, DeletePool, ClearInstance, Exit, At, Alive
    <2>3. \/ mpc \notin Owning /\ mpc' \notin Owning
          \/ UNCHANGED <<mpc, i>>
      BY <1>1
      DEF LogAcquire, LogDone, InitLogger, LoadConfig, BindSocket, CreatePool, InitFdfs, InitFailed,
          StartService, BeginLoop, Connect, GiveUp, ServiceExits, DeleteParam, LoopBreak,
          DestroyFdfs, CloseListen, DeletePool, ClearInstance, Exit, At, GoTo, LogThenGoTo,
          NextLoop, Owning, loopVars
    <2> QED
      BY <2>1, <2>2, <2>3, OwnersKept
  <1> QED
    BY <1>1, NewBaseOwners, NewHttpOwners, AcceptSocketOwners, CommitLoopOwners,
       FreeHttpOwners, FreeBaseOwners
    DEF MainStep

-----------------------------------------------------------------------------
(* The invariant.                                                          *)

LEMMA InitService == Init => ServiceInv
  <1> SUFFICES ASSUME Init PROVE ServiceInv
    OBVIOUS
  <1>1. TypeOK
    BY InitTypes
  <1>2. mpc = "start" /\ params = <<>> /\ Len(params) = 0 /\ del = 0
    BY DEF Init
  <1>3. LoopsOK /\ ServiceUp /\ SignalOK
    BY <1>2 DEF Init, LoopsOK, ServiceUp, SignalOK, Starting, InLoop, Serving, Deletion,
                Closing
  <1>4. Undeleted = {} /\ IsInjective(params)
    BY <1>2 DEF Undeleted, IsInjective
  <1>5. {k \in Loops : base[k] = "live"} = {} /\ {k \in Loops : http[k] = "live"} = {}
    BY DEF Init
  <1>6. MutexOK
    BY DEF Init, MutexOK
  <1> QED
    BY <1>1, <1>2, <1>3, <1>4, <1>5, <1>6 DEF ServiceInv, BaseOwnedOnce, Building

LEMMA NextService ==
  ASSUME ServiceInv, [Next]_vars
  PROVE  ServiceInv'
  <1> USE DEF ServiceInv
  <1>1. CASE MainStep
    <2>1. TypeOK'
      BY <1>1, InitStepTypes, BuildStepTypes, DtorStepTypes DEF MainStep
    <2> QED
      BY <1>1, <2>1, LoopsStep, ServiceUpStep, SignalOKStep, MainMutex, OwnersStep
  <1>2. CASE \/ \E t \in PoolThreads : StartDispatch(t) \/ Serve(t) \/ Served(t)
             \/ \E t \in Threads : Signal(t) \/ HandlerStep(t)
    <2>1. TypeOK'
      BY <1>2, PoolStepTypes, SignalStepTypes
    <2>2. /\ mpc' = mpc \/ mpc' = "crashed"
          /\ UNCHANGED <<logging, logger, pool, fdfs, instance, i, base, http, params, del>>
          /\ mpc \notin {"gone", "crashed"}
      BY <1>2, OtherSteps DEF initVars, loopVars
    <2>3. LoopsOK' /\ ServiceUp' /\ SignalOK'
      BY <2>2 DEF LoopsOK, ServiceUp, SignalOK, Starting, InLoop, Serving, Deletion, Closing
    <2>4. BaseOwnedOnce'
      <3>1. CASE mpc' = mpc
        BY <2>2, <3>1, OwnersKept
      <3>2. CASE mpc' = "crashed"
        BY <3>2 DEF BaseOwnedOnce
      <3> QED
        BY <2>2, <3>1, <3>2
    <2>5. MutexOK'
      BY <1>2, PoolMutex, SignalMutex, HandlerMutex
    <2> QED
      BY <2>1, <2>3, <2>4, <2>5
  <1>3. CASE UNCHANGED vars
    <2>1. TypeOK' /\ LoopsOK' /\ ServiceUp' /\ SignalOK' /\ MutexOK'
      BY <1>3 DEF vars, TypeOK, LoopsOK, ServiceUp, SignalOK, MutexOK
    <2>2. BaseOwnedOnce'
      BY <1>3 DEF vars, BaseOwnedOnce, Undeleted, Building, Deleting
    <2> QED
      BY <2>1, <2>2
  <1> QED
    BY <1>1, <1>2, <1>3 DEF Next

\* The main thread's control, what is up, when a signal is fatal and who owns
\* the event bases, together: the inductive invariant of the process.
THEOREM ServiceInvHolds == Spec => []ServiceInv
  BY InitService, NextService, PTL DEF Spec

\* Every variable keeps its type; in particular startService never indexes
\* past the loops that the configuration asked for.
THEOREM ServiceTypeCorrect == Spec => []TypeOK
  <1>1. ServiceInv => TypeOK
    BY DEF ServiceInv
  <1> QED
    BY <1>1, ServiceInvHolds, PTL

\* Every event_base and every evhttp has exactly one owner, on the error paths
\* of startService and in ~threadParam, for any number of loops.
THEOREM BaseOwnedOnceHolds == Spec => []BaseOwnedOnce
  <1>1. ServiceInv => BaseOwnedOnce
    BY DEF ServiceInv
  <1> QED
    BY <1>1, ServiceInvHolds, PTL

\* A live evhttp is one that startService still builds or that a threadParam
\* still owns: then init is over and the destruction has not gone further.
LEMMA LiveHttpWhere ==
  ASSUME ServiceInv, Alive, NEW k \in Loops, http[k] = "live"
  PROVE  mpc \in Serving \/ (params # <<>> /\ mpc \in {"param"} \cup Deletion)
  <1> USE DEF ServiceInv
  <1>1. k \in Undeleted \cup Building({"accept", "commit"})
    BY DEF BaseOwnedOnce, Alive
  <1>2. CASE k \in Undeleted
    <2>1. /\ params \in Seq(Loops) /\ Len(params) \in Nat /\ del \in Nat
      BY DEF TypeOK
    <2>2. PICK j \in (del + 1)..Len(params) : k = params[j]
      BY <1>2 DEF Undeleted
    <2>3. del < Len(params) /\ Len(params) > 0
      BY <2>1, <2>2
    <2>4. params # <<>>
      BY <2>3
    <2>5. mpc \notin Starting \cup Closing \cup {"crashed"}
      BY <2>1, <2>3, <2>4 DEF LoopsOK, Alive
    <2>6. mpc \in Serving \cup {"param"} \cup Deletion
      BY <2>5 DEF TypeOK, MainPC, Starting, Closing, Serving, InLoop, Deletion
    <2> QED
      BY <2>4, <2>6
  <1>3. CASE k \in Building({"accept", "commit"})
    BY <1>3 DEF Building, Serving, InLoop
  <1> QED
    BY <1>1, <1>2, <1>3

\* A handler that runs has the FastDFS client, the pool and the instance.
THEOREM HandlerHasServiceHolds == Spec => []HandlerHasService
  <1>1. ServiceInv => HandlerHasService
    BY LiveHttpWhere DEF HandlerHasService, ServiceInv, ServiceUp
  <1> QED
    BY <1>1, ServiceInvHolds, PTL

-----------------------------------------------------------------------------
(* The process implements ProxyLife.                                       *)

\* A dead process is at the end of its main thread.
LEMMA StageFacts ==
  /\ Stage = "dead" <=> ~Alive
  /\ mpc \in Serving => Stage = "serving"
  /\ mpc \in {"param"} \cup Deletion => Stage = "leaving"
  BY DEF Stage, Alive, Serving, InLoop, Deletion, DtorPC

\* The stages of the main thread follow one another as in ProxyLife, and told
\* is only kept within the service.
LEMMA MainStages ==
  ASSUME TypeOK, MainStep
  PROVE  \/ Stage' = Stage /\ Told' = Told
         \/ Stage' \in Abstract!Successors[Stage] /\ ~Told'
  <1> USE DEF DtorPC
  <1>1. CASE LogAcquire \/ LogDone
    <2>1. UNCHANGED <<mpc, isReady>>
      BY <1>1 DEF LogAcquire, LogDone
    <2> QED
      BY <2>1 DEF Stage, Told
  <1>2. CASE \/ InitLogger \/ LoadConfig \/ BindSocket \/ CreatePool \/ InitFdfs \/ InitFailed
    <2>1. \/ mpc = "start" /\ mpc' \in {"config", "crashed"}
          \/ mpc = "config" /\ mpc' \in {"socket", "failed", "looping"}
          \/ mpc = "socket" /\ mpc' \in {"pool", "failed"}
          \/ mpc = "pool" /\ mpc' \in {"fdfs", "crashed"}
          \/ mpc = "fdfs" /\ (mpc' = "failed" \/ (mpc' = "serve" /\ isReady'))
          \/ mpc = "failed" /\ mpc' = "param"
      BY <1>2 DEF InitLogger, LoadConfig, BindSocket, CreatePool, InitFdfs, InitFailed, At,
                  GoTo, LogThenGoTo
    <2> QED
      BY <2>1 DEF Stage, Told, Abstract!Successors
  <1>3. CASE \/ StartService \/ BeginLoop \/ Connect \/ GiveUp \/ NewBase \/ NewHttp
             \/ AcceptSocket \/ CommitLoop \/ ServiceExits
    <2>1. /\ mpc \in Serving /\ mpc' \in Serving \cup {"param"} /\ isReady' = isReady
      BY <1>3 DEF StartService, BeginLoop, Connect, GiveUp, NewBase, NewHttp, AcceptSocket,
                  CommitLoop, ServiceExits, NextLoop, At, GoTo, LogThenGoTo, Serving, InLoop
    <2>2. Stage = "serving"
      BY <2>1 DEF Stage, Serving, InLoop
    <2>3. CASE mpc' \in Serving
      <3>1. Stage' = "serving"
        BY <2>3 DEF Stage, Serving, InLoop
      <3>2. Told' = Told
        BY <2>1, <2>3 DEF Told, Serving, InLoop
      <3> QED
        BY <2>2, <3>1, <3>2
    <2>4. CASE mpc' = "param"
      BY <2>2, <2>4 DEF Stage, Told, Abstract!Successors
    <2> QED
      BY <2>1, <2>3, <2>4
  <1>4. CASE \/ DeleteParam \/ LoopBreak \/ FreeHttp \/ FreeBase
             \/ DestroyFdfs \/ CloseListen \/ DeletePool \/ ClearInstance \/ Exit
    <2>1. mpc \in DtorPC \ {"gone"} /\ mpc' \in DtorPC \cup {"crashed", "blocked"}
      BY <1>4 DEF DeleteParam, LoopBreak, FreeHttp, FreeBase, DestroyFdfs, CloseListen,
                  DeletePool, ClearInstance, Exit, At, GoTo
    <2>2. Stage = "leaving" /\ ~Told /\ Stage' \in {"leaving", "dead", "hung"} /\ ~Told'
      BY <2>1 DEF Stage, Told
    <2> QED
      BY <2>2 DEF Abstract!Successors, Told
  <1> QED
    BY <1>1, <1>2, <1>3, <1>4 DEF MainStep

\* A step to the next stage: what is stuck stays so, unless it dies.
LEMMA MovedLife ==
  ASSUME Stage' \in Abstract!Successors[Stage], ~Told', Alive, Jammed' <=> Jammed
  PROVE  Life' \in Abstract!Advance(Life)
  <1>1. Stuck' <=> (Stuck /\ Stage' # "dead")
    <2>1. Stage' = "dead" <=> ~Alive'
      BY DEF Stage, Alive, DtorPC
    <2> QED
      BY <2>1 DEF Stuck
  <1>2. /\ Life' = [stage |-> Stage', told |-> FALSE, stuck |-> (Stuck /\ Stage' # "dead")]
        /\ Life.stage = Stage /\ Life.stuck = Stuck
    <2>1. Told' = FALSE /\ Stuck' = (Stuck /\ Stage' # "dead")
      BY <1>1, Zenon DEF Told, Stuck
    <2> QED
      BY <2>1, Zenon DEF Life
  <1>3. Life' = Abstract!Moved(Life, Stage')
    BY <1>2, Zenon DEF Abstract!Moved
  <1> QED
    BY <1>2, <1>3 DEF Abstract!Advance

LEMMA MainLife ==
  ASSUME ServiceInv, MainStep
  PROVE  Life' \in {Life} \cup Abstract!Advance(Life) /\ UNCHANGED sigVars
  <1>1. UNCHANGED sigVars /\ Alive /\ (Jammed' <=> Jammed)
    BY MainOutside, MainMutex DEF ServiceInv
  <1>2. CASE Stage' = Stage /\ Told' = Told
    <2>1. Alive'
      BY <1>1, <1>2 DEF Stage, Alive, DtorPC
    <2>2. Stuck' = Stuck
      BY <1>1, <2>1 DEF Stuck
    <2> QED
      BY <1>1, <1>2, <2>2 DEF Life
  <1>3. CASE Stage' \in Abstract!Successors[Stage] /\ ~Told'
    BY <1>1, <1>3, MovedLife
  <1> QED
    BY <1>1, <1>2, <1>3, MainStages DEF ServiceInv

\* A request may crash the process, while it serves or leaves.
LEMMA PoolLife ==
  ASSUME ServiceInv, NEW t \in PoolThreads, StartDispatch(t) \/ Serve(t) \/ Served(t)
  PROVE  Life' \in {Life} \cup Abstract!Advance(Life) /\ UNCHANGED sigVars
  <1>1. UNCHANGED <<logging, isReady, hpc, nsig>> /\ (Jammed' <=> Jammed) /\ UNCHANGED sigVars
    BY DEF StartDispatch, Serve, Served, mainVars, sigVars, Jammed
  <1>2. CASE mpc' = mpc
    <2>1. Stage' = Stage /\ Told' = Told /\ Stuck' = Stuck
      BY <1>1, <1>2 DEF Stage, Told, Stuck, Alive
    <2> QED
      BY <1>1, <2>1 DEF Life
  <1>3. CASE mpc' # mpc
    <2>1. mpc' = "crashed" /\ Alive /\ slot[t] \in Loops /\ http[slot[t]] = "live"
      BY <1>3 DEF StartDispatch, Serve, Served, mainVars, Idle
    <2>2. mpc \in Serving \/ mpc \in {"param"} \cup Deletion
      BY <2>1, LiveHttpWhere
    <2>3. Stage \in {"serving", "leaving"}
      BY <2>2, StageFacts
    <2>4. Stage' = "dead" /\ ~Told'
      BY <2>1 DEF Stage, Told, DtorPC
    <2>5. Stage' \in Abstract!Successors[Stage]
      BY <2>3, <2>4 DEF Abstract!Successors
    <2> QED
      BY <1>1, <2>1, <2>4, <2>5, MovedLife
  <1> QED
    BY <1>2, <1>3

LEMMA LifeUpdates ==
  ASSUME NEW s, NEW d, NEW k, NEW e
  PROVE  /\ [[stage |-> s, told |-> d, stuck |-> k] EXCEPT !.told = e]
               = [stage |-> s, told |-> e, stuck |-> k]
         /\ [[stage |-> s, told |-> d, stuck |-> k] EXCEPT !.stuck = e]
               = [stage |-> s, told |-> d, stuck |-> e]
  OBVIOUS

\* A signal that is delivered.
LEMMA SignalLife ==
  ASSUME ServiceInv, NEW t \in Threads, Signal(t)
  PROVE  Life' \in {Life} \cup Abstract!Terminated(Life) /\ ~UNCHANGED sigVars
  <1> USE DEF ServiceInv
  <1>1. nsig' = nsig + 1 /\ nsig \in Nat /\ UNCHANGED <<logging, isReady>>
        /\ mpc \notin {"gone", "crashed"} /\ (Jammed => Jammed')
    BY ServiceAssumption, SignalMutex DEF Signal, TypeOK, Alive
  <1>2. ~UNCHANGED sigVars
    BY <1>1 DEF sigVars
  <1>3. CASE instance /\ logger
    <2>1. mpc' = mpc
      BY <1>3 DEF Signal
    <2>2. Stage' = Stage /\ Told' = Told
      BY <1>1, <2>1 DEF Stage, Told
    <2>3. CASE Stuck' = Stuck
      BY <1>2, <2>2, <2>3 DEF Life
    <2>4. CASE Stuck' # Stuck
      <3>1. Stuck' = TRUE
        BY <1>1, <2>1, <2>4 DEF Stuck, Alive
      <3>2. Life' = [Life EXCEPT !.stuck = TRUE]
        <4>0. PICK e : e = TRUE
          OBVIOUS
        <4>1. Life' = [stage |-> Stage, told |-> Told, stuck |-> e]
          BY <2>2, <3>1, <4>0, Zenon DEF Life
        <4>2. [Life EXCEPT !.stuck = e] = [stage |-> Stage, told |-> Told, stuck |-> e]
          BY LifeUpdates DEF Life
        <4> QED
          BY <4>0, <4>1, <4>2, Zenon
      <3>3. mpc # "start"
        BY <1>3 DEF SignalOK
      <3>4. Stage \notin {"early", "dead"}
        BY <1>1, <3>3 DEF Stage
      <3>5. Life.stage = Stage
        BY DEF Life
      <3> QED
        BY <1>2, <3>2, <3>4, <3>5 DEF Abstract!Terminated
    <2> QED
      BY <2>3, <2>4
  <1>4. CASE ~(instance /\ logger)
    <2>1. mpc' = "crashed"
      BY <1>4 DEF Signal
    <2>2. Life' = Abstract!Dead
      <3>1. Stage' = "dead"
        BY <2>1 DEF Stage, DtorPC
      <3>2. Told' = FALSE /\ Stuck' = FALSE
        BY <2>1 DEF Told, Stuck, Alive
      <3> QED
        BY <3>1, <3>2 DEF Life, Abstract!Dead, Abstract!In
    <2>3. mpc \in {"start", "exit"}
      BY <1>1, <1>4 DEF SignalOK
    <2>4. Life.stage \in {"early", "leaving"}
      BY <2>3 DEF Life, Stage, DtorPC
    <2> QED
      BY <1>2, <2>2, <2>4 DEF Abstract!Terminated
  <1> QED
    BY <1>3, <1>4

\* A step of the handler: it lowers isReady, and nothing else is seen.
LEMMA HandlerLife ==
  ASSUME ServiceInv, NEW t \in Threads, HandlerStep(t)
  PROVE  Life' \in {Life} \cup Abstract!Terminated(Life) /\ ~UNCHANGED sigVars
  <1> USE DEF ServiceInv
  <1>1. UNCHANGED <<mpc, logging>> /\ hpc' # hpc /\ mpc \notin {"gone", "crashed"}
    BY HandlerFrames
    DEF HandlerStep, HandlerAcquires, HandlerLogs, HandlerSets, HandlerReturns, InHandler,
        mainVars, Alive
  <1>2. ~UNCHANGED sigVars
    BY <1>1 DEF sigVars
  <1>3. Stage' = Stage
    BY <1>1 DEF Stage
  <1>4. Stuck' = Stuck
    BY <1>1, HandlerMutex DEF Stuck, Alive
  <1>5. CASE Told' = Told
    BY <1>2, <1>3, <1>4, <1>5 DEF Life
  <1>6. CASE Told' # Told
    <2>1. mpc \in Serving /\ Told' = TRUE
      BY <1>1, <1>6 DEF HandlerStep, HandlerAcquires, HandlerLogs, HandlerSets,
                        HandlerReturns, Told, Serving, InLoop, mainVars
    <2>2. Stage = "serving"
      BY <2>1 DEF Stage, Serving, InLoop, DtorPC
    <2>3. Life' = [Life EXCEPT !.told = TRUE]
      <3>0. PICK e : e = TRUE
        OBVIOUS
      <3>1. Life' = [stage |-> Stage, told |-> e, stuck |-> Stuck]
        BY <1>3, <1>4, <2>1, <3>0, Zenon DEF Life
      <3>2. [Life EXCEPT !.told = e] = [stage |-> Stage, told |-> e, stuck |-> Stuck]
        BY LifeUpdates DEF Life
      <3> QED
        BY <3>0, <3>1, <3>2, Zenon
    <2>4. Life.stage = "serving"
      BY <2>2 DEF Life
    <2> QED
      BY <1>2, <2>3, <2>4 DEF Abstract!Terminated
  <1> QED
    BY <1>5, <1>6

\* ProxyService implements ProxyLife: the initial states map to a fresh
\* process, and every step to a stutter, an advance or an effect of SIGTERM.
THEOREM ImplementsProxyLifeHolds == Spec => ImplementsProxyLife
  <1> DEFINE LifeStep ==
        Life' \in {Life} \cup (IF UNCHANGED sigVars THEN Abstract!Advance(Life)
                               ELSE Abstract!Terminated(Life))
  <1>1. Init => Life = Abstract!Fresh
    <2> SUFFICES ASSUME Init PROVE Life = Abstract!Fresh
      OBVIOUS
    <2>1. Stage = "early"
      BY DEF Init, Stage, DtorPC
    <2>2. Told = FALSE /\ Stuck = FALSE
      BY DEF Init, Told, Stuck, Jammed
    <2> QED
      BY <2>1, <2>2 DEF Life, Abstract!Fresh, Abstract!In
  <1>2. ServiceInv /\ [Next]_vars => [LifeStep]_vars
    <2> SUFFICES ASSUME ServiceInv, Next PROVE LifeStep
      OBVIOUS
    <2>1. CASE MainStep
      BY <2>1, MainLife
    <2>2. CASE \E t \in PoolThreads : StartDispatch(t) \/ Serve(t) \/ Served(t)
      BY <2>2, PoolLife
    <2>3. CASE \E t \in Threads : Signal(t) \/ HandlerStep(t)
      BY <2>3, SignalLife, HandlerLife
    <2> QED
      BY <2>1, <2>2, <2>3 DEF Next
  <1> QED
    BY <1>1, <1>2, ServiceInvHolds, PTL DEF Spec, ImplementsProxyLife
=============================================================================
