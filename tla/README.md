# FileCacheProxy: a verification project in TLA+

FileCacheProxy is an HTTP front end for FastDFS: clients upload, delete and
query files by HTTP, the proxy forwards each request to the FastDFS trackers and
storage servers, and keeps a record of the uploaded files so that a cleaner can
delete them when they expire. This directory models the program's own code
(`src/`, `scripts/`, `include/thread_pool.h`, `include/fileCacheProxy.h`) and the
one piece of vendored code whose source is in the repository and whose behaviour
under failure all threads depend on, spdlog's rotating file sink. libevent, the
FastDFS client and nlohmann::json appear only as external behaviour.

## Inventory

| Part | Code | State it keeps | Operations | Hard behaviour |
|---|---|---|---|---|
| Thread pool | `include/thread_pool.h` | `_pool`, `_tasks`, `_lock`, `_task_cv`, `_run`, `_idlThrNum` | constructor, `commit`, worker lambda, destructor | wake-ups, order of tasks, counter changed outside the lock, destructor without the lock |
| Service life cycle | `src/main.cpp`, `src/fileCacheProxy.cpp`, `include/fileCacheProxy.h` | `isReady`, logger, `listenfd`, `mThreadPool`, `threadParams`, `_Instance` | `init`, `startService`, `signal_handle`, `~fileCacheProxy`, `~threadParam`, `~Garbo` | signals at any step, failures half way, destruction under running loops |
| Request handlers | `src/fileCacheProxy.cpp` | a tracker connection per loop, the shared stream `fFileID` | `httpd_handler`, `upload_handler`, `delete_handler`, `fileinfo_handler` | failing and half-failing FastDFS calls, unsynchronised record stream, connections never closed, restart |
| Logger | `include/spdlog/sinks/rotating_file_sink-inl.h`, `details/file_helper-inl.h` | log files, `current_size_`, `fd_`, the sink's mutex | log, rotate, reopen, flush | failing renames and opens, a crash between two of them, exceptions with the mutex held |
| Configuration | `src/configReader.cpp`, step 3 of `init` | map of items, stream state, settings | `Load`, `split`, `trim`, `str2int`, the checks of `init` | long lines, a last line without newline, repeated keys, integer widths |
| Utilities | `src/ultilities.cpp` | a buffer | `string_format` | buffer growth |
| Monitor scripts | `scripts/fpmoni.sh`, `fpstart.sh`, `fpstop.sh` | process table | restart, start, stop | check-then-act races between scripts, signals and dying processes |
| Expired file cleaner | `src/expireCleaner.cpp`, `scripts/fpCleanExpire.sh` | record files | select, batch delete, move away | overlapping and killed runs, half-failing deletes |

How they interact. `main` installs the signal handlers, calls `init` and then
`startService` on the singleton. `startService` builds up to `ThreadCount` event
loops, each with its own tracker connection and its own `evhttp` on the one
listening socket, and commits `event_base_dispatch` of each to the pool. A loop
calls the request handlers in its pool thread. The handlers of all loops share
the record stream and the FastDFS cluster. A signal lowers `isReady`,
the main thread's wait ends, `main` returns, and the static object `m_garbo`
deletes the singleton. Around the process, `fpmoni.sh` starts a proxy whenever
`ps` shows none, `fpstart.sh` starts the monitor, `fpstop.sh` kills both, and
`fpCleanExpire.sh` runs the batch delete on the record files of the past.
`PROJECT.json` lists the hazards of each part at their lines.

## Modules

* `TaskPool` is what a pool promises: a first-in-first-out queue of submitted
  tasks, each executed by one slot, none accepted after the close.
* `ThreadPool` is `std::threadpool` in detail. Owner, clients and workers have a
  program counter each; an acquisition of `_lock`, an operation on `_task_cv` and
  a read-modify-write of an atomic is one step. The wait is three steps:
  `DecideToWait` (predicate false, lock held), `Block` (release and wait, atomic)
  and the wake-up, which may be spurious. A critical section is a single step
  after the acquisition because only its holder touches `_tasks`. `committed`
  and `taken` are histories. `ThreadPool` implements `TaskPool` under the mapping
  in `Abstract`: a commit takes effect at the push, a start at the pop.
* `ProxyService` is the process: the main thread (`mpc`), the pool as an instance
  of `TaskPool` whose tasks are loop indices, the loops (`lpc`), and the signal
  handlers on any thread (`hpc[t]` is the stack of those that `t` is in: `main`
  installs four signals and each masks only itself). A log call, of the main thread
  (`logging`) or of a handler, takes the logger's mutex in one step and gives it back
  in another; `Jammed` says that a thread was interrupted in between. Resources have
  the states unset, live or open, and freed or closed. The process may abort when
  the logger cannot be opened or a thread not be created, crash through a tracker
  connection that is NULL, and hang in `Config::Load` ("looping") or in the
  destruction of the pool ("blocked").
* `ProxyLife` is the process as its scripts see it: eight stages, whether it was
  told to end, whether it is stuck, and what SIGTERM may do in each. It has no
  variables. `ProxyService` implements it (`ImplementsProxyLife`, with the mapping
  `Life`); `Monitor` is built on it.
* `Monitor` is the three scripts and the processes they start, stop and miss. A
  slot of `Procs` is used again after a death, and a kill for the old pid does not
  reach the new process. Several `fpstart.sh` (`starting`) may be between their
  check and their start; `overlap` remembers that two were.
* `RequestHandlers` is the handlers in several workers. Every FastDFS call is a
  nondeterministic success or failure, and a failing upload or delete may have
  taken effect. `fFileID << j_str << endl` is a data race in the code: each `<<`
  is a read of the position and then a write for every piece of the FileID
  (`Size`), so that the pieces of several writers may be mixed, and a write during a
  race may leave `Stale`, something nobody wrote. The stream may fail when it is
  opened and at every write (`good`), and nobody looks.
* `RotatingSink` is the logger's files and the calls that write them. The mutex is
  held from the start of a rotation to its end, so only a rotation has steps in
  between: each test-and-remove, each rename and the reopen. Any rename, open or
  write may fail (`Fault`), and `Crash` kills the process at any step and restarts it on
  the files it left. Messages are numbered in the order of the mutex.
* `StringFormat` is the loop of `string_format`, with the sizes it is about.
  `ConfigReader` is `Config::Load` with the position and the error bits of its
  stream. `Setup` extends both with the order of `init` and its conversions.
* `RecordCleaner` is overlapping runs of `fpCleanExpire.sh`, each with the
  value of `expiredays` that it has read (or none) and the `expireCleaner` it waits
  for. The two may be killed together, and the program may die alone, be unable to
  read on or never return from `Config::Load`; `cut` is the set of files that a program
  had and did not read to the end.
* `ThreadPoolProofs`, `ProxyServiceProofs`, `RequestHandlersProofs`,
  `RotatingSinkProofs`, `MonitorProofs`, `ConfigReaderProofs`, `SetupProofs` and
  `RecordCleanerProofs` hold the theorems (those about `StringFormat` are in
  `SetupProofs`); `MC*` modules are for TLC.

## Runs

Passing:

| Run | Shows | Bounds |
|---|---|---|
| `pool_safety` | control invariant, `FIFO`, `OneExecutor`, `IdleAccurate`, `NoLostWakeup`, `DtorStrandsAtMostOne`, refinement of `TaskPool`, `QueuedTaskStarts` | 3 tasks, 2 clients, 3 workers (4 asked for): two committers race with several workers and the growth limit is met |
| `service_safety` | `BaseOwnedOnce`, `HandlerHasService`, `ImplementsProxyLife` | 3 loops, 2 pool threads, 2 connection attempts, 2 signals: a loop stays queued, every error path of `startService` is taken before and after a success, a handler is interrupted by another one |
| `service_liveness` | `SignalEndsService`, `LoopsDispatched`, `DestructionEnds` | 3 loops on a pool of 2 threads, 1 connection attempt that succeeds, 2 signals: the second one may arrive in the first one's handler or during the destruction |
| `handlers_records` | `OneReply`, `HandedOutWasStored`, `StoredIsAccountedFor`, `UploadIsRecorded`, `LinesAreWhole`, `RecordsLostByRestartOnly`, `RequestAnswered` | 1 worker, 3 requests with FileIDs of 2 pieces, 2 descriptors, dropped connections, failing writes, 1 restart: without a second writer the record is complete as long as the stream is good. The first two properties do not need the single worker and are proved for any number |
| `log_rotation` | `Ordered`, `FilesBounded`, `ClosedForcesRotation`, `DropsOldestOnly`, `RotationEnds` | 2 threads, 4 files, 6 messages of 1 or 3 bytes against a limit of 2, 2 faults: rotations on files with gaps, a fault while another one is answered, a message larger than a file |
| `setup` | `FormatFits`, `LoadsWhatIsWritten`, `LoadEnds`, `SettingsLegal` | every file of up to 5 characters over five letters and two-line files of 3 + 3, lines of at most 3 characters fit; 7-bit long, 5-bit int, 3-bit port with values on both sides of every limit |
| `monitor` | `OneProxy`, `SecondStopMissesNone`, `ServingKeepsRecords`, `StoppedProxyEnds`, `KeepsServing` | 2 monitors, 2 processes, 2 overlapping starts, repeated stops, 1 fault |
| `record_cleaner` | `FreshKept`, `MovedWasTried`, `RunEnds` | 2 overlapping runs, 2 record files of different days (2 FileIDs and 1) and `process.log`, 3 days, every run with its own limit of 1 or 2 days or none, any number of kills and of programs that die alone |

All type invariants are proved; those of `ProxyService` and `RecordCleaner` are also
in a run, that of `ThreadPool` is a part of `PoolInv`, that of `RequestHandlers` a part of
`HandlerInv`. `setup` reduces the integer
widths: what matters is that a long is wider than an int and an int than a port,
and that the test values lie around each of the limits. A line buffer of 4 stands
for the 100 of `getline(buffer, 100)`.

Expected violations. Each checks one statement that the repository makes and that
the code does not keep; `PROJECT.json` quotes the statement under `findings`.

| Run | What TLC shows |
|---|---|
| `service_free_busy` | `~threadParam` frees the `evhttp` of a loop that is serving |
| `handlers_record_race` | two workers lose or merge records |
| `handlers_tracker_lost` | the connection of a worker that the tracker has closed never comes back (what an upload is then told is "Service Temporarily Unavailable") |
| `setup_port_range` | `init` goes on with a port outside 0..65535, which the test at line 120 calls an error: the value is truncated before it is tested |

What the passing properties say of known weaknesses. Where the code keeps a weaker
promise than one would like, the property states what does hold:

* `DtorStrandsAtMostOne`: the destructor of the pool writes `_run` and calls
  `notify_all` without the lock, so a worker between its test and its wait misses
  the notification and blocks for ever; it is at most one.
* `DestructionEnds`: two things keep the process from ending once it leaves the
  service. A signal that interrupts a thread inside a log call, the main thread's
  or another handler's, waits for a mutex that its own thread holds, and the main
  thread's last log call waits with it; and a worker that `DtorStrandsAtMostOne`
  leaves behind may still wait on the condition variable that is destroyed.
* `LoopsDispatched`: of more than `THREADPOOL_MAX_NUM` loops that many are
  dispatched; the others stay in the queue for ever although they are bound to the
  listening socket.
* `ImplementsProxyLife`, `StoppedProxyEnds`: a SIGTERM that is handled during `init`
  has no effect, because `init` ends with `isReady = true`; one that is handled
  while the proxy serves ends it, unless it interrupts a log call.
* `KeepsServing`: the monitor restarts a proxy that died or failed to start; a
  proxy that is stuck in its logger, that never comes out of `Config::Load` or that
  hangs when it deletes its pool is still in the list of `ps` and stays.
* `OneProxy`, `ServingKeepsRecords`: two `fpstart.sh` that overlap start two
  monitors and two proxies, the second of which truncates the record file of the
  first before its `bind` fails; nothing else does this.
* `SecondStopMissesNone`: `fpstop.sh` reads the pids before it kills the monitor and
  can miss a proxy started in between; a second call cannot.
* `RecordsLostByRestartOnly`: `init` opens the record file with truncation, so a
  restart by the monitor loses all records; nothing else does.
* `StoredIsAccountedFor`, `UploadIsRecorded`: an upload that fails after it took effect
  leaves a file that only the 503 hints at; and once the record stream has failed,
  at its opening or at a write, no FileID is recorded any more and nobody is told.
* `LinesAreWhole`: a write that fails half way leaves an unfinished last line, which
  `fgets` of the cleaner reads like any other; the lines before it are intact. With
  two workers the property is false, like `UploadIsRecorded`: racing writers may
  leave a line that is no FileID at all.
* `MovedWasTried`: a record file is put away although deletes failed, or the program
  could not start for it, died alone or could not read on, and is then never looked
  at again.
* `RunEnds`: a run of the script waits for ever for a program that does not come out of
  `Config::Load`.
* `LoadsWhatIsWritten`: `Load` does not return for a configuration with a line of 100
  characters or more, it loops for ever; `LoadEnds`: no other file does this.
* `ClosedForcesRotation`: a failed reopen leaves a null `FILE` pointer; what keeps the
  next message from being written through it is that `current_size_` is not reset.

Weaknesses without a property, because reading the lines or an ordinary test shows
them: `CreateTime` is the time of the query; after a failed `init` the destructor
closes and deletes members that were never set; uploads never close their
connection to the storage server (`fds` only grows in `RequestHandlers`);
`evhttp_free` closes the listening socket that the loops share; a successful delete
announces a Content-Length and sends no body; the proxy writes `process.log` and not
the `UploadRecord_<date>.txt` that the cleaner looks for; the cleaner is called as
`fdfs_batch_delete_file` with the FastDFS client configuration where it expects the
proxy's own, in which case `clientConfPath` is empty and `fdfs_client_init` fails
(`ProgramFails`); it hands the FileIDs on with their newline.

Deadlock checking is off in all runs because the modelled processes may stop: a
pool with nothing to do, a process that has ended, no requests or messages left.

`ConnectOutcomes` is the set of things `tracker_get_connection_r` may do. The
FastDFS client library copies the server entry, with `count > 0`, before it
connects, so `nullCounted` is what an unreachable tracker gives; `nullEmpty` is
the case the code's retry loop is written for. The loop tests `info->count` instead of
the returned pointer, so after `nullCounted` a loop is committed with a NULL tracker
connection; `Serve` and `DeleteParam` may then crash the process. Both outcomes are in
`service_safety`.

## Fairness

* `ThreadPool`: weak fairness of the constructor's steps, of the destructor's
  `notify_all`, of a client that holds the lock or has to notify, and of each
  worker. This is scheduling by the operating system. Nothing is assumed of how
  long a task runs, of calls of `commit` or of the destruction.
* `ProxyService`: weak fairness of the main thread (its only waits are `sleep(1)`,
  library calls that return, the logger's mutex, and the two places where the model
  has it hang, "looping" and "blocked", which no step leaves), of the handlers of each
  thread, and of the pool starting a queued loop on a free thread, which
  `QueuedTaskStarts` establishes. Nobody is assumed to get the mutex while it is held.
* `RequestHandlers`: weak fairness of each worker's handler (the FastDFS client
  has network timeouts, so its calls return) and of arriving requests.
* `RotatingSink`: weak fairness of a thread that is inside a log call. No thread has
  to log.
* `Setup`: the main thread is scheduled.
* `Monitor`: weak fairness of every process that is not stuck, outside its faults (a
  hang in `Config::Load` or in the destruction is one, and final), of the delivery of
  each signal, of every monitor (its sleep ends) and of scripts that have begun.
  Nobody has to call `fpstart.sh` or `fpstop.sh`.
* `RecordCleaner`: a run that has begun is scheduled, and the calls of the FastDFS
  client return. A program in `Config::Load` need not ("hung" has no step of its own).

## Proofs

`ThreadPoolProofs` proves, for every set of tasks, every finite set of clients and
every value of the two sizes (`PoolAssumption`: sizes are naturals, threads and
the two null values are distinct, the clients are finite):

* `TypeCorrect` and `PoolInvHolds`. `TypeOK` is not inductive: that the queue
  holds only tasks needs that a client in `push` has a task in its hands, that
  `addThread` does not count below zero needs that `size > 0` there. `PoolInv`
  adds `ControlOK` (which threads exist, when `_run` is set, when a commit can be
  in progress), `LockOK` (the holder of `_lock` is exactly the thread in a
  critical section, and a worker about to block has seen a queue that is still
  empty) and `HandOver` (who has a task in its hands).
* `FIFOHolds`, from `PoolInv` and the laws of concatenation.
* `OneExecutorHolds`, from `OnePlace`: a task is untried, with one client, at one
  position of the queue, with one worker, or gone.
* `Refinement`, step simulation under `PoolInv` and `OnePlace`.
* `IdleAccurateHolds`: the counting invariant by cases of who is busy; that it is
  not negative also needs that nobody is busy before the constructor returns
  (`NothingYet`).
* `DtorStrandsAtMostOneHolds`: before the destructor's notification at most the
  holder of `_lock` is about to block; the notification wakes all that wait.
* `NoLostWakeupHolds`: a counting argument; `LockOK` supplies that the queue is
  empty when a worker blocks.

`RotatingSinkProofs` proves, for any threads, sizes, number of files, messages and
faults (`SinkAssumption`), that `SinkInv` is inductive. `Ordered` alone is not: a
rename keeps the order only because the index it fills has been emptied, which
`RotationOK` says of the loop variable; that the file reopened by a rotation may take
the newest message needs that all messages on disk are older. `FilesBounded` and
`ClosedForcesRotation` need `SizeTracked` (the count in memory is never below the size of the
file) and `MutexOK` (at most one thread rotates). From it follow
`RotatedFilesOrdered`, `FilesStayBounded`, `NoWriteThroughNull`, `SinkTypeCorrect` and,
step by step, the action property `RotationDropsOldest`. `RotationAdvancesHolds` is the
safety part of `RotationEnds`: `RotateLeft` counts what a rotation has yet to do, and
every step taken while the mutex is held, by whomever and failing or not, lowers it.

`MonitorProofs` proves, for any number of processes, monitors, starts and faults, that
`TypeOK /\ OneWatcher /\ OneProxy /\ SecondStopMissesNone` is inductive. `OneProxy` needs
`OneWatcher`: as long as no two starts overlapped there is one monitor or one
`fpstart.sh` at work, and a monitor about to start a proxy is right that there is none.
`SecondStopMissesNone` holds because without a monitor no process is added after the
pids were read. `ServingKeepsRecordsHolds` is the action property that follows.

`ProxyServiceProofs` proves, for any number of loops, pool threads, connection attempts
and signals (`ServiceAssumption`), that `ServiceInv` is inductive, and from it
`ServiceTypeCorrect`, `BaseOwnedOnceHolds`, `HandlerHasServiceHolds` and
`ImplementsProxyLifeHolds`. `BaseOwnedOnce` is not inductive by itself. `LoopsOK` adds
that the loop under construction is younger than every `threadParam`, so that freeing it
takes nothing from another owner and the committed loops stay distinct, and where `del`
stands in each part of the destruction. `ServiceUp` says between which points of the
main thread the FastDFS client, the pool and the instance are there; with
`BaseOwnedOnce` a live `evhttp` puts the main thread between them. The refinement needs
`SignalOK`: a signal can miss the logger only at the very start and the instance only
after `~Garbo`, so that it is fatal in no other stage; and `MutexOK`: a handler above a
thread's or another handler's log call with the mutex is still in its own first log
call. Hence no step of a handler frees a jammed logger or jams a free one
(`HandlerMutex`), and a process that is stuck stays so until it dies. That a request
crashes the process only while it serves or leaves is `LiveHttpWhere`.

`RequestHandlersProofs` proves, for any number of workers, requests, descriptors and
restarts and FileIDs of any length, `OneReplyHolds` and `HandedOutWasStoredHolds`. The
invariant `HandlerInv` adds to `TypeOK` who serves which request (`ServiceOK`), that a
request has its reply exactly when its handler has come to the record (`RepliesOK`) and
that a file exists only from its upload on (`CreatedOK`).
`StoredIsAccountedForHolds`, `UploadIsRecordedHolds`, `LinesAreWholeHolds` and the action
property `RecordsLostByRestartOnlyHolds` have the hypothesis `OneWorker` (a configuration
with `ThreadCount=1`), because with two workers they are false: `handlers_record_race`
is the counterexample. Their invariant, `RecordInv`, adds `LinesOK`: while the stream is good
the file consists of complete lines and, behind the last one, of what the worker has
written so far of its own FileID (`Partial`), and the worker writes at the end of the file.
Once the stream has failed nobody writes any more.

`RecordCleanerProofs` proves, for any record files, FileIDs, runs and days,
`CleanerTypeCorrect`, `FreshKeptHolds` and `MovedWasTriedHolds`. What overlapping runs
may know of each other is in two parts of `CleanerInv`: `HasFile` (the file in a run's
hands and those it has yet to do were expired by its own `days` when it listed them, and
a day that has passed stays past) and `ReadSoFar` (what a run has read of its file is
tried, and it comes to the `mv` only at the end of the file, or with the file in `cut`, or
when another run was faster). `RecordedOnce` assumes that a FileID is in one record
file; FastDFS gives every upload a new one. `RunAdvancesHolds` is the safety part of
`RunEnds`: a run is never put back by another one, and each step of its own takes a file
from its list or lowers `FileLeft`, what it has yet to do with the file in its hands.

`ConfigReaderProofs` is about `Config::Load` on its own, for files, lines and buffers of
any length (`ReaderAssumption`: files are sequences of characters, the buffer is not empty):

* `SplitCorrect`: `split` returns all longest parts of a text without `=`, in their order.
  `split` is a recursive function of a position. That such a function exists
  (`RoundsExist`) and what it returns are proved by `DownInduction`, induction from the end of the
  text for a set of positions, which comes from the least element of its complement: the
  induction theorems of the library, with an operator as a parameter, are not needed.
* `TrimCorrect`: what `trim` cuts off are spaces, and no space is left at an end.
* `ItemOfLine`: the two tokens that `split` finds in a line are the two pieces that
  `Written` asks for, at the same places (`TwoRoundsTwoPieces`, `TwoPiecesTwoRounds`), and a
  line with fewer or more of them gives none.
* `WrittenNext`: inserting the item of the next line gives what is written up to there,
  because lines are known by their starts (`LinesApart`).
* `LoadInv` is inductive. `LoadsWhatIsWritten` alone says nothing before `Load` returns.
  `LineInv` adds that while the stream is good all lines before the position are short and
  that `eofbit` is set only on a good stream; `LoadInv` adds that a good stream stands at
  the start of a line, that the map then holds the items of the lines before it, and, with
  a line in the buffer, that storing it will bring the map up to the position.
* `StreamInv` adds that only a long line makes the stream fail before its end.

`SetupProofs` proves `SettingsLegalHolds` for every width of long, int and port and
every number in the file. `SettingsInv` says from which text each setting was
converted; the rest is arithmetic with a modulus that is a parameter: a number that an
int holds comes through `str2int` unchanged (`str2intExact`), and one that a port holds
through the truncation to `uint16_t` too (`SmallRemainder`). `SetupAssumption` has what C and the platform give: a long is at least as wide
as an int, and the values of an int are a multiple of twice those of a port.
`LoadsWhatIsWrittenHolds` carries `LoadInv` over to the specification of `init`;
`LoadedLinesFit` is the part of it that says that half of a long line is never used.
`ShortLinesKeepStreamGood` and `LoadAdvancesHolds` are the safety part of `LoadEnds`: when
all lines fit, `getline` always meets a good stream and each step lowers `LoadLeft`.
`FormatCorrect` follows from `FormatInv`: the buffer never shrinks below the format string,
and the second buffer is exactly as large as the text needs; `FormatAssumption` excludes
empty format strings, which no caller passes. `FormatFitsInSetup` carries it over to
`init`, of which it is the first phase.

Each of these inductive invariants was also checked by TLC on the instances of the runs.

Only model-checked: all liveness (`QueuedTaskStarts`, `SignalEndsService`,
`LoopsDispatched`, `DestructionEnds`, `RequestAnswered`, `RotationEnds`, `LoadEnds`,
`StoppedProxyEnds`, `KeepsServing`, `RunEnds`), because fairness and `ENABLED` are out of the
prover's reach. For `LoadEnds`, `RotationEnds` and `RunEnds` the argument that a measure
falls is proved, and that fairness turns it into an end is left to TLC.

## Abstractions

* The destructor of the pool destroys `_lock`, `_tasks` and the condition variable
  while detached workers may use them; `ThreadPool` stops at that point.
* `THREADPOOL_AUTO_GROW` is not defined and not modelled.
* `ProxyService`: the only lock is the logger's (a handler that interrupts `malloc` in
  the thread it runs on may hang there just as well); what a loop does with memory
  that was freed under it, and a SIGPIPE, which nobody ignores, are not steps of it
  and stand under `Crash` in `Monitor`; which of the four signals a handler is for (a
  thread is in at most four); the memory of `info`; step 3 of `init` is one action,
  `Setup` has its detail.
* `RequestHandlers`: the clock; contents, sizes, meta data and extension of files; the
  bodies of replies; memory that upload and delete leak; a NULL tracker connection,
  which ends the process (`Serve` of `ProxyService`) and is covered by `Restart`; the
  buffer of the stream: what is still in it when the process dies is part of what
  `Restart` loses, and a failed stream is not taken to write on when it is closed.
* `RotatingSink`: a failing `fflush` (its result is ignored in the code), a `remove` that
  fails while the `rename` after it succeeds, other processes in the directory,
  and message formatting. Messages are bounded in number, not in the proofs.
* `Setup`: a value of an item is what `strtol` reads from it and is chosen when `init`
  asks for it, independently of the file that `Load` has read.
* `Monitor`: `kill` for a pid that was given to another program; a proxy started by
  hand; full-width characters in the redirection of `fpmoni.sh` line 13, which change
  where the output goes and not that a process is started in the background.
* `RecordCleaner`: `UploadRecord_*` files are written by nobody in this repository and
  appear as an external action at the day in their name; names are compared by date, and
  minutes are not distinguished from days. A script that is killed takes its program with
  it (a program that goes on alone is not in the model). A value of `expiredays` that is
  not a number makes `date` fail, and the run then selects no file.

## Not modelled

* `include/json.hpp`, `include/spdlog` outside the rotating sink (with the bundled `fmt`),
  `include/event2` and `include/fastdfs` are third-party. They make up all but some 1,200
  of the 57,000 lines of code in the repository. Most are declarations of libraries that are linked
  in binary form, so there is no code to translate; json.hpp and fmt are formatting and parsing
  without state of this system. The share of all lines that the modules cover is small for
  that reason; of the program's own sources (`src/*.cpp`, `scripts/*.sh`,
  `thread_pool.h`) every function that changes state is modelled.
* `include/common.h`, `logger.h` (constants, macros), `scripts/do_req.py` (a manual
  client) and `test/json.cpp` (a sample of the JSON library).

## Plan

Every invariant and every action property of a passing run is a theorem. Left: measures
like those of `LoadEnds`, `RotationEnds` and `RunEnds` for the other liveness properties, of
which those of the pool and the monitor depend on several processes at once.
