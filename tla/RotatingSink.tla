---------------------------- MODULE RotatingSink ----------------------------
(***************************************************************************)
(* The logger of the proxy: spdlog's rotating_file_sink behind the mutex of*)
(* base_sink, as fileCacheProxy::init creates it and every thread uses it. *)
(*                                                                         *)
(* A log call takes the mutex, rotates the files when the current one would*)
(* grow past max_size_, and writes; then it takes the mutex again to flush.*)
(* Rotation is a loop of removes and renames, any of which may fail, and   *)
(* the process may die between any two of them and be started again.       *)
(*                                                                         *)
(* Messages are numbered in the order in which they get the mutex.  A file *)
(* is the set of its messages: it grows only at its end, so the order of   *)
(* its lines is that of the numbers.                                       *)
(***************************************************************************)
EXTENDS Integers

CONSTANTS
  Threads,     \* threads that log
  max_size_,   \* bytes that a log file may have
  max_files_,  \* rotated files that are kept
  Sizes,       \* sizes that a formatted message may have
  MaxMessages, \* bound on the messages logged
  MaxFaults,   \* bound on failing file operations and crashes
  NoThread

Index == 0..max_files_    \* file 0 is the one that is written

ASSUME SinkAssumption ==
  /\ max_size_ \in Nat \ {0}
  /\ max_files_ \in Nat \ {0}
  /\ Sizes \subseteq Nat \ {0}
  /\ MaxMessages \in Nat /\ MaxFaults \in Nat
  /\ NoThread \notin Threads

VARIABLES
  exists,   \* indices of the files that exist
  ids,      \* ids[k]: messages in file k
  size,     \* size[k]: bytes of file k
  buf,      \* messages in the buffer of fd_, not yet in file 0
  bufSize,  \* their bytes
  fd,       \* "open" or "null": fd_ of file_helper
  current,  \* current_size_
  pc,       \* pc[t]: where the log call of t is
  holder,   \* thread that holds mutex_ during a rotation
  msgSize,  \* size of the message that the holder wants to write
  i,        \* loop variable of rotate_
  last,     \* number of the last message
  faults    \* failing operations and crashes so far

disk == <<exists, ids, size>>
vars == <<exists, ids, size, buf, bufSize, fd, current, pc, holder, msgSize, i,
          last, faults>>

\* The constructor has opened file 0 in a fresh directory.
Init ==
  /\ exists = {0}
  /\ ids = [k \in Index |-> {}] /\ size = [k \in Index |-> 0]
  /\ buf = {} /\ bufSize = 0
  /\ fd = "open" /\ current = 0
  /\ pc = [t \in Threads |-> "idle"]
  /\ holder = NoThread /\ msgSize = 0 /\ i = 0
  /\ last = 0 /\ faults = 0

\* The file operation at hand fails.
Fault == faults < MaxFaults /\ faults' = faults + 1
NoFault == faults' = faults

GoTo(t, label) == pc' = [pc EXCEPT ![t] = label]

\* fflush or fclose: the buffered messages reach file 0.
Drain ==
  /\ ids' = [ids EXCEPT ![0] = @ \cup buf]
  /\ size' = [size EXCEPT ![0] = @ + bufSize]
  /\ buf' = {} /\ bufSize' = 0

-----------------------------------------------------------------------------
(* base_sink::log and sink_it_.                                            *)

\* The message fits: it is written at once.
Write(t) ==
  /\ pc[t] = "idle" /\ holder = NoThread
  /\ last < MaxMessages
  /\ \E n \in Sizes :
       /\ current + n <= max_size_
       /\ current' = current + n
       /\ buf' = buf \cup {last + 1} /\ bufSize' = bufSize + n
  /\ last' = last + 1
  /\ GoTo(t, "flush")
  /\ UNCHANGED <<disk, fd, holder, msgSize, i, faults>>

\* fwrite fails: the exception drops the message, of which some bytes may be
\* in the buffer; current_size_ has counted all of them.
WriteFails(t) ==
  /\ pc[t] = "idle" /\ holder = NoThread
  /\ last < MaxMessages
  /\ Fault
  /\ \E n \in Sizes :
       /\ current + n <= max_size_
       /\ current' = current + n
       /\ bufSize' \in bufSize..(bufSize + n)
  /\ last' = last + 1
  /\ GoTo(t, "flush")
  /\ UNCHANGED <<disk, buf, fd, holder, msgSize, i>>

\* It does not: rotate_ closes the file, keeping the mutex.
StartRotate(t) ==
  /\ pc[t] = "idle" /\ holder = NoThread
  /\ last < MaxMessages
  /\ \E n \in Sizes :
       /\ current + n > max_size_
       /\ current' = current + n
       /\ msgSize' = n
  /\ Drain
  /\ fd' = "null"
  /\ holder' = t /\ i' = max_files_
  /\ last' = last + 1
  /\ GoTo(t, "remove")
  /\ UNCHANGED <<exists, faults>>

\* Mutant of RemoveTarget: the loop ends at 1, before file 0 is moved.
BugStopAtOne(t) ==
  /\ pc[t] = "remove" /\ i > 0
  /\ IF i - 1 \in exists /\ i > 1
     THEN /\ exists' = exists \ {i}
          /\ ids' = [ids EXCEPT ![i] = {}]
          /\ size' = [size EXCEPT ![i] = 0]
          /\ GoTo(t, "rename") /\ i' = i
     ELSE /\ UNCHANGED <<disk, pc>>
          /\ i' = i - 1
  /\ UNCHANGED <<buf, bufSize, fd, current, holder, msgSize, last, faults>>

\* Nothing to move to index i, or the target is removed for rename_file_.
RemoveTarget(t) ==
  /\ pc[t] = "remove" /\ i > 0
  /\ IF i - 1 \in exists
     THEN /\ exists' = exists \ {i}
          /\ ids' = [ids EXCEPT ![i] = {}]
          /\ size' = [size EXCEPT ![i] = 0]
          /\ GoTo(t, "rename") /\ i' = i
     ELSE /\ UNCHANGED <<disk, pc>>
          /\ i' = i - 1
  /\ UNCHANGED <<buf, bufSize, fd, current, holder, msgSize, last, faults>>

\* Mutant of Rename: it is always the base file that is renamed.
BugRenameBase(t) ==
  /\ pc[t] = "rename"
  /\ exists' = (exists \ {0}) \cup {i}
  /\ ids' = [ids EXCEPT ![0] = {}, ![i] = ids[0]]
  /\ size' = [size EXCEPT ![0] = 0, ![i] = size[0]]
  /\ GoTo(t, "remove") /\ i' = i - 1
  /\ UNCHANGED <<buf, bufSize, fd, current, holder, msgSize, last, faults>>

\* The rename, at the first or the second attempt.
Rename(t) ==
  /\ pc[t] = "rename"
  /\ exists' = (exists \ {i - 1}) \cup {i}
  /\ ids' = [ids EXCEPT ![i - 1] = {}, ![i] = ids[i - 1]]
  /\ size' = [size EXCEPT ![i - 1] = 0, ![i] = size[i - 1]]
  /\ GoTo(t, "remove") /\ i' = i - 1
  /\ UNCHANGED <<buf, bufSize, fd, current, holder, msgSize, last, faults>>

\* Both attempts fail: the rotation is given up.
RenameFails(t) ==
  /\ pc[t] = "rename"
  /\ Fault
  /\ GoTo(t, "truncate")
  /\ UNCHANGED <<disk, buf, bufSize, fd, current, holder, msgSize, i, last>>

\* Mutant of Throw: the exception leaves the mutex locked.
BugThrowLocked(t) ==
  /\ UNCHANGED <<holder, msgSize>>
  /\ GoTo(t, "flush")

\* The log call ends with an exception, which logger::sink_it_ catches; the
\* message is dropped and the mutex released.
Throw(t) ==
  /\ holder' = NoThread /\ msgSize' = 0
  /\ GoTo(t, "flush")

\* File 0 after a successful open in mode "wb".
Truncated ==
  /\ exists' = exists \cup {0}
  /\ ids' = [ids EXCEPT ![0] = {}]
  /\ size' = [size EXCEPT ![0] = 0]

\* Mutant of TruncateAnyway: current_size_ is reset before the reopen.
BugResetFirst(t) ==
  /\ pc[t] = "truncate"
  /\ \/ Truncated /\ fd' = "open" /\ NoFault
     \/ (Truncated \/ UNCHANGED disk) /\ UNCHANGED fd /\ Fault
  /\ current' = 0
  /\ Throw(t)
  /\ UNCHANGED <<buf, bufSize, i, last>>

\* reopen(true) after a failed rename, "truncate the log file anyway", then the
\* exception.  A reopen that fails, whichever of its two fopens it was, throws
\* before current_size_ is reset.
TruncateAnyway(t) ==
  /\ pc[t] = "truncate"
  /\ \/ Truncated /\ fd' = "open" /\ current' = 0 /\ NoFault
     \/ (Truncated \/ UNCHANGED disk) /\ UNCHANGED <<fd, current>> /\ Fault
  /\ Throw(t)
  /\ UNCHANGED <<buf, bufSize, i, last>>

\* The loop is done: reopen(true), and the message is written to a new file.
Reopen(t) ==
  /\ pc[t] = "remove" /\ i = 0
  /\ Truncated /\ fd' = "open" /\ NoFault
  /\ current' = msgSize
  /\ buf' = {last} /\ bufSize' = msgSize
  /\ holder' = NoThread /\ msgSize' = 0
  /\ GoTo(t, "flush")
  /\ UNCHANGED <<i, last>>

\* The rotation succeeds and the write after it fails.
FirstWriteFails(t) ==
  /\ pc[t] = "remove" /\ i = 0
  /\ Truncated /\ fd' = "open" /\ Fault
  /\ current' = msgSize
  /\ bufSize' \in 0..msgSize
  /\ Throw(t)
  /\ UNCHANGED <<buf, i, last>>

\* The reopen fails after all its tries; its first fopen may have created the
\* file.
ReopenFails(t) ==
  /\ pc[t] = "remove" /\ i = 0
  /\ Truncated \/ UNCHANGED disk
  /\ Fault
  /\ Throw(t)
  /\ UNCHANGED <<buf, bufSize, fd, current, i, last>>

\* flush_on(info): a flush follows every message.  It needs the mutex.
Flush(t) ==
  /\ pc[t] = "flush" /\ holder = NoThread
  /\ Drain
  /\ GoTo(t, "idle")
  /\ UNCHANGED <<exists, fd, current, holder, msgSize, i, last, faults>>

\* Mutant of Crash: the restarted sink counts from zero.
BugCountFromZero ==
  /\ Fault
  /\ pc' = [t \in Threads |-> "idle"]
  /\ holder' = NoThread /\ msgSize' = 0 /\ i' = 0
  /\ buf' = {} /\ bufSize' = 0
  /\ exists' = exists \cup {0}
  /\ fd' = "open" /\ current' = 0
  /\ UNCHANGED <<ids, size, last>>

\* The process dies, what is buffered is lost, and the monitor starts it again:
\* the constructor opens file 0 in mode "ab" and asks for its size.
Crash ==
  /\ Fault
  /\ pc' = [t \in Threads |-> "idle"]
  /\ holder' = NoThread /\ msgSize' = 0 /\ i' = 0
  /\ buf' = {} /\ bufSize' = 0
  /\ exists' = exists \cup {0}
  /\ fd' = "open" /\ current' = size[0]
  /\ UNCHANGED <<ids, size, last>>

ThreadStep(t) ==
  \/ Write(t) \/ StartRotate(t) \/ RemoveTarget(t) \/ Rename(t) \/ RenameFails(t)
  \/ TruncateAnyway(t) \/ Reopen(t) \/ ReopenFails(t) \/ Flush(t)
  \/ WriteFails(t) \/ FirstWriteFails(t)

Next == Crash \/ \E t \in Threads : ThreadStep(t)

Spec == Init /\ [][Next]_vars

\* A thread inside a log call is scheduled.
FairSpec ==
  Spec /\ \A t \in Threads : WF_vars(pc[t] # "idle" /\ ThreadStep(t))

-----------------------------------------------------------------------------
(* Properties.                                                             *)

SinkPC == {"idle", "flush", "remove", "rename", "truncate"}

TypeOK ==
  /\ exists \in SUBSET Index
  /\ ids \in [Index -> SUBSET Nat]
  /\ size \in [Index -> Nat]
  /\ buf \in SUBSET Nat /\ bufSize \in Nat
  /\ fd \in {"open", "null"}
  /\ current \in Nat
  /\ pc \in [Threads -> SinkPC]
  /\ holder \in Threads \cup {NoThread}
  /\ msgSize \in Nat
  /\ i \in Index
  /\ last \in Nat /\ faults \in 0..MaxFaults

\* A thread rotates exactly while it holds the mutex.
Rotating(t) == pc[t] \in {"remove", "rename", "truncate"}
MutexOK == \A t \in Threads : Rotating(t) <=> holder = t

\* The lines of the current file, with those still in the buffer of fd_.
Lines(k) == IF k = 0 THEN ids[0] \cup buf ELSE ids[k]

\* Whatever fails and wherever the process dies, a rotated file with a higher
\* index holds only older messages than one with a lower index: rotate_ never
\* renames over a newer file (rotating_file_sink-inl.h:83-118).
Ordered ==
  \A j, k \in Index : j < k =>
    \A m \in Lines(j), n \in ids[k] : n < m

\* current_size_ is at least the size of the file that is written, with its
\* buffer, across rotations, failing writes and restarts.
SizeTracked ==
  (fd = "open" /\ holder = NoThread) => current >= size[0] + bufSize

\* No file outgrows max_size_, except by a single message that is larger than
\* that (or the part of it that a failing write has left): "to prevent it to grow beyond its limit" (line 111).
FilesBounded ==
  \A k \in Index :
    \/ size[k] + (IF k = 0 THEN bufSize ELSE 0) <= max_size_
    \/ \A m, n \in Lines(k) : m = n

\* sink_it_ does not write through the null fd_ that a failed reopen leaves
\* behind: the size that was not reset makes the next message rotate again
\* (lines 68-74 and 109-117).
ClosedForcesRotation ==
  (fd = "null" /\ holder = NoThread) => current > max_size_

\* What else the proofs need: only files that exist have content, while fd_ is
\* null nothing is buffered, a rotation has a null fd_, the numbers in the
\* files are in the past, and the loop of rotate_ has emptied index i unless
\* it has just begun.
RotationOK ==
  /\ \A k \in Index \ exists : ids[k] = {} /\ size[k] = 0
  /\ fd = "open" => 0 \in exists
  /\ fd = "null" => buf = {} /\ bufSize = 0
  /\ holder # NoThread => fd = "null" /\ current > max_size_
  /\ \A k \in Index : \A m \in Lines(k) : m <= last /\ (holder # NoThread => m < last)
  /\ \A t \in Threads :
       /\ pc[t] \in {"remove", "rename"} /\ i < max_files_ => ids[i] = {}
       /\ pc[t] = "rename" => i > 0 /\ ids[i] = {}

SinkInv ==
  /\ TypeOK /\ MutexOK /\ RotationOK
  /\ Ordered /\ SizeTracked /\ FilesBounded /\ ClosedForcesRotation

Kept == UNION {Lines(k) : k \in Index}

\* A rotation drops the messages of the oldest file and no others, also when
\* it has to work on the gaps that crashes and failed renames left behind;
\* more is lost only by a failing operation and the truncation that answers
\* it (lines 83-118).
DropsOldestOnly ==
  [][(faults' = faults /\ \A t \in Threads : pc[t] # "truncate")
       => Kept \ Kept' \subseteq ids[max_files_]]_vars

\* The mutex is always released again: no failing operation leaves rotate_
\* with the mutex held and the other threads waiting (lines 94-118).
RotationEnds == (holder # NoThread) ~> (holder = NoThread)
=============================================================================
