------------------------- MODULE RotatingSinkProofs -------------------------
(***************************************************************************)
(* Theorems about RotatingSink, for every number of threads, of files, every*)
(* size limit and any number of faults.                                    *)
(***************************************************************************)
EXTENDS RotatingSink, TLAPS

LEMMA InitInv == Init => SinkInv
  BY SinkAssumption DEF Init, SinkInv, TypeOK, MutexOK, RotationOK, Ordered, SizeTracked,
     FilesBounded, ClosedForcesRotation, Lines, Rotating, SinkPC, Index

\* Which thread holds the mutex: a rotation step needs it, the others find it
\* free.
LEMMA HolderFacts ==
  ASSUME SinkInv, NEW t \in Threads
  PROVE  /\ Rotating(t) => holder = t /\ holder # NoThread
         /\ holder = NoThread => \A u \in Threads : ~Rotating(u)
  BY SinkAssumption DEF SinkInv, MutexOK, TypeOK

DiskType ==
  exists \in SUBSET Index /\ ids \in [Index -> SUBSET Nat] /\ size \in [Index -> Nat]

\* An fopen in mode "wb" keeps the type of the files.
LEMMA TruncateType == DiskType /\ Truncated => DiskType'
  BY SinkAssumption DEF DiskType, Truncated, Index

LEMMA UpdateIds ==
  ASSUME NEW f \in [Index -> SUBSET Nat], NEW k \in Index, NEW S \in SUBSET Nat
  PROVE  [f EXCEPT ![k] = S] \in [Index -> SUBSET Nat]
  OBVIOUS

LEMMA UpdateSize ==
  ASSUME NEW f \in [Index -> Nat], NEW k \in Index, NEW n \in Nat
  PROVE  [f EXCEPT ![k] = n] \in [Index -> Nat]
  OBVIOUS

\* fflush and fclose keep it too.
LEMMA DrainType ==
  TypeOK /\ Drain => ids' \in [Index -> SUBSET Nat] /\ size' \in [Index -> Nat]
  <1> SUFFICES ASSUME TypeOK, Drain
               PROVE  ids' \in [Index -> SUBSET Nat] /\ size' \in [Index -> Nat]
    OBVIOUS
  <1>1. 0 \in Index
    BY SinkAssumption DEF Index
  <1>a. ids[0] \in SUBSET Nat /\ size[0] \in Nat
    BY <1>1 DEF TypeOK
  <1>b. buf \in SUBSET Nat /\ bufSize \in Nat
    BY DEF TypeOK
  <1>c. ids[0] \cup buf \in SUBSET Nat
    BY <1>a, <1>b, Zenon
  <1>2. ids[0] \cup buf \in SUBSET Nat /\ size[0] + bufSize \in Nat
    BY <1>a, <1>b, <1>c, SMT
  <1>3. ids' = [ids EXCEPT ![0] = ids[0] \cup buf]
        /\ size' = [size EXCEPT ![0] = size[0] + bufSize]
    BY DEF Drain
  <1> QED
    BY <1>1, <1>2, <1>3, UpdateIds, UpdateSize DEF TypeOK

\* While nothing is buffered the lines are those on disk.
LEMMA EmptyBuffer == buf' = {} => \A k \in Index : Lines(k)' = ids'[k]
  BY DEF Lines

\* What a failing first write leaves is no more than the message.
LEMMA PartBelow ==
  ASSUME NEW s, s = 0, NEW n \in Nat, NEW part \in Nat, part <= n
  PROVE  n >= s + part
  OBVIOUS

LEMMA TypeStep == SinkInv /\ [Next]_vars => TypeOK'
  <1> SUFFICES ASSUME SinkInv, [Next]_vars PROVE TypeOK'
    OBVIOUS
  <1> USE SinkAssumption DEF SinkInv, TypeOK, Index, SinkPC
  <1>1. CASE Crash
    BY <1>1 DEF Crash, Fault
  <1>2. ASSUME NEW t \in Threads, ThreadStep(t) PROVE TypeOK'
    <2>1. CASE Write(t)
      <3>1. PICK n \in Sizes : current' = current + n /\ bufSize' = bufSize + n
        BY <2>1 DEF Write
      <3>2. n \in Nat /\ last + 1 \in Nat
        OBVIOUS
      <3> QED
        BY <2>1, <3>1, <3>2 DEF Write, GoTo, disk
    <2>2. CASE StartRotate(t)
      <3>1. PICK n \in Sizes : current' = current + n /\ msgSize' = n
        BY <2>2 DEF StartRotate
      <3>2. current' \in Nat /\ msgSize' \in Nat
        BY <3>1
      <3>3. ids' \in [Index -> SUBSET Nat] /\ size' \in [Index -> Nat]
        BY <2>2, DrainType DEF StartRotate
      <3>4. buf' \in SUBSET Nat /\ bufSize' \in Nat
        BY <2>2 DEF StartRotate, Drain
      <3> QED
        BY <2>2, <3>2, <3>3, <3>4 DEF StartRotate, GoTo
    <2>3. CASE RemoveTarget(t)
      <3>1. i \in Index /\ {} \in SUBSET Nat /\ 0 \in Nat
        OBVIOUS
      <3>a. /\ [ids EXCEPT ![i] = {}] \in [Index -> SUBSET Nat]
            /\ [size EXCEPT ![i] = 0] \in [Index -> Nat]
        BY <3>1, UpdateIds, UpdateSize
      <3>2. DiskType'
        BY <2>3, <3>a DEF RemoveTarget, DiskType, disk
      <3>3. i' \in Index
        BY <2>3 DEF RemoveTarget
      <3> QED
        BY <2>3, <3>2, <3>3 DEF RemoveTarget, GoTo, DiskType
    <2>4. CASE Rename(t)
      <3>1. i \in 1..max_files_
        BY <2>4 DEF Rename, RotationOK
      <3>2. i \in Index /\ i - 1 \in Index
        BY <3>1
      <3>3. [ids EXCEPT ![i - 1] = {}] \in [Index -> SUBSET Nat]
            /\ [size EXCEPT ![i - 1] = 0] \in [Index -> Nat]
        BY <3>2, UpdateIds, UpdateSize
      <3>4. ids' = [[ids EXCEPT ![i - 1] = {}] EXCEPT ![i] = ids[i - 1]]
            /\ size' = [[size EXCEPT ![i - 1] = 0] EXCEPT ![i] = size[i - 1]]
        BY <2>4 DEF Rename
      <3>5. ids[i - 1] \in SUBSET Nat /\ size[i - 1] \in Nat
        BY <3>2
      <3>6. ids' \in [Index -> SUBSET Nat] /\ size' \in [Index -> Nat]
        BY <3>2, <3>3, <3>4, <3>5, UpdateIds, UpdateSize
      <3>7. exists' \in SUBSET Index /\ i' \in Index
        BY <2>4, <3>2 DEF Rename
      <3> QED
        BY <2>4, <3>6, <3>7 DEF Rename, GoTo
    <2>5. CASE RenameFails(t)
      BY <2>5 DEF RenameFails, GoTo, disk, Fault
    <2>6. CASE TruncateAnyway(t)
      <3>1. DiskType'
        BY <2>6, TruncateType DEF TruncateAnyway, DiskType, disk
      <3>2. current' \in Nat /\ faults' \in 0..MaxFaults /\ fd' \in {"open", "null"}
        BY <2>6 DEF TruncateAnyway, Fault, NoFault
      <3> QED
        BY <2>6, <3>1, <3>2 DEF TruncateAnyway, GoTo, Throw, DiskType
    <2>7. CASE Reopen(t)
      <3>1. DiskType'
        BY <2>7, TruncateType DEF Reopen, DiskType
      <3> QED
        BY <2>7, <3>1 DEF Reopen, GoTo, NoFault, DiskType
    <2>8. CASE ReopenFails(t)
      <3>1. DiskType'
        BY <2>8, TruncateType DEF ReopenFails, DiskType, disk
      <3> QED
        BY <2>8, <3>1 DEF ReopenFails, GoTo, Fault, Throw, DiskType
    <2>9. CASE Flush(t)
      <3>1. ids' \in [Index -> SUBSET Nat] /\ size' \in [Index -> Nat]
        BY <2>9, DrainType DEF Flush
      <3> QED
        BY <2>9, <3>1 DEF Flush, GoTo, Drain
    <2>10. CASE WriteFails(t)
      <3>1. PICK n \in Sizes : current' = current + n /\ bufSize' \in bufSize..(bufSize + n)
        BY <2>10 DEF WriteFails
      <3>2. current' \in Nat /\ bufSize' \in Nat /\ last' \in Nat /\ faults' \in 0..MaxFaults
        BY <2>10, <3>1 DEF WriteFails, Fault
      <3> QED
        BY <2>10, <3>2 DEF WriteFails, GoTo, disk
    <2>11. CASE FirstWriteFails(t)
      <3>1. DiskType'
        BY <2>11, TruncateType DEF FirstWriteFails, DiskType
      <3>2. bufSize' \in Nat /\ faults' \in 0..MaxFaults
        BY <2>11 DEF FirstWriteFails, Fault
      <3> QED
        BY <2>11, <3>1, <3>2 DEF FirstWriteFails, GoTo, Throw, DiskType
    <2> QED
      BY <1>2, <2>1, <2>2, <2>3, <2>4, <2>5, <2>6, <2>7, <2>8, <2>9, <2>10, <2>11 DEF ThreadStep
  <1>3. CASE UNCHANGED vars
    BY <1>3 DEF vars
  <1> QED
    BY <1>1, <1>2, <1>3 DEF Next

LEMMA MutexStep == SinkInv /\ [Next]_vars => MutexOK'
  <1> SUFFICES ASSUME SinkInv, [Next]_vars PROVE MutexOK'
    OBVIOUS
  <1> USE SinkAssumption DEF SinkInv, TypeOK, MutexOK, Rotating, SinkPC
  <1>1. CASE Crash
    BY <1>1 DEF Crash
  <1>2. ASSUME NEW t \in Threads, ThreadStep(t) PROVE MutexOK'
    <2>1. CASE Write(t)
      BY <2>1 DEF Write, GoTo
    <2>2. CASE StartRotate(t)
      BY <2>2 DEF StartRotate, GoTo
    <2>3. CASE RemoveTarget(t)
      BY <2>3 DEF RemoveTarget, GoTo
    <2>4. CASE Rename(t)
      BY <2>4 DEF Rename, GoTo
    <2>5. CASE RenameFails(t)
      BY <2>5 DEF RenameFails, GoTo
    <2>6. CASE TruncateAnyway(t)
      BY <2>6 DEF TruncateAnyway, GoTo, Throw
    <2>7. CASE Reopen(t)
      BY <2>7 DEF Reopen, GoTo
    <2>8. CASE ReopenFails(t)
      BY <2>8 DEF ReopenFails, GoTo, Throw
    <2>9. CASE Flush(t)
      BY <2>9 DEF Flush, GoTo
    <2>10. CASE WriteFails(t)
      BY <2>10 DEF WriteFails, GoTo
    <2>11. CASE FirstWriteFails(t)
      BY <2>11 DEF FirstWriteFails, GoTo, Throw
    <2> QED
      BY <1>2, <2>1, <2>2, <2>3, <2>4, <2>5, <2>6, <2>7, <2>8, <2>9, <2>10, <2>11 DEF ThreadStep
  <1>3. CASE UNCHANGED vars
    BY <1>3 DEF vars
  <1> QED
    BY <1>1, <1>2, <1>3 DEF Next

\* A rename moves the content of one index to an empty one.
LEMMA RenameFiles ==
  ASSUME SinkInv, NEW t \in Threads, Rename(t)
  PROVE  RotationOK' /\ Ordered' /\ SizeTracked' /\ FilesBounded' /\ ClosedForcesRotation'
  <1>1. /\ i \in 1..max_files_ /\ i \in Index /\ i - 1 \in Index
        /\ ids[i] = {} /\ pc[t] = "rename"
        /\ holder = t /\ holder # NoThread
    <2>1. pc[t] = "rename" /\ holder = t /\ holder # NoThread
      BY HolderFacts DEF Rename, Rotating
    <2>2. i > 0 /\ ids[i] = {}
      BY <2>1 DEF SinkInv, RotationOK
    <2>3. i \in 0..max_files_
      BY DEF SinkInv, TypeOK, Index
    <2> QED
      BY <2>1, <2>2, <2>3, SinkAssumption DEF Index
  <1>2. /\ fd = "null" /\ buf = {} /\ bufSize = 0 /\ current > max_size_
        /\ UNCHANGED <<buf, bufSize, fd, current, holder, msgSize, last>>
        /\ pc' = [pc EXCEPT ![t] = "remove"] /\ i' = i - 1
        /\ exists' = (exists \ {i - 1}) \cup {i}
    BY <1>1 DEF Rename, GoTo, SinkInv, RotationOK
  <1>3. \A k \in Index :
          ids'[k] = IF k = i THEN ids[i - 1] ELSE IF k = i - 1 THEN {} ELSE ids[k]
    BY <1>1 DEF Rename, SinkInv, TypeOK
  <1>4. \A k \in Index :
          size'[k] = IF k = i THEN size[i - 1] ELSE IF k = i - 1 THEN 0 ELSE size[k]
    BY <1>1 DEF Rename, SinkInv, TypeOK
  <1>5. \A k \in Index : Lines(k)' = ids'[k] /\ Lines(k) = ids[k]
    BY <1>2 DEF Lines
  <1>6. RotationOK'
    <2>1. \A k \in Index \ exists' : ids'[k] = {} /\ size'[k] = 0
      BY <1>1, <1>2, <1>3, <1>4 DEF SinkInv, RotationOK
    <2>2. \A k \in Index : \A m \in ids'[k] : m < last /\ m <= last
      <3>1. \A k \in Index : \A m \in ids[k] : m < last /\ m <= last
        BY <1>1, <1>5 DEF SinkInv, RotationOK
      <3> QED
        BY <1>1, <1>3, <3>1
    <2>3. \A u \in Threads : pc'[u] \in {"remove", "rename"} => u = t /\ pc'[u] = "remove"
      BY <1>1, <1>2 DEF SinkInv, MutexOK, Rotating, TypeOK
    <2>4. ids'[i'] = {}
      BY <1>1, <1>2, <1>3
    <2> QED
      BY <1>1, <1>2, <1>5, <2>1, <2>2, <2>3, <2>4 DEF RotationOK
  <1>7. Ordered'
    <2> SUFFICES ASSUME NEW j \in Index, NEW k \in Index, j < k,
                        NEW m \in ids'[j], NEW n \in ids'[k]
                 PROVE  n < m
      BY <1>5 DEF Ordered
    <2>1. \A p, q \in Index : p < q => \A x \in ids[p], y \in ids[q] : y < x
      BY <1>5 DEF SinkInv, Ordered
    <2>2. CASE k = i
      <3>1. n \in ids[i - 1] /\ j < i - 1 /\ m \in ids[j]
        BY <1>1, <1>3, <2>2 DEF Index
      <3> QED
        BY <1>1, <2>1, <3>1
    <2>3. CASE j = i
      <3>1. m \in ids[i - 1] /\ i - 1 < k /\ n \in ids[k]
        BY <1>1, <1>3, <2>3 DEF Index
      <3> QED
        BY <1>1, <2>1, <3>1
    <2>4. CASE j # i /\ k # i
      <3>1. m \in ids[j] /\ n \in ids[k]
        BY <1>1, <1>3, <2>4
      <3> QED
        BY <2>1, <3>1
    <2> QED
      BY <2>2, <2>3, <2>4
  <1>8. SizeTracked' /\ ClosedForcesRotation'
    BY <1>1, <1>2 DEF SizeTracked, ClosedForcesRotation
  <1>9. FilesBounded'
    <2>1. \A k \in Index : size[k] + 0 <= max_size_ \/ \A m, n \in ids[k] : m = n
      BY <1>2, <1>5 DEF SinkInv, FilesBounded
    <2>2. \A k \in Index : size'[k] + 0 <= max_size_ \/ \A m, n \in ids'[k] : m = n
      BY <1>1, <1>3, <1>4, <2>1, SinkAssumption
    <2> QED
      BY <1>2, <1>5, <2>2 DEF FilesBounded
  <1> QED
    BY <1>6, <1>7, <1>8, <1>9

\* Everything that is about the files.
LEMMA FilesStep ==
  SinkInv /\ [Next]_vars =>
    RotationOK' /\ Ordered' /\ SizeTracked' /\ FilesBounded' /\ ClosedForcesRotation'
  <1> DEFINE Goal == RotationOK' /\ Ordered' /\ SizeTracked' /\ FilesBounded'
                       /\ ClosedForcesRotation'
  <1> SUFFICES ASSUME SinkInv, [Next]_vars PROVE Goal
    OBVIOUS
  <1>0. TypeOK /\ TypeOK' /\ MutexOK
    BY TypeStep DEF SinkInv
  <1> USE SinkAssumption DEF SinkInv, TypeOK, Index, Lines, RotationOK, Ordered,
        SizeTracked, FilesBounded, ClosedForcesRotation, MutexOK, Rotating, SinkPC
  <1>1. CASE Crash
    BY <1>0, <1>1 DEF Crash
  <1>2. ASSUME NEW t \in Threads, ThreadStep(t) PROVE Goal
    <2>1. CASE Write(t)
      <3>1. PICK n \in Sizes : /\ current + n <= max_size_ /\ current' = current + n
                               /\ buf' = buf \cup {last + 1} /\ bufSize' = bufSize + n
        BY <2>1 DEF Write
      <3>2. fd = "open" /\ n > 0
        BY <1>0, <3>1, <2>1 DEF Write
      <3>3. UNCHANGED <<exists, ids, size, fd, holder, i>> /\ last' = last + 1
            /\ pc' = [pc EXCEPT ![t] = "flush"]
        BY <2>1 DEF Write, GoTo, disk
      <3>4. holder = NoThread
        BY <2>1 DEF Write
      <3>5. RotationOK'
        BY <1>0, <3>1, <3>2, <3>3, <3>4
      <3>6. Ordered'
        BY <1>0, <3>1, <3>2, <3>3, <3>4
      <3>7. SizeTracked' /\ ClosedForcesRotation'
        BY <1>0, <3>1, <3>2, <3>3, <3>4
      <3>8. FilesBounded'
        BY <1>0, <3>1, <3>2, <3>3, <3>4
      <3> QED
        BY <3>5, <3>6, <3>7, <3>8
    <2>2. CASE StartRotate(t)
      <3>1. PICK n \in Sizes : current + n > max_size_ /\ current' = current + n
        BY <2>2 DEF StartRotate
      <3>2. \A k \in Index : /\ ids'[k] = Lines(k)
                             /\ size'[k] = IF k = 0 THEN size[0] + bufSize ELSE size[k]
        BY <1>0, <2>2 DEF StartRotate, Drain
      <3>3. /\ holder = NoThread /\ holder' = t /\ buf' = {} /\ bufSize' = 0 /\ fd' = "null"
            /\ last' = last + 1 /\ i' = max_files_ /\ exists' = exists
            /\ pc' = [pc EXCEPT ![t] = "remove"]
        BY <2>2 DEF StartRotate, GoTo, Drain
      <3>4. RotationOK'
        BY <1>0, <3>1, <3>2, <3>3
      <3>5. Ordered'
        <4>1. \A k \in Index : Lines(k)' = Lines(k) /\ ids'[k] \subseteq Lines(k)
          <5>1. \A k \in Index : Lines(k)' = ids'[k]
            BY <3>3, EmptyBuffer
          <5> HIDE DEF Lines
          <5> QED
            BY <3>2, <5>1
        <4>2. \A j, k \in Index : j < k => \A x \in Lines(j), y \in Lines(k) : y < x
          OBVIOUS
        <4> HIDE DEF Lines, Index
        <4> QED
          BY <4>1, <4>2
      <3>6. SizeTracked' /\ ClosedForcesRotation'
        BY <1>0, <3>1, <3>3
      <3>7. FilesBounded'
        BY <1>0, <3>2, <3>3
      <3> QED
        BY <3>4, <3>5, <3>6, <3>7
    <2>3. CASE RemoveTarget(t)
      <3>1. CASE i - 1 \in exists
        <4>1. \A k \in Index : /\ ids'[k] = IF k = i THEN {} ELSE ids[k]
                               /\ size'[k] = IF k = i THEN 0 ELSE size[k]
          BY <1>0, <2>3, <3>1 DEF RemoveTarget
        <4>2. /\ exists' = exists \ {i}
              /\ UNCHANGED <<buf, bufSize, fd, current, holder, msgSize, i, last>>
              /\ pc' = [pc EXCEPT ![t] = "rename"] /\ i > 0 /\ pc[t] = "remove"
          BY <1>0, <2>3, <3>1 DEF RemoveTarget, GoTo
        <4>3. RotationOK'
          BY <1>0, <4>1, <4>2
        <4>4. Ordered'
          <5>1. \A k \in Index : Lines(k)' \subseteq Lines(k) /\ ids'[k] \subseteq ids[k]
            <6> HIDE DEF Index
            <6>1. \A k \in Index : ids'[k] \subseteq ids[k]
              BY <4>1
            <6>2. 0 \in Index
              BY DEF Index
            <6> QED
              BY <4>2, <6>1, <6>2
          <5>2. Ordered
            OBVIOUS
          <5> HIDE DEF Lines, Index
          <5> QED
            BY <5>1, <5>2
        <4>5. SizeTracked' /\ ClosedForcesRotation'
          BY <1>0, <4>1, <4>2
        <4>6. FilesBounded'
          BY <1>0, <4>1, <4>2
        <4> QED
          BY <4>3, <4>4, <4>5, <4>6
      <3>2. CASE i - 1 \notin exists
        <4>1. /\ UNCHANGED <<disk, pc, buf, bufSize, fd, current, holder, msgSize, last>>
              /\ i > 0 /\ i' = i - 1 /\ pc[t] = "remove"
          BY <2>3, <3>2 DEF RemoveTarget
        <4>2. ids[i - 1] = {} /\ \A u \in Threads : pc[u] # "rename"
          BY <1>0, <3>2, <4>1
        <4> QED
          BY <1>0, <4>1, <4>2 DEF disk
      <3> QED
        BY <3>1, <3>2
    <2>4. CASE Rename(t)
      BY <2>4, RenameFiles
    <2>5. CASE RenameFails(t)
      BY <1>0, <2>5 DEF RenameFails, GoTo, disk
    <2>6. CASE TruncateAnyway(t)
      <3>1. CASE Truncated /\ fd' = "open" /\ current' = 0
        BY <1>0, <2>6, <3>1 DEF TruncateAnyway, GoTo, Truncated, Throw
      <3>2. CASE Truncated /\ UNCHANGED <<fd, current>>
        BY <1>0, <2>6, <3>2 DEF TruncateAnyway, GoTo, Truncated, Throw
      <3>3. CASE UNCHANGED disk /\ UNCHANGED <<fd, current>>
        BY <1>0, <2>6, <3>3 DEF TruncateAnyway, GoTo, disk, Throw
      <3> QED
        BY <2>6, <3>1, <3>2, <3>3 DEF TruncateAnyway
    <2>7. CASE Reopen(t)
      BY <1>0, <2>7 DEF Reopen, GoTo, Truncated
    <2>8. CASE ReopenFails(t)
      BY <1>0, <2>8 DEF ReopenFails, GoTo, disk, Truncated, Throw
    <2>9. CASE Flush(t)
      BY <1>0, <2>9 DEF Flush, GoTo, Drain
    <2>10. CASE WriteFails(t)
      <3>1. PICK n \in Sizes : /\ current + n <= max_size_ /\ current' = current + n
                               /\ bufSize' \in bufSize..(bufSize + n)
        BY <2>10 DEF WriteFails
      <3>2. fd = "open" /\ n > 0
        BY <1>0, <3>1, <2>10 DEF WriteFails
      <3>3. UNCHANGED <<exists, ids, size, buf, fd, holder, i>> /\ last' = last + 1
            /\ pc' = [pc EXCEPT ![t] = "flush"] /\ holder = NoThread
        BY <2>10 DEF WriteFails, GoTo, disk
      <3>4. RotationOK' /\ Ordered'
        BY <1>0, <3>1, <3>2, <3>3
      <3>5. SizeTracked' /\ ClosedForcesRotation'
        BY <1>0, <3>1, <3>2, <3>3
      <3>6. FilesBounded'
        BY <1>0, <3>1, <3>2, <3>3
      <3> QED
        BY <3>4, <3>5, <3>6
    <2>11. CASE FirstWriteFails(t)
      <3>1. pc[t] = "remove" /\ i = 0 /\ holder = t /\ holder # NoThread
        BY <1>0, <2>11 DEF FirstWriteFails
      <3>2. buf = {} /\ current > max_size_ /\ ids[0] = {}
        BY <1>0, <3>1
      <3>3. /\ exists' = exists \cup {0} /\ fd' = "open" /\ holder' = NoThread
            /\ current' = msgSize /\ bufSize' \in 0..msgSize /\ buf' = {}
            /\ UNCHANGED <<i, last>> /\ pc' = [pc EXCEPT ![t] = "flush"]
        BY <2>11, <3>2 DEF FirstWriteFails, Truncated, Throw, GoTo
      <3>4. \A k \in Index : ids'[k] = ids[k] /\ (k # 0 => size'[k] = size[k])
        BY <1>0, <2>11, <3>2 DEF FirstWriteFails, Truncated
      <3>5. size'[0] = 0
        BY <1>0, <2>11 DEF FirstWriteFails, Truncated
      <3>6. RotationOK'
        BY <1>0, <3>1, <3>2, <3>3, <3>4, <3>5
      <3>7. Ordered'
        BY <1>0, <3>2, <3>3, <3>4
      <3>8. SizeTracked' /\ ClosedForcesRotation'
        <4>1. current' = msgSize /\ msgSize \in Nat /\ bufSize' <= msgSize /\ bufSize' \in Nat
          BY <1>0, <3>3
        <4>2. current' >= size'[0] + bufSize'
          BY <3>5, <4>1, PartBelow, Zenon
        <4> QED
          BY <3>3, <4>2
      <3>9. FilesBounded'
        BY <1>0, <3>2, <3>3, <3>4, <3>5
      <3> QED
        BY <3>6, <3>7, <3>8, <3>9
    <2> QED
      BY <1>2, <2>1, <2>2, <2>3, <2>4, <2>5, <2>6, <2>7, <2>8, <2>9, <2>10, <2>11 DEF ThreadStep
  <1>3. CASE UNCHANGED vars
    BY <1>3 DEF vars
  <1> QED
    BY <1>1, <1>2, <1>3 DEF Next

LEMMA Inductive == SinkInv /\ [Next]_vars => SinkInv'
  BY TypeStep, MutexStep, FilesStep DEF SinkInv

\* All the properties of the sink together, with what makes them inductive:
\* the mutex and the progress of the loop of rotate_.
THEOREM Invariance == Spec => []SinkInv
  BY InitInv, Inductive, PTL DEF Spec

\* The state of the sink is always well formed.
THEOREM SinkTypeCorrect == Spec => []TypeOK
  <1>1. SinkInv => TypeOK
    BY DEF SinkInv
  <1> QED
    BY <1>1, Invariance, PTL

\* Whatever file operation fails and wherever the process dies, a file with a
\* higher index holds only older messages (rotate_).
THEOREM RotatedFilesOrdered == Spec => []Ordered
  <1>1. SinkInv => Ordered
    BY DEF SinkInv
  <1> QED
    BY <1>1, Invariance, PTL

\* No file outgrows max_size_ by more than a single oversized message (sink_it_
\* and rotate_).
THEOREM FilesStayBounded == Spec => []FilesBounded
  <1>1. SinkInv => FilesBounded
    BY DEF SinkInv
  <1> QED
    BY <1>1, Invariance, PTL

\* A failed reopen never lets a later message be written through the null fd_
\* (sink_it_, rotate_ and file_helper::write).
THEOREM NoWriteThroughNull == Spec => []ClosedForcesRotation
  <1>1. SinkInv => ClosedForcesRotation
    BY DEF SinkInv
  <1> QED
    BY <1>1, Invariance, PTL

\* What one step keeps: every message outside the oldest file is found again.
LEMMA StepKeeps ==
  ASSUME SinkInv, Next, faults' = faults, \A t \in Threads : pc[t] # "truncate"
  PROVE  Kept \ Kept' \subseteq ids[max_files_]
  <1> DEFINE Found == \A k \in Index : k # max_files_ =>
                        \A m \in Lines(k) : \E l \in Index : m \in Lines(l)'
  <1>1. SUFFICES Found
    <2>1. \A m \in Kept \ Kept' : \E k \in Index : m \in Lines(k)
      BY DEF Kept
    <2>2. \A m : (\E l \in Index : m \in Lines(l)') => m \in Kept'
      BY DEF Kept
    <2>3. Lines(max_files_) = ids[max_files_]
      BY SinkAssumption DEF Lines
    <2> HIDE DEF Kept
    <2> QED
      BY <2>1, <2>2, <2>3
  <1>2. TypeOK /\ faults \in Nat /\ 0 \in Index
    BY SinkAssumption DEF SinkInv, TypeOK, Index
  <1>3. PICK t \in Threads : ThreadStep(t)
    BY <1>2 DEF Next, Crash, Fault
  <1>4. CASE Write(t)
    <2>1. \A k \in Index : Lines(k) \subseteq Lines(k)'
      BY <1>4 DEF Write, Lines, disk
    <2> QED
      BY <2>1
  <1>5. CASE StartRotate(t) \/ Flush(t)
    <2>1. Drain
      BY <1>5 DEF StartRotate, Flush
    <2>2. \A k \in Index : Lines(k) = Lines(k)'
      BY <1>2, <2>1 DEF Drain, Lines, TypeOK
    <2> QED
      BY <2>2
  <1>6. CASE RemoveTarget(t)
    <2>1. i # max_files_ => ids[i] = {}
      BY <1>6, SinkAssumption DEF RemoveTarget, SinkInv, RotationOK, TypeOK, Index
    <2>2. \A k \in Index : k # i => ids'[k] = ids[k]
      BY <1>2, <1>6 DEF RemoveTarget, TypeOK, disk
    <2>3. i # 0 /\ buf' = buf
      BY <1>6 DEF RemoveTarget
    <2>4. \A k \in Index : k # max_files_ => Lines(k) \subseteq Lines(k)'
      BY <1>2, <2>1, <2>2, <2>3 DEF Lines
    <2> QED
      BY <2>4
  <1>7. CASE Rename(t)
    <2>1. i \in Index /\ i - 1 \in Index /\ i # 0 /\ ids[i] = {}
      <3>1. i > 0 /\ ids[i] = {}
        BY <1>7 DEF Rename, SinkInv, RotationOK
      <3>2. i \in 0..max_files_
        BY <1>2 DEF TypeOK, Index
      <3> QED
        BY <3>1, <3>2, SinkAssumption DEF Index
    <2>2. buf = {} /\ buf' = {}
      <3>1. holder # NoThread
        BY <1>7, HolderFacts DEF Rename, Rotating
      <3>2. buf = {}
        BY <3>1 DEF SinkInv, RotationOK
      <3> QED
        BY <1>7, <3>2 DEF Rename
    <2>3. ids' = [ids EXCEPT ![i - 1] = {}, ![i] = ids[i - 1]]
      BY <1>7 DEF Rename
    <2>4. ids'[i] = ids[i - 1] /\ \A k \in Index : k # i /\ k # i - 1 => ids'[k] = ids[k]
      BY <1>2, <2>1, <2>3 DEF TypeOK
    <2>5. \A k \in Index : Lines(k) = ids[k] /\ Lines(k)' = ids'[k]
      BY <2>2 DEF Lines
    <2>6. \A k \in Index : \A m \in ids[k] : \E l \in Index : m \in ids'[l]
      <3> SUFFICES ASSUME NEW k \in Index, NEW m \in ids[k]
                   PROVE  \E l \in Index : m \in ids'[l]
        OBVIOUS
      <3>1. CASE k = i - 1
        BY <2>1, <2>4, <3>1
      <3>2. CASE k # i - 1
        BY <2>1, <2>4, <3>2
      <3> QED
        BY <3>1, <3>2
    <2> QED
      BY <2>5, <2>6
  <1>8. CASE RenameFails(t) \/ ReopenFails(t) \/ WriteFails(t) \/ FirstWriteFails(t)
    BY <1>2, <1>8 DEF RenameFails, ReopenFails, WriteFails, FirstWriteFails, Fault
  <1>9. CASE TruncateAnyway(t)
    BY <1>9 DEF TruncateAnyway
  <1>10. CASE Reopen(t)
    <2>1. ids[0] = {}
      BY <1>10, SinkAssumption DEF Reopen, SinkInv, RotationOK
    <2>2. buf = {}
      <3>1. holder # NoThread
        BY <1>10, HolderFacts DEF Reopen, Rotating
      <3> QED
        BY <3>1 DEF SinkInv, RotationOK
    <2>3. \A k \in Index : k # 0 => ids'[k] = ids[k]
      BY <1>2, <1>10 DEF Reopen, Truncated, TypeOK
    <2> QED
      BY <2>1, <2>2, <2>3 DEF Lines
  <1> QED
    BY <1>3, <1>4, <1>5, <1>6, <1>7, <1>8, <1>9, <1>10 DEF ThreadStep

\* A rotation without a failing operation drops the oldest file and nothing
\* else, also over the gaps that crashes left behind (rotate_).
THEOREM RotationDropsOldest == Spec => DropsOldestOnly
  <1>1. SinkInv /\ [Next]_vars =>
          [(faults' = faults /\ \A t \in Threads : pc[t] # "truncate")
             => Kept \ Kept' \subseteq ids[max_files_]]_vars
    BY StepKeeps
  <1> QED
    BY <1>1, Invariance, PTL DEF Spec, DropsOldestOnly

-----------------------------------------------------------------------------
(* A rotation ends.                                                        *)

\* What the rotation has yet to do: an upper bound on its steps.
RotateLeft ==
  IF holder = NoThread THEN 0
  ELSE IF pc[holder] = "remove" THEN 2 * i + 2
  ELSE IF pc[holder] = "rename" THEN 2 * i + 1 ELSE 1

\* Whatever step is taken while the mutex is held, the rotation is nearer to
\* its end.
RotationAdvances ==
  [][holder # NoThread =>
       RotateLeft \in Nat /\ RotateLeft' \in Nat /\ RotateLeft' < RotateLeft]_vars

LEMMA RotationStepAdvances ==
  ASSUME SinkInv, Next, holder # NoThread
  PROVE  RotateLeft \in Nat /\ RotateLeft' \in Nat /\ RotateLeft' < RotateLeft
  <1>1. /\ holder \in Threads /\ i \in Nat /\ pc \in [Threads -> SinkPC]
        /\ pc[holder] \in {"remove", "rename", "truncate"}
        /\ pc[holder] = "rename" => i > 0
        /\ \A t \in Threads : Rotating(t) => t = holder
    BY SinkAssumption DEF SinkInv, TypeOK, MutexOK, Rotating, RotationOK, Index
  <1>2. RotateLeft \in Nat /\ RotateLeft > 0
    BY <1>1 DEF RotateLeft
  <1>3. ASSUME holder' = NoThread
        PROVE  RotateLeft' \in Nat /\ RotateLeft' < RotateLeft
    <2>1. RotateLeft' = 0
      BY <1>3 DEF RotateLeft
    <2> QED
      BY <1>2, <2>1
  <1>4. CASE Crash
    BY <1>2, <1>3, <1>4 DEF Crash
  <1>5. ASSUME NEW t \in Threads, ThreadStep(t)
        PROVE  RotateLeft' \in Nat /\ RotateLeft' < RotateLeft
    <2>1. CASE RemoveTarget(t)
      <3>1. pc[t] = "remove" /\ i > 0 /\ holder' = holder
        BY <2>1 DEF RemoveTarget
      <3>2. t = holder
        BY <1>1, <3>1 DEF Rotating
      <3>3. \/ pc'[holder] = "rename" /\ i' = i
            \/ pc'[holder] = "remove" /\ i' = i - 1
        BY <1>1, <2>1, <3>1, <3>2 DEF RemoveTarget, GoTo
      <3>4. RotateLeft = 2 * i + 2
        BY <3>1, <3>2 DEF RotateLeft
      <3>5. \/ RotateLeft' = 2 * i + 1
            \/ RotateLeft' = 2 * (i - 1) + 2
        BY <3>1, <3>3 DEF RotateLeft
      <3> QED
        BY <1>1, <3>1, <3>4, <3>5
    <2>2. CASE Rename(t)
      <3>1. pc[t] = "rename" /\ holder' = holder /\ i' = i - 1
        BY <2>2 DEF Rename
      <3>2. t = holder
        BY <1>1, <3>1 DEF Rotating
      <3>3. pc'[holder] = "remove"
        BY <1>1, <2>2, <3>2 DEF Rename, GoTo
      <3>4. RotateLeft = 2 * i + 1 /\ RotateLeft' = 2 * (i - 1) + 2 /\ i > 0
        BY <1>1, <3>1, <3>2, <3>3 DEF RotateLeft
      <3> QED
        BY <1>1, <3>4
    <2>3. CASE RenameFails(t)
      <3>1. pc[t] = "rename" /\ holder' = holder
        BY <2>3 DEF RenameFails
      <3>2. t = holder
        BY <1>1, <3>1 DEF Rotating
      <3>3. pc'[holder] = "truncate"
        BY <1>1, <2>3, <3>2 DEF RenameFails, GoTo
      <3>4. RotateLeft = 2 * i + 1 /\ RotateLeft' = 1 /\ i > 0
        BY <1>1, <3>1, <3>2, <3>3 DEF RotateLeft
      <3> QED
        BY <1>1, <3>4
    <2>4. CASE TruncateAnyway(t) \/ Reopen(t) \/ ReopenFails(t) \/ FirstWriteFails(t)
      BY <1>3, <2>4 DEF TruncateAnyway, Reopen, ReopenFails, FirstWriteFails, Throw
    <2>5. ~ (Write(t) \/ StartRotate(t) \/ Flush(t) \/ WriteFails(t))
      BY DEF Write, StartRotate, Flush, WriteFails
    <2> QED
      BY <1>5, <2>1, <2>2, <2>3, <2>4, <2>5 DEF ThreadStep
  <1> QED
    BY <1>2, <1>3, <1>4, <1>5 DEF Next, Crash

\* What RotationEnds needs besides fairness, for any number of files, threads and
\* failing operations: no other thread interferes with a rotation, and the mutex is
\* free again after at most 2 * max_files_ + 2 steps (rotating_file_sink-inl.h lines
\* 83-118).
THEOREM RotationAdvancesHolds == Spec => RotationAdvances
  <1>1. SinkInv /\ [Next]_vars =>
          [holder # NoThread =>
             RotateLeft \in Nat /\ RotateLeft' \in Nat /\ RotateLeft' < RotateLeft]_vars
    BY RotationStepAdvances
  <1> QED
    BY <1>1, Invariance, PTL DEF Spec, RotationAdvances
=============================================================================
