-------------------------- MODULE RequestHandlers --------------------------
(***************************************************************************)
(* The four request handlers of fileCacheProxy, as they run in the event   *)
(* loops of the pool's threads, against FastDFS and the shared record file.*)
(*                                                                         *)
(* A handler runs in the thread of its loop and answers one request at a   *)
(* time; handlers of different threads interleave.  FastDFS is external:   *)
(* each call may succeed or fail, and a call that fails may nevertheless   *)
(* have taken effect.  A file is named by the upload request that created  *)
(* it.  fFileID is one std::ofstream that the threads write without a      *)
(* lock: each << finds its position in the stream and writes there, piece  *)
(* by piece, so that the output of threads that race may be overwritten,   *)
(* mixed, and interspersed with what nobody wrote.  Neither the opening of *)
(* the stream nor a write to it is checked; once it has failed, it stays   *)
(* failed, and every further << does nothing.                              *)
(***************************************************************************)
EXTENDS Integers, Sequences, FiniteSets, Functions

CONSTANTS
  Workers,      \* threads that run an event loop
  Requests,     \* HTTP requests that will arrive
  Size,         \* Size[r]: pieces that the FileID of r is written in
  FdLimit,      \* descriptors left for connections to storage servers
  TrackerDrops, \* TRUE if a tracker may close an idle connection
  MaxRestarts,  \* bound on the crashes of the process
  NoReq,        \* a worker with no request
  NoFile,       \* a request without a FileID header
  NL,           \* the end of a line of the record file
  Stale         \* what a race leaves in the stream and nobody wrote

ASSUME HandlerAssumption ==
  /\ FdLimit \in Nat /\ MaxRestarts \in Nat
  /\ TrackerDrops \in BOOLEAN
  /\ Size \in [Requests -> Nat \ {0}]
  /\ {NoReq, NoFile} \cap Requests = {}
  /\ {NL, Stale} \cap (Requests \X Nat) = {} /\ NL # Stale

VARIABLES
  todo,      \* requests that have not arrived yet
  pc,        \* pc[w]: where the handler that w runs is
  req,       \* req[w]: the request w is answering
  tgt,       \* tgt[w]: its FileID header
  answers,   \* answers[r]: the replies sent for r
  conn,      \* conn[w]: connectResult, w's connection to a tracker
  fds,       \* open connections to storage servers
  stored,    \* files that FastDFS holds
  created,   \* files that FastDFS has ever held
  out,       \* the record file
  good,      \* fFileID.good()
  pos,       \* pos[w]: stream position where w writes
  done,      \* done[w]: pieces of its FileID that w has written
  restarts

extern == <<stored, created>>
stream == <<out, good, pos, done>>
vars == <<todo, pc, req, tgt, answers, conn, fds, extern, stream, restarts>>

Paths == {"/", "/fileinfo", "/upload", "/delete"}
HandlerPC == Paths \cup {"idle", "connect", "send", "reply", "record", "put",
                         "endl", "putnl"}

\* A reply: status, and the FileID it is about.
Answer(code, file) == [code |-> code, file |-> file]
Bare(code) == Answer(code, NoFile)
Replies == [code : {200, 400, 503}, file : Requests \cup {NoFile}]

Init ==
  /\ todo = Requests
  /\ pc = [w \in Workers |-> "idle"]
  /\ req = [w \in Workers |-> NoReq]
  /\ tgt = [w \in Workers |-> NoFile]
  /\ answers = [r \in Requests |-> <<>>]
  /\ conn = [w \in Workers |-> "ok"]
  /\ fds = 0
  /\ stored = {}
  /\ created = {}
  /\ out = <<>> /\ good \in BOOLEAN
  /\ pos = [w \in Workers |-> 0] /\ done = [w \in Workers |-> 0]
  /\ restarts = 0

GoTo(w, label) == pc' = [pc EXCEPT ![w] = label]

\* evhttp_send_reply for the request of w.
Send(w, a) == answers' = [answers EXCEPT ![req[w]] = Append(@, a)]

\* The handler of w returns to the event loop.
Done(w) ==
  /\ GoTo(w, "idle")
  /\ req' = [req EXCEPT ![w] = NoReq]
  /\ tgt' = [tgt EXCEPT ![w] = NoFile]

ReplyAndReturn(w, a) == Send(w, a) /\ Done(w)

-----------------------------------------------------------------------------
(* A request arrives and libevent calls the handler of its path; any path   *)
(* without a handler of its own goes to that of "/".                        *)
Receive(w, r) ==
  /\ pc[w] = "idle"
  /\ r \in todo
  /\ todo' = todo \ {r}
  /\ req' = [req EXCEPT ![w] = r]
  /\ \E p \in Paths : GoTo(w, p)
  /\ tgt' \in {[tgt EXCEPT ![w] = f] : f \in Requests \cup {NoFile}}
  /\ UNCHANGED <<answers, conn, fds, extern, stream, restarts>>

httpd_handler(w) ==
  /\ pc[w] = "/"
  /\ ReplyAndReturn(w, Bare(400))
  /\ UNCHANGED <<todo, conn, fds, extern, stream, restarts>>

-----------------------------------------------------------------------------
(* upload_handler.                                                         *)

\* evhttp_request_get_input_buffer returned nullptr.
UploadNoBody(w) ==
  /\ pc[w] = "/upload"
  /\ ReplyAndReturn(w, Bare(400))
  /\ UNCHANGED <<todo, conn, fds, extern, stream, restarts>>

\* tracker_query_storage_store over the worker's own tracker connection.  The
\* library reconnects only a connection whose descriptor is negative, so one
\* that the tracker has closed fails, and stays as it is.
QueryStore(w) ==
  /\ pc[w] = "/upload"
  /\ \/ /\ conn[w] = "ok"
        /\ GoTo(w, "connect")
        /\ UNCHANGED <<answers, req, tgt>>
     \/ ReplyAndReturn(w, Bare(503))
  /\ UNCHANGED <<todo, conn, fds, extern, stream, restarts>>

\* Mutant of MakeConnection: a nullptr is not answered but tried again until a
\* descriptor is free.
BugRetryConnection(w) ==
  /\ pc[w] = "connect"
  /\ fds < FdLimit
  /\ fds' = fds + 1
  /\ GoTo(w, "send")
  /\ UNCHANGED <<todo, req, tgt, answers, conn, extern, stream, restarts>>

\* tracker_make_connection to the storage server.  Nothing closes it again.
MakeConnection(w) ==
  /\ pc[w] = "connect"
  /\ \/ /\ fds < FdLimit
        /\ fds' = fds + 1
        /\ GoTo(w, "send")
        /\ UNCHANGED <<answers, req, tgt>>
     \/ ReplyAndReturn(w, Bare(503)) /\ UNCHANGED fds
  /\ UNCHANGED <<todo, conn, extern, stream, restarts>>

\* Mutant of UploadFile: the return after the 503 is missing.
BugUploadNoReturn(w) ==
  /\ pc[w] = "send"
  /\ \/ /\ stored' = stored \cup {req[w]}
        /\ created' = created \cup {req[w]}
        /\ GoTo(w, "reply")
        /\ UNCHANGED answers
     \/ /\ Send(w, Bare(503))
        /\ GoTo(w, "reply")
        /\ UNCHANGED <<stored, created>>
  /\ UNCHANGED <<todo, req, tgt, conn, fds, stream, restarts>>

\* Mutant of UploadFile: the result of the call is not looked at.
BugUploadUnchecked(w) ==
  /\ pc[w] = "send"
  /\ \/ /\ stored' = stored \cup {req[w]}
        /\ created' = created \cup {req[w]}
     \/ UNCHANGED <<stored, created>>
  /\ GoTo(w, "reply")
  /\ UNCHANGED <<todo, req, tgt, answers, conn, fds, stream, restarts>>

\* storage_upload_by_filebuff.  It may fail after the file was stored.
UploadFile(w) ==
  /\ pc[w] = "send"
  /\ \/ /\ stored' = stored \cup {req[w]}
        /\ created' = created \cup {req[w]}
        /\ GoTo(w, "reply")
        /\ UNCHANGED <<answers, req, tgt>>
     \/ /\ \/ /\ stored' = stored \cup {req[w]}
              /\ created' = created \cup {req[w]}
           \/ UNCHANGED <<stored, created>>
        /\ ReplyAndReturn(w, Bare(503))
  /\ UNCHANGED <<todo, conn, fds, stream, restarts>>

\* Mutant of ReplyUpload: the handler returns before it records.
BugReturnBeforeRecord(w) ==
  /\ pc[w] = "reply"
  /\ ReplyAndReturn(w, Answer(200, req[w]))
  /\ UNCHANGED <<todo, conn, fds, extern, stream, restarts>>

ReplyUpload(w) ==
  /\ pc[w] = "reply"
  /\ Send(w, Answer(200, req[w]))
  /\ GoTo(w, "record")
  /\ UNCHANGED <<todo, req, tgt, conn, fds, extern, stream, restarts>>

\* Mutant of RecordSeek: the stream starts again at its beginning.
BugRecordRewind(w) ==
  /\ good
  /\ \/ pc[w] = "record" /\ GoTo(w, "put")
     \/ pc[w] = "endl" /\ GoTo(w, "putnl")
  /\ pos' = [pos EXCEPT ![w] = IF pc[w] = "record" THEN 0 ELSE Len(out)]
  /\ UNCHANGED <<todo, req, tgt, answers, conn, fds, extern, out, good, done, restarts>>

\* Each << of "fFileID << j_str << endl" finds its place in the stream ...
RecordSeek(w) ==
  /\ good
  /\ \/ pc[w] = "record" /\ GoTo(w, "put")
     \/ pc[w] = "endl" /\ GoTo(w, "putnl")
  /\ pos' = [pos EXCEPT ![w] = Len(out)]
  /\ UNCHANGED <<todo, req, tgt, answers, conn, fds, extern, out, good, done, restarts>>

\* ... or, in a stream that has failed, does nothing; the handler returns.
RecordSkip(w) ==
  /\ ~good /\ pc[w] \in {"record", "endl"}
  /\ done' = [done EXCEPT ![w] = 0]
  /\ Done(w)
  /\ UNCHANGED <<todo, answers, conn, fds, extern, out, good, pos, restarts>>

\* The stream after x was written behind position p.
PutAt(p, x) == SubSeq(out, 1, p) \o <<x>> \o SubSeq(out, p + 2, Len(out))

\* The streams that a write of x by w may leave.  The position that two threads
\* advance at the same time may come to lie behind what they wrote.
Written(w, x) ==
  LET new == PutAt(pos[w], x)
  IN  {new} \cup {new \o <<Stale>> : v \in {u \in Workers \ {w} : pc[u] \in {"put", "putnl"}}}

\* Mutant of RecordPut: the line is not written.
BugRecordNothing(w) ==
  /\ pc[w] = "put"
  /\ GoTo(w, "endl")
  /\ UNCHANGED <<todo, req, tgt, answers, conn, fds, extern, stream, restarts>>

\* Then it writes there: a piece of the FileID ...
RecordPut(w) ==
  /\ pc[w] = "put"
  /\ out' \in Written(w, <<req[w], done[w] + 1>>)
  /\ pos' = [pos EXCEPT ![w] = @ + 1] /\ done' = [done EXCEPT ![w] = @ + 1]
  /\ GoTo(w, IF done[w] + 1 = Size[req[w]] THEN "endl" ELSE "put")
  /\ UNCHANGED <<todo, req, tgt, answers, conn, fds, extern, good, restarts>>

\* ... or the end of the line, after which the handler returns.
RecordEndl(w) ==
  /\ pc[w] = "putnl"
  /\ out' \in Written(w, NL)
  /\ done' = [done EXCEPT ![w] = 0]
  /\ Done(w)
  /\ UNCHANGED <<todo, answers, conn, fds, extern, good, pos, restarts>>

\* Mutant of RecordFails: the error is cleared and endl written all the same.
BugClearAndGoOn(w) ==
  /\ pc[w] = "put"
  /\ GoTo(w, "endl")
  /\ UNCHANGED <<todo, req, tgt, answers, conn, fds, extern, stream, restarts>>

\* The write fails, and with it the stream for good; what was written before
\* remains.  Nobody looks, and the handler returns.
RecordFails(w) ==
  /\ pc[w] \in {"put", "putnl"}
  /\ good' = FALSE
  /\ done' = [done EXCEPT ![w] = 0]
  /\ Done(w)
  /\ UNCHANGED <<todo, answers, conn, fds, extern, out, pos, restarts>>

-----------------------------------------------------------------------------
(* delete_handler and fileinfo_handler.                                    *)

\* storage_delete_file1 asks the tracker over the worker's connection for the
\* storage server; it may fail after the file was deleted.
delete_handler(w) ==
  /\ pc[w] = "/delete"
  /\ \/ /\ tgt[w] = NoFile
        /\ ReplyAndReturn(w, Bare(400))
        /\ UNCHANGED stored
     \/ /\ tgt[w] # NoFile
        /\ stored' \in IF conn[w] = "ok" THEN {stored, stored \ {tgt[w]}} ELSE {stored}
        /\ ReplyAndReturn(w, Bare(400))
     \/ /\ tgt[w] \in stored /\ conn[w] = "ok"
        /\ stored' = stored \ {tgt[w]}
        /\ ReplyAndReturn(w, Bare(200))
  /\ UNCHANGED <<todo, conn, fds, created, stream, restarts>>

\* fdfs_get_file_info1 takes what it can from the file's name, so that it may
\* succeed for a file that is not there.
fileinfo_handler(w) ==
  /\ pc[w] = "/fileinfo"
  /\ \/ ReplyAndReturn(w, Bare(400))
     \/ tgt[w] # NoFile /\ ReplyAndReturn(w, Bare(200))
  /\ UNCHANGED <<todo, conn, fds, extern, stream, restarts>>

-----------------------------------------------------------------------------
(* Environment.                                                            *)

\* The tracker closes a worker's connection.
Drop(w) ==
  /\ TrackerDrops
  /\ conn[w] = "ok"
  /\ conn' = [conn EXCEPT ![w] = "broken"]
  /\ UNCHANGED <<todo, pc, req, tgt, answers, fds, extern, stream, restarts>>

\* The process dies and the monitor starts it again: new connections, and init
\* opens the record file with std::ofstream(mProclogFile), which empties it or
\* fails.
Restart ==
  /\ restarts < MaxRestarts
  /\ restarts' = restarts + 1
  /\ pc' = [w \in Workers |-> "idle"]
  /\ req' = [w \in Workers |-> NoReq]
  /\ tgt' = [w \in Workers |-> NoFile]
  /\ conn' = [w \in Workers |-> "ok"]
  /\ pos' = [w \in Workers |-> 0] /\ done' = [w \in Workers |-> 0]
  /\ fds' = 0
  /\ good' \in BOOLEAN /\ out' \in IF good' THEN {<<>>} ELSE {<<>>, out}
  /\ UNCHANGED <<todo, answers, extern>>

HandlerStep(w) ==
  \/ httpd_handler(w) \/ UploadNoBody(w) \/ QueryStore(w) \/ MakeConnection(w)
  \/ UploadFile(w) \/ ReplyUpload(w)
  \/ RecordSeek(w) \/ RecordSkip(w) \/ RecordPut(w) \/ RecordEndl(w) \/ RecordFails(w)
  \/ delete_handler(w) \/ fileinfo_handler(w)

Next ==
  \/ \E w \in Workers : HandlerStep(w) \/ Drop(w) \/ \E r \in Requests : Receive(w, r)
  \/ Restart

Spec == Init /\ [][Next]_vars

\* Loops are scheduled, calls of FastDFS return (its client has network
\* timeouts), and requests keep arriving.
Fairness ==
  /\ \A w \in Workers : WF_vars(HandlerStep(w))
  /\ \A w \in Workers : WF_vars(\E r \in Requests : Receive(w, r))

FairSpec == Spec /\ Fairness

-----------------------------------------------------------------------------
(* Properties.                                                             *)

Cells == (Requests \X Nat) \cup {NL, Stale}

TypeOK ==
  /\ todo \in SUBSET Requests
  /\ pc \in [Workers -> HandlerPC]
  /\ req \in [Workers -> Requests \cup {NoReq}]
  /\ tgt \in [Workers -> Requests \cup {NoFile}]
  /\ answers \in [Requests -> Seq(Replies)]
  /\ conn \in [Workers -> {"ok", "broken"}]
  /\ fds \in 0..FdLimit
  /\ stored \in SUBSET Requests /\ created \in SUBSET Requests
  /\ out \in Seq(Cells) /\ good \in BOOLEAN
  /\ pos \in [Workers -> Nat] /\ done \in [Workers -> Nat]
  /\ restarts \in 0..MaxRestarts

InService(r) == \E w \in Workers : req[w] = r
HandedOut(r) == \E n \in DOMAIN answers[r] : answers[r][n].file = r

\* The line behind position n is the FileID of r, with its end.
LineAt(r, n) ==
  /\ n = 0 \/ out[n] = NL
  /\ n + Size[r] < Len(out)
  /\ \A h \in 1..Size[r] : out[n + h] = <<r, h>>
  /\ out[n + Size[r] + 1] = NL
OnOwnLine(r) == \E n \in 0..Len(out) : LineAt(r, n)

\* A handler sends one reply on each of its paths, never two: a request that
\* is no longer in service has its reply, unless the process was restarted
\* while it was served (lines 303-453).
OneReply ==
  \A r \in Requests :
    /\ Len(answers[r]) <= 1
    /\ (r \notin todo /\ ~InService(r) /\ restarts = 0) => Len(answers[r]) = 1

\* A client gets a FileID only for a file that FastDFS has stored, whatever
\* fails on the way and whoever deletes it later (lines 335-373).
HandedOutWasStored == \A r \in Requests : HandedOut(r) => r \in created

\* No file gets lost track of while the process lives and the record stream is
\* good: what FastDFS holds is on a line of the record file, or its upload is in
\* service, or the client was told 503 (the upload took effect and then failed).
\* The first write that fails ends this, as nobody looks (lines 89 and 377).
StoredIsAccountedFor ==
  \A r \in stored :
    \/ restarts > 0 \/ ~good
    \/ OnOwnLine(r)
    \/ InService(r)
    \/ \E n \in DOMAIN answers[r] : answers[r][n].code = 503

\* "Recording" (line 376): as long as the record stream is good, a FileID that
\* was handed out is on a line of its own when its handler is done, which is how
\* the cleaner reads the file.
UploadIsRecorded ==
  \A r \in Requests :
    (HandedOut(r) /\ ~InService(r) /\ restarts = 0 /\ good) => OnOwnLine(r)

\* Every line that has its end is one FileID, complete, and one that a client
\* was given: a write that fails half way leaves no line that the cleaner would
\* take for the name of another file (lines 376-377, expireCleaner.cpp line 46).
LinesAreWhole ==
  \A m \in DOMAIN out : out[m] = NL =>
    \E r \in Requests, n \in 0..Len(out) :
      HandedOut(r) /\ m = n + Size[r] + 1 /\ LineAt(r, n)

\* Every request that a handler has accepted is answered, also when trackers
\* and storage servers fail, unless the process dies first.
RequestAnswered ==
  \A r \in Requests : InService(r) ~> (answers[r] # <<>> \/ restarts > 0)

\* A recorded FileID stays recorded as long as the process lives, also when the
\* stream fails; only init, which truncates the file, loses it (lines 89 and 377).
RecordsLostByRestartOnly ==
  [][\A r \in Requests : OnOwnLine(r) => (OnOwnLine(r)' \/ restarts' # restarts)]_vars

\* "Service Temporarily Unavailable": a worker that cannot take uploads is
\* able to take them again later.
CanUpload(w) == conn[w] = "ok" /\ fds < FdLimit
UnavailableIsTemporary == \A w \in Workers : ~CanUpload(w) ~> CanUpload(w)
=============================================================================
