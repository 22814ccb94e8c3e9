----------------------- MODULE RequestHandlersProofs ------------------------
(***************************************************************************)
(* Theorems about RequestHandlers: for any workers, requests, descriptors  *)
(* and restarts what clients are told, and for a single worker what the    *)
(* record file holds.                                                      *)
(***************************************************************************)
EXTENDS RequestHandlers, SequenceTheorems, TLAPS

\* Where a handler has not replied yet, and where only the record is left.
Before == Paths \cup {"connect", "send"}
After == {"record", "put", "endl", "putnl"}

\* A worker that is not idle has a request, of its own.
ServiceOK ==
  /\ \A w \in Workers : req[w] = NoReq <=> pc[w] = "idle"
  /\ \A w \in Workers : req[w] \notin todo
  /\ \A v, w \in Workers : req[v] = req[w] /\ req[v] # NoReq => v = w

RepliesOK ==
  /\ \A r \in todo : answers[r] = <<>>
  /\ \A w \in Workers : pc[w] \in Before \cup {"reply"} => answers[req[w]] = <<>>
  /\ \A w \in Workers : pc[w] \in After => answers[req[w]] = <<Answer(200, req[w])>>

\* A file exists from the upload on that created it.
CreatedOK ==
  /\ stored \subseteq created
  /\ \A r \in created : r \notin todo
  /\ \A w \in Workers : pc[w] \in Before => req[w] \notin created
  /\ \A w \in Workers : pc[w] = "reply" => req[w] \in created

PosOK == \A w \in Workers : pos[w] <= Len(out)

HandlerInv ==
  /\ TypeOK /\ ServiceOK /\ RepliesOK /\ CreatedOK /\ PosOK
  /\ OneReply /\ HandedOutWasStored

OneWorker == \A v, w \in Workers : v = w

Writing == {"put", "endl", "putnl"}

\* The record file ends with what w has written of its FileID, from the beginning
\* of a line on.
Partial(w) ==
  LET start == Len(out) - done[w]
  IN  /\ done[w] <= Len(out)
      /\ start = 0 \/ out[start] = NL
      /\ \A h \in 1..done[w] : out[start + h] = <<req[w], h>>

\* The record file of a single worker: while the stream is good there are only
\* complete lines and the one that the worker is writing, at the end of the file.
LinesOK ==
  /\ good => \A w \in Workers : Partial(w)
  /\ \A w \in Workers :
       /\ pc[w] \in Writing => good
       /\ pc[w] \notin Writing => done[w] = 0
       /\ pc[w] = "put" => done[w] < Size[req[w]]
       /\ pc[w] \in {"endl", "putnl"} => done[w] = Size[req[w]]
       /\ pc[w] \in {"put", "putnl"} => pos[w] = Len(out)

RecordInv == LinesOK /\ LinesAreWhole /\ StoredIsAccountedFor /\ UploadIsRecorded

-----------------------------------------------------------------------------
(* The model's operators.                                                  *)

\* s is the stream with x behind position p, in the place of what was there or
\* at the end.
Overwrites(s, p, x) ==
  /\ Len(s) = IF p = Len(out) THEN p + 1 ELSE Len(out)
  /\ \A n \in 1..Len(s) : s[n] = IF n = p + 1 THEN x ELSE out[n]

LEMMA PutAtFacts ==
  ASSUME NEW S, out \in Seq(S), NEW p \in 0..Len(out), NEW x \in S
  PROVE  PutAt(p, x) \in Seq(S) /\ Overwrites(PutAt(p, x), p, x)
  <1> DEFINE a == SubSeq(out, 1, p)
             b == SubSeq(out, p + 2, Len(out))
             ax == a \o <<x>>
             rest == IF p + 2 <= Len(out) THEN Len(out) - p - 1 ELSE 0
  <1>1. PutAt(p, x) = ax \o b
    BY DEF PutAt
  <1>2. a \in Seq(S) /\ Len(a) = p /\ \A n \in 1..p : a[n] = out[n]
    OBVIOUS
  <1>3. b \in Seq(S) /\ Len(b) = rest /\ \A n \in 1..rest : b[n] = out[n + p + 1]
    <2>1. CASE p + 2 <= Len(out)
      BY <2>1
    <2>2. CASE p + 2 > Len(out)
      BY <2>2
    <2> QED
      BY <2>1, <2>2
  <1> HIDE DEF a, b
  <1>4. /\ ax \in Seq(S) /\ Len(ax) = p + 1
        /\ \A n \in 1..(p + 1) : ax[n] = IF n = p + 1 THEN x ELSE out[n]
    BY <1>2
  <1> HIDE DEF ax
  <1>5. rest \in Nat /\ p + 1 + rest = IF p = Len(out) THEN p + 1 ELSE Len(out)
    <2>1. Len(out) \in Nat
      OBVIOUS
    <2>2. CASE p + 2 <= Len(out)
      BY <2>1, <2>2
    <2>3. CASE ~(p + 2 <= Len(out))
      BY <2>1, <2>3
    <2> QED
      BY <2>2, <2>3
  <1> HIDE DEF rest
  <1>6. /\ ax \o b \in Seq(S) /\ Len(ax \o b) = p + 1 + rest
        /\ \A n \in 1..(p + 1 + rest) :
             (ax \o b)[n] = IF n <= p + 1 THEN ax[n] ELSE b[n - (p + 1)]
    <2>1. /\ ax \o b \in Seq(S)
          /\ Len(ax \o b) = Len(ax) + Len(b)
          /\ \A n \in 1..(Len(ax) + Len(b)) :
               (ax \o b)[n] = IF n <= Len(ax) THEN ax[n] ELSE b[n - Len(ax)]
      BY <1>3, <1>4, ConcatProperties, Zenon
    <2>2. Len(ax) = p + 1 /\ Len(b) = rest
      BY <1>3, <1>4, Zenon
    <2> QED
      BY <2>1, <2>2, Zenon
  <1>7. ASSUME NEW n \in 1..(p + 1 + rest)
        PROVE  (ax \o b)[n] = IF n = p + 1 THEN x ELSE out[n]
    <2>1. CASE n <= p + 1
      BY <1>4, <1>5, <1>6, <2>1
    <2>2. CASE n > p + 1
      <3>1. n - (p + 1) \in 1..rest /\ n - (p + 1) + p + 1 = n
        BY <1>5, <2>2
      <3>2. b[n - (p + 1)] = out[n]
        BY <1>3, <3>1
      <3> QED
        BY <1>6, <2>2, <3>2
    <2>3. n <= p + 1 \/ n > p + 1
      BY <1>5
    <2> QED
      BY <2>1, <2>2, <2>3, Zenon
  <1> QED
    BY <1>1, <1>5, <1>6, <1>7 DEF Overwrites

\* What a worker that is serving has in its hands.
LEMMA ServingFacts ==
  ASSUME HandlerInv, NEW w \in Workers, pc[w] # "idle"
  PROVE  /\ req[w] \in Requests /\ req[w] \notin todo
         /\ req[w] # NoReq /\ req[w] # NoFile
         /\ \A v \in Workers : req[v] = req[w] => v = w
  BY HandlerAssumption DEF HandlerInv, TypeOK, ServiceOK

LEMMA BareFacts ==
  ASSUME NEW c \in {200, 400, 503}, NEW f \in Requests \cup {NoFile}
  PROVE  /\ Answer(c, f) \in Replies /\ Bare(c) \in Replies
         /\ Answer(c, f).file = f /\ Answer(c, f).code = c
         /\ Bare(c).file = NoFile /\ Bare(c).code = c
  BY DEF Answer, Bare, Replies

\* The one reply of a handler that has not replied yet, and its return.
LEMMA ReplyEffect ==
  ASSUME HandlerInv, NEW w \in Workers, pc[w] \in Before, NEW a \in Replies,
         ReplyAndReturn(w, a)
  PROVE  /\ pc' \in [Workers -> HandlerPC]
         /\ req' \in [Workers -> Requests \cup {NoReq}]
         /\ tgt' \in [Workers -> Requests \cup {NoFile}]
         /\ answers' \in [Requests -> Seq(Replies)]
         /\ \A v \in Workers : pc'[v] = IF v = w THEN "idle" ELSE pc[v]
         /\ \A v \in Workers : req'[v] = IF v = w THEN NoReq ELSE req[v]
         /\ \A r \in Requests : answers'[r] = IF r = req[w] THEN <<a>> ELSE answers[r]
  <1>1. req[w] \in Requests /\ answers[req[w]] = <<>>
    BY ServingFacts DEF HandlerInv, RepliesOK, Before, Paths
  <1>2. answers' = [answers EXCEPT ![req[w]] = <<a>>]
    BY <1>1 DEF ReplyAndReturn, Send
  <1>3. <<a>> \in Seq(Replies)
    OBVIOUS
  <1>4. /\ answers' \in [Requests -> Seq(Replies)]
        /\ \A r \in Requests : answers'[r] = IF r = req[w] THEN <<a>> ELSE answers[r]
    BY <1>1, <1>2, <1>3 DEF HandlerInv, TypeOK
  <1>5. /\ pc' = [pc EXCEPT ![w] = "idle"]
        /\ req' = [req EXCEPT ![w] = NoReq]
        /\ tgt' = [tgt EXCEPT ![w] = NoFile]
    BY DEF ReplyAndReturn, Done, GoTo
  <1>6. "idle" \in HandlerPC
    BY DEF HandlerPC
  <1> QED
    BY <1>4, <1>5, <1>6 DEF HandlerInv, TypeOK

\* A handler that ends with a reply keeps the invariant, if the reply does not
\* hand out the request's own file and only that file may have been added.
LEMMA ReplyStep ==
  ASSUME HandlerInv, NEW w \in Workers, pc[w] \in Before, NEW a \in Replies,
         a.file # req[w], ReplyAndReturn(w, a), fds' = fds,
         created' \in {created, created \cup {req[w]}}, stored' \subseteq created',
         UNCHANGED <<todo, conn, out, good, pos, done, restarts>>
  PROVE  HandlerInv'
  <1> PICK r : r = req[w]
    OBVIOUS
  <1> USE DEF HandlerInv
  <1>1. /\ r \in Requests /\ r \notin todo /\ r # NoReq
        /\ \A v \in Workers : req[v] = r => v = w
        /\ answers[r] = <<>> /\ r \notin created /\ NoReq \notin Requests
    BY ServingFacts, HandlerAssumption DEF RepliesOK, CreatedOK, Before, Paths
  <1>2. /\ pc' \in [Workers -> HandlerPC]
        /\ req' \in [Workers -> Requests \cup {NoReq}]
        /\ tgt' \in [Workers -> Requests \cup {NoFile}]
        /\ answers' \in [Requests -> Seq(Replies)]
    BY ReplyEffect
  <1>3. /\ \A v \in Workers : pc'[v] = IF v = w THEN "idle" ELSE pc[v]
        /\ \A v \in Workers : req'[v] = IF v = w THEN NoReq ELSE req[v]
        /\ \A s \in Requests : answers'[s] = IF s = r THEN <<a>> ELSE answers[s]
    BY ReplyEffect
  <1>4. TypeOK'
    <2>1. created' \in SUBSET Requests /\ stored' \in SUBSET Requests
      BY <1>1 DEF TypeOK
    <2> QED
      BY <1>2, <2>1 DEF TypeOK
  <1>5. ServiceOK'
    <2>1. NoReq \notin todo
      BY HandlerAssumption DEF TypeOK
    <2> QED
      BY <1>3, <2>1 DEF ServiceOK
  <1>6. RepliesOK'
    <2>1. \A v \in Workers : pc[v] # "idle" => req[v] \in Requests
      BY ServingFacts
    <2>2. \A s \in todo : answers'[s] = <<>>
      BY <1>1, <1>3 DEF RepliesOK, TypeOK
    <2>3. \A v \in Workers : pc'[v] # "idle" =>
            /\ v # w /\ pc'[v] = pc[v] /\ req'[v] = req[v]
            /\ answers'[req'[v]] = answers[req[v]]
      BY <1>1, <1>3, <2>1
    <2>4. "idle" \notin Before \cup {"reply"} /\ "idle" \notin After
      BY DEF Before, After, Paths
    <2> QED
      BY <2>2, <2>3, <2>4 DEF RepliesOK
  <1>7. CreatedOK'
    <2>1. \A v \in Workers : pc'[v] # "idle" =>
            /\ pc'[v] = pc[v] /\ req'[v] = req[v] /\ req[v] # r
      BY <1>1, <1>3
    <2>2. "idle" \notin Before /\ "idle" # "reply"
      BY DEF Before, Paths
    <2> QED
      BY <1>1, <2>1, <2>2 DEF CreatedOK
  <1>8. PosOK'
    BY DEF PosOK
  <1>9. OneReply'
    <2>1. \A s \in Requests : s # r => (InService(s)' <=> InService(s))
      BY <1>1, <1>3 DEF InService
    <2>2. answers'[r] = <<a>> /\ Len(<<a>>) = 1 /\ 1 <= 1
      BY <1>1, <1>3
    <2>3. \A s \in Requests : s # r => answers'[s] = answers[s]
      BY <1>3
    <2> QED
      BY <2>1, <2>2, <2>3, Zenon DEF OneReply
  <1>10. HandedOutWasStored'
    <2>1. \A s \in Requests : s # r => (HandedOut(s)' <=> HandedOut(s))
      BY <1>3 DEF HandedOut
    <2>2. ~HandedOut(r) /\ ~HandedOut(r)'
      BY <1>1, <1>3 DEF HandedOut
    <2> QED
      BY <1>1, <2>1, <2>2 DEF HandedOutWasStored
  <1> QED
    BY <1>4, <1>5, <1>6, <1>7, <1>8, <1>9, <1>10

\* A handler that goes on without a reply keeps the invariant; it comes to the
\* reply only with a file that exists.
LEMMA AdvanceStep ==
  ASSUME HandlerInv, NEW w \in Workers, pc[w] \in Before,
         NEW label \in {"connect", "send", "reply"}, GoTo(w, label),
         created' = IF label = "reply" THEN created \cup {req[w]} ELSE created,
         stored' \subseteq created', fds' \in 0..FdLimit,
         UNCHANGED <<todo, req, tgt, answers, conn, out, good, pos, done, restarts>>
  PROVE  HandlerInv'
  <1> USE DEF HandlerInv
  <1>1. /\ req[w] \in Requests /\ req[w] \notin todo /\ req[w] # NoReq
        /\ \A v \in Workers : req[v] = req[w] => v = w
        /\ answers[req[w]] = <<>>
    BY ServingFacts DEF RepliesOK, Before, Paths
  <1>2. /\ pc' \in [Workers -> HandlerPC]
        /\ \A v \in Workers : pc'[v] = IF v = w THEN label ELSE pc[v]
    BY DEF GoTo, TypeOK, HandlerPC
  <1>3. TypeOK'
    <2>1. created' \in SUBSET Requests /\ stored' \in SUBSET Requests
      BY <1>1 DEF TypeOK
    <2> QED
      BY <1>2, <2>1 DEF TypeOK
  <1>4. pc[w] # "idle" /\ label # "idle" /\ label \notin After
    BY DEF Before, Paths, After
  <1>5. ServiceOK'
    BY <1>2, <1>4 DEF ServiceOK
  <1>6. RepliesOK'
    BY <1>1, <1>2, <1>4 DEF RepliesOK
  <1>7. CreatedOK'
    <2>1. label = "reply" => label \notin Before
      BY DEF Before, Paths
    <2>2. \A r \in created' : r \notin todo
      BY <1>1 DEF CreatedOK
    <2>3. \A v \in Workers : pc'[v] \in Before => req[v] \notin created'
      BY <1>1, <1>2, <2>1 DEF CreatedOK
    <2>4. \A v \in Workers : pc'[v] = "reply" => req[v] \in created'
      BY <1>1, <1>2 DEF CreatedOK
    <2> QED
      BY <2>2, <2>3, <2>4 DEF CreatedOK
  <1>8. PosOK' /\ OneReply'
    BY DEF PosOK, OneReply, InService
  <1>9. HandedOutWasStored'
    BY DEF HandedOutWasStored, HandedOut
  <1> QED
    BY <1>3, <1>5, <1>6, <1>7, <1>8, <1>9

-----------------------------------------------------------------------------
(* One lemma per action.                                                   *)

LEMMA ReceiveHandler ==
  ASSUME HandlerInv, NEW w \in Workers, NEW r \in Requests, Receive(w, r)
  PROVE  HandlerInv'
  <1> USE DEF HandlerInv
  <1>1. PICK p \in Paths : pc' = [pc EXCEPT ![w] = p]
    BY DEF Receive, GoTo
  <1>2. /\ pc[w] = "idle" /\ r \in todo /\ todo' = todo \ {r}
        /\ req' = [req EXCEPT ![w] = r]
        /\ UNCHANGED <<answers, conn, fds, stored, created, out, good, pos, done, restarts>>
    BY DEF Receive, extern, stream
  <1>3. tgt' \in [Workers -> Requests \cup {NoFile}]
    BY DEF Receive, TypeOK
  <1>4. /\ \A v \in Workers : pc'[v] = IF v = w THEN p ELSE pc[v]
        /\ \A v \in Workers : req'[v] = IF v = w THEN r ELSE req[v]
    BY <1>1, <1>2 DEF TypeOK
  <1>5. p \in HandlerPC /\ p \in Before /\ p # "idle" /\ p # "reply" /\ p \notin After
        /\ r # NoReq
    BY HandlerAssumption DEF HandlerPC, Before, After, Paths
  <1>6. TypeOK'
    BY <1>1, <1>2, <1>3, <1>5 DEF TypeOK
  <1>7. ServiceOK'
    BY <1>2, <1>4, <1>5 DEF ServiceOK
  <1>8. RepliesOK'
    BY <1>2, <1>4, <1>5 DEF RepliesOK
  <1>9. CreatedOK'
    BY <1>2, <1>4, <1>5 DEF CreatedOK
  <1>10. PosOK'
    BY <1>2 DEF PosOK
  <1>11. OneReply'
    <2>1. \A s \in Requests : s # r => (InService(s) => InService(s)')
      BY <1>2, <1>4, HandlerAssumption DEF InService, ServiceOK
    <2>2. InService(r)'
      BY <1>4 DEF InService
    <2> QED
      BY <1>2, <2>1, <2>2, Zenon DEF OneReply
  <1>12. HandedOutWasStored'
    BY <1>2 DEF HandedOutWasStored, HandedOut
  <1> QED
    BY <1>6, <1>7, <1>8, <1>9, <1>10, <1>11, <1>12

LEMMA RepliesBare ==
  ASSUME HandlerInv, NEW w \in Workers, pc[w] \in Before, NEW c \in {200, 400, 503}
  PROVE  Bare(c) \in Replies /\ Bare(c).file # req[w]
  BY BareFacts, ServingFacts DEF Before, Paths

LEMMA httpdHandler ==
  ASSUME HandlerInv, NEW w \in Workers, httpd_handler(w) \/ UploadNoBody(w)
  PROVE  HandlerInv'
  <1>1. pc[w] \in Before /\ ReplyAndReturn(w, Bare(400))
        /\ UNCHANGED <<todo, conn, fds, stored, created, out, good, pos, done, restarts>>
    BY DEF httpd_handler, UploadNoBody, Before, Paths, extern, stream
  <1>2. stored' \subseteq created'
    BY <1>1 DEF HandlerInv, CreatedOK
  <1> QED
    BY <1>1, <1>2, ReplyStep, RepliesBare

LEMMA QueryStoreHandler ==
  ASSUME HandlerInv, NEW w \in Workers, QueryStore(w)
  PROVE  HandlerInv'
  <1>1. /\ pc[w] \in Before
        /\ UNCHANGED <<todo, conn, fds, stored, created, out, good, pos, done, restarts>>
    BY DEF QueryStore, Before, Paths, extern, stream
  <1>2. stored' \subseteq created' /\ fds' \in 0..FdLimit
    BY <1>1 DEF HandlerInv, CreatedOK, TypeOK
  <1>3. CASE ReplyAndReturn(w, Bare(503))
    BY <1>1, <1>2, <1>3, ReplyStep, RepliesBare
  <1>4. CASE GoTo(w, "connect") /\ UNCHANGED <<answers, req, tgt>>
    BY <1>1, <1>2, <1>4, AdvanceStep
  <1> QED
    BY <1>3, <1>4 DEF QueryStore

LEMMA MakeConnectionHandler ==
  ASSUME HandlerInv, NEW w \in Workers, MakeConnection(w)
  PROVE  HandlerInv'
  <1>1. /\ pc[w] \in Before
        /\ UNCHANGED <<todo, conn, stored, created, out, good, pos, done, restarts>>
    BY DEF MakeConnection, Before, Paths, extern, stream
  <1>2. stored' \subseteq created'
    BY <1>1 DEF HandlerInv, CreatedOK
  <1>3. CASE ReplyAndReturn(w, Bare(503)) /\ UNCHANGED fds
    BY <1>1, <1>2, <1>3, ReplyStep, RepliesBare
  <1>4. CASE fds < FdLimit /\ fds' = fds + 1 /\ GoTo(w, "send")
             /\ UNCHANGED <<answers, req, tgt>>
    <2>1. fds' \in 0..FdLimit
      BY <1>4, HandlerAssumption DEF HandlerInv, TypeOK
    <2> QED
      BY <1>1, <1>2, <1>4, <2>1, AdvanceStep
  <1> QED
    BY <1>3, <1>4 DEF MakeConnection

LEMMA UploadFileHandler ==
  ASSUME HandlerInv, NEW w \in Workers, UploadFile(w)
  PROVE  HandlerInv'
  <1>1. pc[w] \in Before /\ UNCHANGED <<todo, conn, fds, out, good, pos, done, restarts>>
    BY DEF UploadFile, Before, Paths, stream
  <1>2. fds' \in 0..FdLimit /\ stored \subseteq created
    BY <1>1 DEF HandlerInv, CreatedOK, TypeOK
  <1>3. CASE /\ stored' = stored \cup {req[w]} /\ created' = created \cup {req[w]}
             /\ GoTo(w, "reply") /\ UNCHANGED <<answers, req, tgt>>
    BY <1>1, <1>2, <1>3, AdvanceStep
  <1>4. CASE /\ \/ stored' = stored \cup {req[w]} /\ created' = created \cup {req[w]}
                \/ UNCHANGED <<stored, created>>
             /\ ReplyAndReturn(w, Bare(503))
    BY <1>1, <1>2, <1>4, ReplyStep, RepliesBare
  <1> QED
    BY <1>3, <1>4 DEF UploadFile

LEMMA ReplyUploadHandler ==
  ASSUME HandlerInv, NEW w \in Workers, ReplyUpload(w)
  PROVE  HandlerInv'
  <1> PICK r : r = req[w]
    OBVIOUS
  <1> DEFINE a == Answer(200, r)
  <1> USE DEF HandlerInv
  <1>1. /\ pc[w] = "reply" /\ pc' = [pc EXCEPT ![w] = "record"]
        /\ answers' = [answers EXCEPT ![r] = Append(@, a)]
        /\ UNCHANGED <<todo, req, tgt, conn, fds, stored, created, out, good, pos, done, restarts>>
    BY DEF ReplyUpload, Send, GoTo, extern, stream
  <1>2. /\ r \in Requests /\ r \notin todo
        /\ \A v \in Workers : req[v] = r => v = w
        /\ answers[r] = <<>> /\ r \in created /\ a \in Replies /\ a.file = r
    BY <1>1, ServingFacts, BareFacts DEF RepliesOK, CreatedOK
  <1> HIDE DEF a
  <1>3. /\ answers' \in [Requests -> Seq(Replies)]
        /\ \A s \in Requests : answers'[s] = IF s = r THEN <<a>> ELSE answers[s]
    BY <1>1, <1>2 DEF TypeOK
  <1>4. /\ pc' \in [Workers -> HandlerPC]
        /\ \A v \in Workers : pc'[v] = IF v = w THEN "record" ELSE pc[v]
    BY <1>1 DEF TypeOK, HandlerPC
  <1>5. TypeOK'
    BY <1>1, <1>3, <1>4 DEF TypeOK
  <1>6. ServiceOK'
    BY <1>1, <1>4 DEF ServiceOK
  <1>7. RepliesOK'
    <2>1. \A s \in todo : answers'[s] = <<>>
      BY <1>2, <1>3 DEF RepliesOK, TypeOK
    <2>2. \A v \in Workers : v # w /\ pc[v] # "idle" =>
            answers'[req[v]] = answers[req[v]]
      BY <1>2, <1>3, ServingFacts
    <2>3. /\ "record" \notin Before \cup {"reply"} /\ "record" \in After
          /\ "idle" \notin Before \cup {"reply"} /\ "idle" \notin After
      BY DEF Before, After, Paths
    <2>4. \A v \in Workers : pc'[v] \in Before \cup {"reply"} => answers'[req[v]] = <<>>
      BY <1>4, <2>2, <2>3 DEF RepliesOK
    <2>5. \A v \in Workers : pc'[v] \in After => answers'[req[v]] = <<Answer(200, req[v])>>
      <3>1. answers'[req[w]] = <<Answer(200, req[w])>>
        BY <1>2, <1>3 DEF a
      <3>2. \A v \in Workers : v # w /\ pc[v] \in After =>
              answers'[req[v]] = <<Answer(200, req[v])>>
        BY <2>2, <2>3 DEF RepliesOK
      <3> QED
        BY <1>4, <3>1, <3>2, Zenon
    <2> QED
      BY <1>1, <2>1, <2>4, <2>5 DEF RepliesOK
  <1>8. CreatedOK'
    BY <1>1, <1>4 DEF CreatedOK, Before, Paths
  <1>9. PosOK'
    BY <1>1 DEF PosOK
  <1>10. OneReply'
    <2>1. answers'[r] = <<a>> /\ Len(<<a>>) = 1 /\ 1 <= 1
      BY <1>2, <1>3
    <2>2. \A s \in Requests : s # r => answers'[s] = answers[s]
      BY <1>3
    <2>3. \A s \in Requests : InService(s)' <=> InService(s)
      BY <1>1 DEF InService
    <2> QED
      BY <1>1, <2>1, <2>2, <2>3, Zenon DEF OneReply
  <1>11. HandedOutWasStored'
    <2>1. \A s \in Requests : s # r => (HandedOut(s)' <=> HandedOut(s))
      BY <1>3 DEF HandedOut
    <2>2. HandedOut(r)'
      BY <1>2, <1>3 DEF HandedOut
    <2> QED
      BY <1>1, <1>2, <2>1, <2>2 DEF HandedOutWasStored
  <1> QED
    BY <1>5, <1>6, <1>7, <1>8, <1>9, <1>10, <1>11

\* Steps between the reply and the return change only the record file.
LEMMA AfterStep ==
  ASSUME HandlerInv, NEW w \in Workers, pc[w] \in After,
         NEW label \in After, GoTo(w, label),
         out' \in Seq(Cells), good' \in BOOLEAN, pos' \in [Workers -> Nat],
         done' \in [Workers -> Nat], PosOK',
         UNCHANGED <<todo, req, tgt, answers, conn, fds, stored, created, restarts>>
  PROVE  HandlerInv'
  <1> USE DEF HandlerInv
  <1>1. /\ pc' \in [Workers -> HandlerPC]
        /\ \A v \in Workers : pc'[v] = IF v = w THEN label ELSE pc[v]
    BY DEF GoTo, TypeOK, HandlerPC, After
  <1>2. TypeOK'
    BY <1>1 DEF TypeOK
  <1>3. pc[w] # "idle" /\ label # "idle" /\ label \notin Before \cup {"reply"}
    BY DEF Before, Paths, After
  <1>4. ServiceOK' /\ RepliesOK' /\ CreatedOK' /\ OneReply'
    <2>1. ServiceOK'
      BY <1>1, <1>3 DEF ServiceOK
    <2>2. RepliesOK'
      BY <1>1, <1>3 DEF RepliesOK
    <2>3. CreatedOK'
      BY <1>1, <1>3 DEF CreatedOK
    <2>4. OneReply'
      BY DEF OneReply, InService
    <2> QED
      BY <2>1, <2>2, <2>3, <2>4
  <1>5. HandedOutWasStored'
    BY DEF HandedOutWasStored, HandedOut
  <1> QED
    BY <1>2, <1>4, <1>5

LEMMA RecordSeekHandler ==
  ASSUME HandlerInv, NEW w \in Workers, RecordSeek(w)
  PROVE  HandlerInv'
  <1>1. /\ GoTo(w, "put") \/ GoTo(w, "putnl")
        /\ pos' = [pos EXCEPT ![w] = Len(out)]
        /\ UNCHANGED <<todo, req, tgt, answers, conn, fds, stored, created, restarts>>
        /\ UNCHANGED <<out, good, done>>
    BY DEF RecordSeek, extern
  <1>2. out' \in Seq(Cells) /\ Len(out) \in Nat
    BY <1>1 DEF HandlerInv, TypeOK
  <1>3. /\ pos' \in [Workers -> Nat] /\ done' \in [Workers -> Nat] /\ good' \in BOOLEAN
        /\ PosOK'
    BY <1>1, <1>2 DEF HandlerInv, TypeOK, PosOK
  <1>4. pc[w] \in After /\ "put" \in After /\ "putnl" \in After
    BY DEF RecordSeek, After
  <1> QED
    BY <1>1, <1>2, <1>3, <1>4, AfterStep

\* A write leaves a stream that is no shorter, and the writer's position may move
\* on behind what it wrote.
LEMMA PutKeeps ==
  ASSUME HandlerInv, NEW w \in Workers, NEW x \in Cells, out' \in Written(w, x)
  PROVE  /\ out' \in Seq(Cells) /\ Len(out) \in Nat /\ Len(out') \in Nat
         /\ Len(out) <= Len(out') /\ pos[w] + 1 <= Len(out')
  <1>0. PICK S, p : S = Cells /\ p = pos[w]
    OBVIOUS
  <1>1. out \in Seq(S) /\ Len(out) \in Nat /\ p \in 0..Len(out)
    BY <1>0 DEF HandlerInv, TypeOK, PosOK
  <1>2. PICK new : new = PutAt(p, x)
    OBVIOUS
  <1>3. new \in Seq(S) /\ Overwrites(new, p, x)
    BY <1>0, <1>1, <1>2, PutAtFacts, Zenon
  <1>4. Len(new) \in Nat /\ Len(out) <= Len(new) /\ p + 1 <= Len(new)
    BY <1>1, <1>3 DEF Overwrites
  <1>5. out' = new \/ out' = new \o <<Stale>>
    BY <1>0, <1>2 DEF Written
  <1>6. Stale \in S
    BY <1>0 DEF Cells
  <1>7. CASE out' = new
    BY <1>0, <1>1, <1>3, <1>4, <1>7
  <1>8. CASE out' = new \o <<Stale>>
    <2>1. <<Stale>> \in Seq(S) /\ Len(<<Stale>>) = 1
      BY <1>6
    <2>2. out' \in Seq(S) /\ Len(out') = Len(new) + 1
      BY <1>3, <1>8, <2>1, ConcatProperties
    <2> QED
      BY <1>0, <1>1, <1>4, <2>2
  <1> QED
    BY <1>5, <1>7, <1>8

LEMMA RecordPutHandler ==
  ASSUME HandlerInv, NEW w \in Workers, RecordPut(w)
  PROVE  HandlerInv'
  <1> DEFINE label == IF done[w] + 1 = Size[req[w]] THEN "endl" ELSE "put"
  <1>1. /\ pc[w] = "put" /\ GoTo(w, label)
        /\ out' \in Written(w, <<req[w], done[w] + 1>>)
        /\ pos' = [pos EXCEPT ![w] = @ + 1] /\ done' = [done EXCEPT ![w] = @ + 1]
        /\ UNCHANGED <<todo, req, tgt, answers, conn, fds, stored, created, good, restarts>>
    BY DEF RecordPut, extern
  <1>2. <<req[w], done[w] + 1>> \in Cells
    BY <1>1, ServingFacts DEF HandlerInv, TypeOK, Cells
  <1>3. /\ out' \in Seq(Cells) /\ Len(out) \in Nat /\ Len(out') \in Nat
        /\ Len(out) <= Len(out') /\ pos[w] + 1 <= Len(out')
    BY <1>1, <1>2, PutKeeps
  <1>4. pos' \in [Workers -> Nat] /\ done' \in [Workers -> Nat] /\ good' \in BOOLEAN
    BY <1>1 DEF HandlerInv, TypeOK
  <1>5. PosOK'
    BY <1>1, <1>3 DEF HandlerInv, TypeOK, PosOK
  <1>6. pc[w] \in After /\ label \in After
    BY <1>1 DEF After
  <1> HIDE DEF label
  <1> QED
    BY <1>1, <1>3, <1>4, <1>5, <1>6, AfterStep

\* A handler that returns behind its reply.
LEMMA ReturnStep ==
  ASSUME HandlerInv, NEW w \in Workers, pc[w] \in After, Done(w),
         out' \in Seq(Cells), Len(out) \in Nat, Len(out') \in Nat, Len(out) <= Len(out'),
         good' \in BOOLEAN, done' = [done EXCEPT ![w] = 0],
         UNCHANGED <<todo, answers, conn, fds, stored, created, pos, restarts>>
  PROVE  HandlerInv'
  <1> PICK r : r = req[w]
    OBVIOUS
  <1> USE DEF HandlerInv
  <1>1. /\ pc' = [pc EXCEPT ![w] = "idle"]
        /\ req' = [req EXCEPT ![w] = NoReq] /\ tgt' = [tgt EXCEPT ![w] = NoFile]
    BY DEF Done, GoTo
  <1>2. PosOK'
    BY DEF PosOK, TypeOK
  <1>3. /\ pc' \in [Workers -> HandlerPC]
        /\ req' \in [Workers -> Requests \cup {NoReq}]
        /\ tgt' \in [Workers -> Requests \cup {NoFile}]
        /\ \A v \in Workers : pc'[v] = IF v = w THEN "idle" ELSE pc[v]
        /\ \A v \in Workers : req'[v] = IF v = w THEN NoReq ELSE req[v]
    BY <1>1 DEF TypeOK, HandlerPC
  <1>4. TypeOK'
    <2>1. done' \in [Workers -> Nat]
      BY DEF TypeOK
    <2> QED
      BY <1>3, <2>1 DEF TypeOK
  <1>5. /\ r \in Requests /\ answers[r] = <<Answer(200, r)>>
        /\ NoReq \notin todo /\ NoReq \notin Requests
    BY ServingFacts, HandlerAssumption DEF RepliesOK, After, TypeOK
  <1>6. ServiceOK'
    BY <1>1, <1>3, <1>5 DEF ServiceOK
  <1>7. "idle" \notin Before \cup {"reply"} /\ "idle" \notin After
    BY DEF Before, After, Paths
  <1>8. RepliesOK' /\ CreatedOK'
    BY <1>1, <1>3, <1>7 DEF RepliesOK, CreatedOK
  <1>9. OneReply'
    <2>1. \A s \in Requests : s # r => (InService(s)' <=> InService(s))
      BY <1>3, <1>5 DEF InService
    <2>2. Len(answers[r]) = 1
      BY <1>5
    <2> QED
      BY <2>1, <2>2, Zenon DEF OneReply
  <1>10. HandedOutWasStored'
    BY DEF HandedOutWasStored, HandedOut
  <1> QED
    BY <1>2, <1>4, <1>6, <1>8, <1>9, <1>10

LEMMA RecordReturnHandler ==
  ASSUME HandlerInv, NEW w \in Workers, RecordSkip(w) \/ RecordEndl(w) \/ RecordFails(w)
  PROVE  HandlerInv'
  <1>1. /\ pc[w] \in After /\ Done(w) /\ done' = [done EXCEPT ![w] = 0]
        /\ UNCHANGED <<todo, answers, conn, fds, stored, created, pos, restarts>>
        /\ good' = good \/ good' = FALSE
        /\ out' = out \/ out' \in Written(w, NL)
    BY DEF RecordSkip, RecordEndl, RecordFails, After, extern
  <1>2. NL \in Cells /\ good' \in BOOLEAN /\ out \in Seq(Cells) /\ Len(out) \in Nat
    <2>1. good' \in BOOLEAN
      BY <1>1, Zenon DEF HandlerInv, TypeOK
    <2> QED
      BY <2>1 DEF Cells, HandlerInv, TypeOK
  <1>3. out' \in Seq(Cells) /\ Len(out') \in Nat /\ Len(out) <= Len(out')
    <2>1. CASE out' = out
      BY <1>2, <2>1
    <2>2. CASE out' \in Written(w, NL)
      BY <1>2, <2>2, PutKeeps
    <2> QED
      BY <1>1, <2>1, <2>2
  <1> QED
    BY <1>1, <1>2, <1>3, ReturnStep

LEMMA deleteHandler ==
  ASSUME HandlerInv, NEW w \in Workers, delete_handler(w)
  PROVE  HandlerInv'
  <1>1. pc[w] \in Before /\ UNCHANGED <<todo, conn, fds, created, out, good, pos, done, restarts>>
    BY DEF delete_handler, Before, Paths, stream
  <1>2. stored' \subseteq created'
    BY <1>1 DEF delete_handler, HandlerInv, CreatedOK
  <1>3. CASE ReplyAndReturn(w, Bare(400))
    BY <1>1, <1>2, <1>3, ReplyStep, RepliesBare
  <1>4. CASE ReplyAndReturn(w, Bare(200))
    BY <1>1, <1>2, <1>4, ReplyStep, RepliesBare
  <1> QED
    BY <1>3, <1>4 DEF delete_handler

LEMMA fileinfoHandler ==
  ASSUME HandlerInv, NEW w \in Workers, fileinfo_handler(w)
  PROVE  HandlerInv'
  <1>1. /\ pc[w] \in Before
        /\ UNCHANGED <<todo, conn, fds, stored, created, out, good, pos, done, restarts>>
    BY DEF fileinfo_handler, Before, Paths, extern, stream
  <1>2. stored' \subseteq created'
    BY <1>1 DEF HandlerInv, CreatedOK
  <1>3. CASE ReplyAndReturn(w, Bare(400))
    BY <1>1, <1>2, <1>3, ReplyStep, RepliesBare
  <1>4. CASE ReplyAndReturn(w, Bare(200))
    BY <1>1, <1>2, <1>4, ReplyStep, RepliesBare
  <1> QED
    BY <1>3, <1>4 DEF fileinfo_handler

LEMMA DropHandler ==
  ASSUME HandlerInv, NEW w \in Workers, Drop(w)
  PROVE  HandlerInv'
  <1> USE DEF HandlerInv, Drop, extern, stream
  <1>1. TypeOK'
    BY DEF TypeOK
  <1>2. ServiceOK' /\ RepliesOK' /\ CreatedOK' /\ PosOK'
    BY DEF ServiceOK, RepliesOK, CreatedOK, PosOK
  <1>3. OneReply' /\ HandedOutWasStored'
    BY DEF OneReply, InService, HandedOutWasStored, HandedOut
  <1> QED
    BY <1>1, <1>2, <1>3

LEMMA RestartHandler == HandlerInv /\ Restart => HandlerInv'
  <1> SUFFICES ASSUME HandlerInv, Restart PROVE HandlerInv'
    OBVIOUS
  <1> USE DEF HandlerInv, extern, stream
  <1>1. restarts \in Nat /\ restarts' = restarts + 1 /\ restarts' \in 0..MaxRestarts
    BY HandlerAssumption DEF Restart, TypeOK
  <1>2. TypeOK'
    <2>1. good' \in BOOLEAN /\ (out' = <<>> \/ out' = out)
      BY Zenon DEF Restart
    <2>2. <<>> \in Seq(Cells)
      OBVIOUS
    <2>3. out' \in Seq(Cells)
      BY <2>1, <2>2 DEF TypeOK
    <2> QED
      BY <1>1, <2>1, <2>3, HandlerAssumption DEF TypeOK, HandlerPC, Restart
  <1>3. NoReq \notin todo
    BY HandlerAssumption DEF TypeOK
  <1>4. ServiceOK'
    BY <1>3 DEF ServiceOK, Restart
  <1>5. RepliesOK' /\ CreatedOK' /\ PosOK'
    BY DEF RepliesOK, CreatedOK, PosOK, Before, After, Paths, Restart
  <1>6. OneReply'
    BY <1>1 DEF OneReply, Restart
  <1>7. HandedOutWasStored'
    BY DEF HandedOutWasStored, HandedOut, Range, Restart
  <1> QED
    BY <1>2, <1>4, <1>5, <1>6, <1>7

LEMMA InitHandler == Init => HandlerInv
  <1> SUFFICES ASSUME Init PROVE HandlerInv
    OBVIOUS
  <1> USE DEF Init
  <1>1. TypeOK
    BY HandlerAssumption DEF TypeOK, HandlerPC
  <1>2. ServiceOK /\ RepliesOK /\ CreatedOK /\ PosOK
    BY HandlerAssumption DEF ServiceOK, RepliesOK, CreatedOK, PosOK, Before, After, Paths
  <1>3. OneReply /\ HandedOutWasStored
    BY DEF OneReply, HandedOutWasStored, HandedOut, Range
  <1> QED
    BY <1>1, <1>2, <1>3 DEF HandlerInv

LEMMA NextHandler == HandlerInv /\ [Next]_vars => HandlerInv'
  <1> SUFFICES ASSUME HandlerInv, [Next]_vars PROVE HandlerInv'
    OBVIOUS
  <1>1. CASE UNCHANGED vars
    BY <1>1 DEF vars, extern, stream, HandlerInv, TypeOK, ServiceOK, RepliesOK, CreatedOK, PosOK,
                OneReply, InService, HandedOutWasStored, HandedOut
  <1>2. ASSUME NEW w \in Workers, HandlerStep(w) PROVE HandlerInv'
    BY <1>2, httpdHandler, QueryStoreHandler, MakeConnectionHandler,
       UploadFileHandler, ReplyUploadHandler, RecordSeekHandler, RecordPutHandler,
       RecordReturnHandler, deleteHandler, fileinfoHandler DEF HandlerStep
  <1>3. ASSUME NEW w \in Workers, Drop(w) PROVE HandlerInv'
    BY <1>3, DropHandler
  <1>4. ASSUME NEW w \in Workers, NEW r \in Requests, Receive(w, r) PROVE HandlerInv'
    BY <1>4, ReceiveHandler
  <1> QED
    BY <1>1, <1>2, <1>3, <1>4, RestartHandler DEF Next

-----------------------------------------------------------------------------
(* What clients are told.                                                  *)

\* Each busy worker answers a request of its own, which has its reply exactly
\* when the handler has come to the record; a file exists only from the upload
\* on that created it.
THEOREM HandlerInvHolds == Spec => []HandlerInv
  BY InitHandler, NextHandler, PTL DEF Spec

\* For any number of event loops, no request gets two replies, and one that is
\* no longer in service has its reply unless the process was restarted
\* (fileCacheProxy.cpp lines 303-453).
THEOREM OneReplyHolds == Spec => []OneReply
  <1>1. HandlerInv => OneReply
    BY DEF HandlerInv
  <1> QED
    BY <1>1, HandlerInvHolds, PTL

\* For any number of event loops, failures and restarts, a FileID that a client was
\* given names a file that FastDFS has stored (lines 335-373).
THEOREM HandedOutWasStoredHolds == Spec => []HandedOutWasStored
  <1>1. HandlerInv => HandedOutWasStored
    BY DEF HandlerInv
  <1> QED
    BY <1>1, HandlerInvHolds, PTL

-----------------------------------------------------------------------------
(* What the record file of a single worker holds.                          *)

\* A line stays where it is when the file only grows.
LEMMA LinesStay ==
  ASSUME Len(out) \in Nat, Len(out') \in Nat, Len(out) <= Len(out'),
         \A n \in 1..Len(out) : out'[n] = out[n],
         NEW r \in Requests, NEW n \in 0..Len(out), LineAt(r, n)
  PROVE  n \in 0..Len(out') /\ LineAt(r, n)'
  <1>1. Size[r] \in Nat
    BY HandlerAssumption
  <1>2. /\ n = 0 \/ out[n] = NL
        /\ n + Size[r] < Len(out) /\ out[n + Size[r] + 1] = NL
        /\ \A h \in 1..Size[r] : out[n + h] = <<r, h>>
    BY DEF LineAt
  <1>3. /\ n = 0 \/ n \in 1..Len(out)
        /\ n + Size[r] + 1 \in 1..Len(out) /\ n + Size[r] < Len(out')
        /\ \A h \in 1..Size[r] : n + h \in 1..Len(out)
    BY <1>1, <1>2
  <1>4. \A h \in 1..Size[r] : out'[n + h] = <<r, h>>
    BY <1>2, <1>3
  <1>5. (n = 0 \/ out'[n] = NL) /\ out'[n + Size[r] + 1] = NL
    BY <1>2, <1>3
  <1> QED
    BY <1>3, <1>4, <1>5 DEF LineAt

\* The only writer writes at the end, and no line is lost.
LEMMA PutAppends ==
  ASSUME HandlerInv, OneWorker, LinesOK, NEW w \in Workers, pc[w] \in {"put", "putnl"},
         NEW x \in Cells, out' \in Written(w, x)
  PROVE  /\ Len(out) \in Nat /\ Len(out') = Len(out) + 1
         /\ DOMAIN out = 1..Len(out) /\ DOMAIN out' = 1..(Len(out) + 1)
         /\ \A n \in 1..Len(out) : out'[n] = out[n]
         /\ out'[Len(out) + 1] = x
         /\ \A r \in Requests, n \in 0..Len(out) :
              LineAt(r, n) => n \in 0..Len(out') /\ LineAt(r, n)'
         /\ \A r \in Requests : OnOwnLine(r) => OnOwnLine(r)'
  <1>0. PICK S, p : S = Cells /\ p = pos[w]
    OBVIOUS
  <1>1. out \in Seq(S) /\ Len(out) \in Nat /\ p = Len(out) /\ p \in 0..Len(out)
    BY <1>0 DEF HandlerInv, TypeOK, LinesOK
  <1>2. out' = PutAt(p, x)
    BY <1>0, Zenon DEF Written, OneWorker
  <1>3. /\ out' \in Seq(S) /\ Len(out') = Len(out) + 1
        /\ \A n \in 1..Len(out') : out'[n] = IF n = Len(out) + 1 THEN x ELSE out[n]
    <2>1. PutAt(p, x) \in Seq(S) /\ Overwrites(PutAt(p, x), p, x)
      BY <1>0, <1>1, PutAtFacts, Zenon
    <2>2. out' \in Seq(S) /\ Overwrites(out', p, x)
      BY <1>2, <2>1, Zenon
    <2> QED
      BY <1>1, <2>2, Zenon DEF Overwrites
  <1>4. DOMAIN out = 1..Len(out) /\ DOMAIN out' = 1..(Len(out) + 1)
    BY <1>1, <1>3
  <1>5. (\A n \in 1..Len(out) : out'[n] = out[n]) /\ out'[Len(out) + 1] = x
    BY <1>1, <1>3
  <1>6. Len(out') \in Nat /\ Len(out) <= Len(out')
    BY <1>1, <1>3
  <1>7. \A r \in Requests, n \in 0..Len(out) :
          LineAt(r, n) => n \in 0..Len(out') /\ LineAt(r, n)'
    BY <1>1, <1>5, <1>6, LinesStay
  <1>8. \A r \in Requests : OnOwnLine(r) => OnOwnLine(r)'
    BY <1>7 DEF OnOwnLine
  <1> QED
    BY <1>1, <1>3, <1>4, <1>5, <1>7, <1>8

\* As long as the file is left alone, so are its lines.
LEMMA WholeStays ==
  ASSUME LinesAreWhole, UNCHANGED out,
         \A r \in Requests : HandedOut(r) => HandedOut(r)'
  PROVE  LinesAreWhole'
  BY DEF LinesAreWhole, LineAt

\* A worker outside the writes of a record leaves complete lines.
LEMMA LinesQuiet ==
  ASSUME HandlerInv, OneWorker, LinesOK, NEW w \in Workers,
         pc[w] \notin Writing, pc'[w] \notin Writing,
         UNCHANGED <<out, good, done>>
  PROVE  LinesOK'
  <1>1. \A v \in Workers : v = w
    BY DEF OneWorker
  <1>2. done[w] = 0
    BY DEF LinesOK
  <1>3. good => Partial(w)'
    <2>1. Len(out) \in Nat /\ Len(out) - done[w] = Len(out) /\ 1..done[w] = {}
      BY <1>2 DEF HandlerInv, TypeOK
    <2> QED
      BY <1>2, <2>1 DEF LinesOK, Partial
  <1>4. /\ "put" \in Writing /\ "endl" \in Writing /\ "putnl" \in Writing
    BY DEF Writing
  <1> QED
    BY <1>1, <1>2, <1>3, <1>4 DEF LinesOK

\* A handler that ends with a reply: a file that it has stored was answered
\* with 503.
LEMMA ReplyRecord ==
  ASSUME HandlerInv, OneWorker, RecordInv, NEW w \in Workers, pc[w] \in Before,
         NEW a \in Replies, a.file # req[w], ReplyAndReturn(w, a),
         stored' \subseteq stored \cup {req[w]},
         req[w] \in stored' => a.code = 503,
         UNCHANGED <<out, good, done, restarts>>
  PROVE  RecordInv'
  <1> PICK r : r = req[w]
    OBVIOUS
  <1>1. /\ r \in Requests /\ NoReq \notin Requests
        /\ answers[r] = <<>> /\ r \notin stored
    BY ServingFacts, HandlerAssumption
    DEF HandlerInv, RepliesOK, CreatedOK, Before, Paths
  <1>2. /\ \A v \in Workers : pc'[v] = IF v = w THEN "idle" ELSE pc[v]
        /\ \A v \in Workers : req'[v] = IF v = w THEN NoReq ELSE req[v]
        /\ \A s \in Requests : answers'[s] = IF s = r THEN <<a>> ELSE answers[s]
    BY ReplyEffect
  <1>3. LinesOK'
    BY <1>2, LinesQuiet DEF RecordInv, Before, Paths, Writing
  <1>4. \A s \in Requests : s # r =>
          /\ InService(s) => InService(s)'
          /\ answers'[s] = answers[s] /\ (HandedOut(s)' <=> HandedOut(s))
    BY <1>1, <1>2 DEF InService, HandedOut
  <1>5. \A s : OnOwnLine(s)' <=> OnOwnLine(s)
    BY DEF OnOwnLine, LineAt
  <1>6. ~HandedOut(r) /\ ~HandedOut(r)'
    BY <1>1, <1>2 DEF HandedOut
  <1>9. LinesAreWhole'
    BY <1>4, <1>6, WholeStays DEF RecordInv
  <1>7. UploadIsRecorded'
    <2> SUFFICES ASSUME NEW s \in Requests, HandedOut(s)', ~InService(s)', restarts = 0, good
                 PROVE  OnOwnLine(s)'
      BY DEF UploadIsRecorded
    <2>1. s # r
      BY <1>6
    <2> QED
      BY <1>4, <1>5, <2>1 DEF RecordInv, UploadIsRecorded
  <1>8. StoredIsAccountedFor'
    <2>1. ASSUME NEW s \in stored', restarts = 0, good, s # r
          PROVE  \/ OnOwnLine(s)' \/ InService(s)'
                 \/ \E n \in DOMAIN answers'[s] : answers'[s][n].code = 503
      <3>1. s \in stored /\ s \in Requests
        BY <2>1 DEF HandlerInv, TypeOK
      <3>2. \/ OnOwnLine(s) \/ InService(s)
            \/ \E n \in DOMAIN answers[s] : answers[s][n].code = 503
        BY <2>1, <3>1 DEF RecordInv, StoredIsAccountedFor
      <3> QED
        BY <1>4, <1>5, <2>1, <3>1, <3>2
    <2>2. r \in stored' => \E n \in DOMAIN answers'[r] : answers'[r][n].code = 503
      BY <1>1, <1>2
    <2>3. restarts' = restarts /\ (good' <=> good) /\ restarts \in Nat
      BY DEF HandlerInv, TypeOK
    <2> QED
      BY <2>1, <2>2, <2>3 DEF StoredIsAccountedFor
  <1> QED
    BY <1>3, <1>7, <1>8, <1>9 DEF RecordInv

\* A handler that goes on without a reply: its file is in service.
LEMMA AdvanceRecord ==
  ASSUME HandlerInv, OneWorker, RecordInv, NEW w \in Workers,
         pc[w] \in Before,
         NEW label \in {"connect", "send", "reply"}, GoTo(w, label),
         stored' \subseteq stored \cup {req[w]},
         UNCHANGED <<req, answers, out, good, done, restarts>>
  PROVE  RecordInv'
  <1>1. pc'[w] = label
    BY DEF GoTo, HandlerInv, TypeOK
  <1>2. LinesOK'
    BY <1>1, LinesQuiet DEF RecordInv, Before, Paths, Writing
  <1>3. \A s : /\ InService(s)' <=> InService(s)
               /\ OnOwnLine(s)' <=> OnOwnLine(s)
               /\ HandedOut(s)' <=> HandedOut(s)
    BY DEF InService, OnOwnLine, LineAt, HandedOut
  <1>4. UploadIsRecorded'
    BY <1>3 DEF RecordInv, UploadIsRecorded
  <1>5. StoredIsAccountedFor'
    <2>1. InService(req[w])
      BY DEF InService
    <2>2. \A s \in stored' : s \in stored \/ InService(s)
      BY <2>1
    <2> QED
      BY <1>3, <2>2 DEF RecordInv, StoredIsAccountedFor
  <1>6. LinesAreWhole'
    BY <1>3, WholeStays DEF RecordInv
  <1> QED
    BY <1>2, <1>4, <1>5, <1>6 DEF RecordInv

LEMMA ReceiveRecord ==
  ASSUME HandlerInv, OneWorker, RecordInv, NEW w \in Workers, NEW r \in Requests,
         Receive(w, r)
  PROVE  RecordInv'
  <1>1. PICK p \in Paths : pc' = [pc EXCEPT ![w] = p]
    BY DEF Receive, GoTo
  <1>2. /\ pc[w] = "idle" /\ req' = [req EXCEPT ![w] = r]
        /\ UNCHANGED <<answers, stored, out, good, done, restarts>>
    BY DEF Receive, extern, stream
  <1>3. pc'[w] = p
    BY <1>1 DEF HandlerInv, TypeOK
  <1>4. LinesOK'
    BY <1>2, <1>3, LinesQuiet DEF RecordInv, Paths, Writing
  <1>5. /\ \A s \in Requests : InService(s) => InService(s)'
        /\ \A s : OnOwnLine(s)' <=> OnOwnLine(s)
        /\ \A s : HandedOut(s)' <=> HandedOut(s)
    <2>1. req[w] \notin Requests
      BY <1>2, HandlerAssumption DEF HandlerInv, ServiceOK
    <2> QED
      BY <1>2, <2>1 DEF InService, OnOwnLine, LineAt, HandedOut, HandlerInv, TypeOK
  <1>6. UploadIsRecorded'
    BY <1>2, <1>5 DEF RecordInv, UploadIsRecorded
  <1>7. StoredIsAccountedFor'
    BY <1>2, <1>5 DEF RecordInv, StoredIsAccountedFor, HandlerInv, TypeOK
  <1>8. LinesAreWhole'
    BY <1>2, <1>5, WholeStays DEF RecordInv
  <1> QED
    BY <1>4, <1>6, <1>7, <1>8 DEF RecordInv

LEMMA ReplyUploadRecord ==
  ASSUME HandlerInv, OneWorker, RecordInv, NEW w \in Workers, ReplyUpload(w)
  PROVE  RecordInv'
  <1> PICK r : r = req[w]
    OBVIOUS
  <1>1. /\ pc[w] = "reply" /\ pc' = [pc EXCEPT ![w] = "record"]
        /\ answers' = [answers EXCEPT ![r] = Append(@, Answer(200, r))]
        /\ UNCHANGED <<req, stored, out, good, done, restarts>>
    BY DEF ReplyUpload, Send, GoTo, extern, stream
  <1>2. pc'[w] = "record"
    BY <1>1 DEF HandlerInv, TypeOK
  <1>3. LinesOK'
    BY <1>1, <1>2, LinesQuiet DEF RecordInv, Writing
  <1>4. InService(r)
    BY DEF InService
  <1>5. /\ \A s : InService(s)' <=> InService(s)
        /\ \A s : OnOwnLine(s)' <=> OnOwnLine(s)
        /\ \A s \in Requests : s # r =>
             answers'[s] = answers[s] /\ (HandedOut(s)' <=> HandedOut(s))
    BY <1>1 DEF InService, OnOwnLine, LineAt, HandedOut, HandlerInv, TypeOK
  <1>6. UploadIsRecorded'
    BY <1>1, <1>4, <1>5 DEF RecordInv, UploadIsRecorded
  <1>7. StoredIsAccountedFor'
    BY <1>1, <1>4, <1>5 DEF RecordInv, StoredIsAccountedFor, HandlerInv, TypeOK
  <1>8. LinesAreWhole'
    <2>1. ~HandedOut(r) /\ r \in Requests
      <3>1. answers[r] = <<>> /\ r \in Requests
        BY <1>1, ServingFacts DEF HandlerInv, RepliesOK
      <3> QED
        BY <3>1 DEF HandedOut
    <2> QED
      BY <1>1, <1>5, <2>1, WholeStays DEF RecordInv
  <1> QED
    BY <1>3, <1>6, <1>7, <1>8 DEF RecordInv

LEMMA RecordSeekRecord ==
  ASSUME HandlerInv, OneWorker, RecordInv, NEW w \in Workers, RecordSeek(w)
  PROVE  RecordInv'
  <1>1. /\ \/ pc[w] = "record" /\ pc' = [pc EXCEPT ![w] = "put"]
           \/ pc[w] = "endl" /\ pc' = [pc EXCEPT ![w] = "putnl"]
        /\ good /\ pos' = [pos EXCEPT ![w] = Len(out)]
        /\ UNCHANGED <<req, answers, stored, out, good, done, restarts>>
    BY DEF RecordSeek, GoTo, extern
  <1>2. /\ \/ pc[w] = "record" /\ pc'[w] = "put"
           \/ pc[w] = "endl" /\ pc'[w] = "putnl"
        /\ pos'[w] = Len(out)
    BY <1>1 DEF HandlerInv, TypeOK
  <1>3. LinesOK'
    <2>1. pc[w] = "record" => done[w] < Size[req[w]]
      <3>1. pc[w] = "record" => done[w] = 0 /\ req[w] \in Requests
        BY ServingFacts DEF RecordInv, LinesOK, Writing
      <3> QED
        BY <3>1, HandlerAssumption
    <2>2. good' => \A v \in Workers : Partial(v)'
      BY <1>1 DEF RecordInv, LinesOK, Partial
    <2>3. \A v \in Workers : v = w
      BY DEF OneWorker
    <2> QED
      BY <1>1, <1>2, <2>1, <2>2, <2>3 DEF RecordInv, LinesOK, Writing
  <1>4. \A s : /\ InService(s)' <=> InService(s)
               /\ OnOwnLine(s)' <=> OnOwnLine(s)
               /\ HandedOut(s)' <=> HandedOut(s)
    BY <1>1 DEF InService, OnOwnLine, LineAt, HandedOut
  <1>5. UploadIsRecorded' /\ StoredIsAccountedFor'
    BY <1>1, <1>4 DEF RecordInv, UploadIsRecorded, StoredIsAccountedFor
  <1>6. LinesAreWhole'
    BY <1>1, <1>4, WholeStays DEF RecordInv
  <1> QED
    BY <1>3, <1>5, <1>6 DEF RecordInv

LEMMA RecordPutRecord ==
  ASSUME HandlerInv, OneWorker, RecordInv, NEW w \in Workers, RecordPut(w)
  PROVE  RecordInv'
  <1> DEFINE L == Len(out)
             x == <<req[w], done[w] + 1>>
             label == IF done[w] + 1 = Size[req[w]] THEN "endl" ELSE "put"
  <1>1. /\ pc[w] = "put" /\ pc' = [pc EXCEPT ![w] = label]
        /\ out' \in Written(w, x)
        /\ pos' = [pos EXCEPT ![w] = @ + 1] /\ done' = [done EXCEPT ![w] = @ + 1]
        /\ UNCHANGED <<req, answers, stored, good, restarts>>
    BY DEF RecordPut, GoTo, extern
  <1>2. /\ req[w] \in Requests /\ Size[req[w]] \in Nat
        /\ pc'[w] = label /\ pos'[w] = pos[w] + 1 /\ done'[w] = done[w] + 1
        /\ done[w] \in Nat /\ done[w] < Size[req[w]] /\ good /\ pos[w] = L
    BY <1>1, ServingFacts, HandlerAssumption
    DEF HandlerInv, TypeOK, RecordInv, LinesOK, Writing
  <1>3. x \in Cells /\ x # NL
    BY <1>2, HandlerAssumption DEF Cells
  <1>4. /\ L \in Nat /\ Len(out') = L + 1 /\ DOMAIN out = 1..L /\ DOMAIN out' = 1..(L + 1)
        /\ \A n \in 1..L : out'[n] = out[n]
        /\ out'[L + 1] = x
        /\ \A r \in Requests, n \in 0..L : LineAt(r, n) => n \in 0..(L + 1) /\ LineAt(r, n)'
        /\ \A r \in Requests : OnOwnLine(r) => OnOwnLine(r)'
    <2>1. pc[w] \in {"put", "putnl"} /\ LinesOK
      BY <1>1 DEF RecordInv
    <2> HIDE DEF x
    <2>2. /\ L \in Nat /\ Len(out') = L + 1 /\ DOMAIN out = 1..L /\ DOMAIN out' = 1..(L + 1)
          /\ \A n \in 1..L : out'[n] = out[n]
          /\ out'[L + 1] = x
          /\ \A r \in Requests, n \in 0..L :
               LineAt(r, n) => n \in 0..Len(out') /\ LineAt(r, n)'
          /\ \A r \in Requests : OnOwnLine(r) => OnOwnLine(r)'
      BY <1>1, <1>3, <2>1, PutAppends
    <2> QED
      BY <2>2
  <1> HIDE DEF L
  <1>5. Partial(w)'
    <2>1. /\ done[w] <= L
          /\ L - done[w] = 0 \/ out[L - done[w]] = NL
          /\ \A h \in 1..done[w] : out[(L - done[w]) + h] = <<req[w], h>>
      BY <1>2 DEF RecordInv, LinesOK, Partial, L
    <2>2. (L + 1) - (done[w] + 1) = L - done[w] /\ done[w] + 1 <= L + 1
      BY <1>2, <1>4, <2>1
    <2>3. L - done[w] = 0 \/ L - done[w] \in 1..L
      BY <1>2, <1>4, <2>1
    <2>4. ASSUME NEW h \in 1..(done[w] + 1)
          PROVE  out'[(L - done[w]) + h] = <<req[w], h>>
      <3>1. CASE h = done[w] + 1
        <4>1. (L - done[w]) + h = L + 1
          BY <1>2, <1>4, <2>1, <3>1
        <4> QED
          BY <1>4, <3>1, <4>1
      <3>2. CASE h # done[w] + 1
        <4>1. h \in 1..done[w] /\ (L - done[w]) + h \in 1..L
          BY <1>2, <1>4, <2>1, <3>2
        <4> QED
          BY <1>4, <2>1, <4>1
      <3> QED
        BY <3>1, <3>2
    <2>5. L - done[w] = 0 \/ out'[L - done[w]] = NL
      BY <1>4, <2>1, <2>3
    <2>6. Len(out') - done'[w] = L - done[w]
      BY <1>2, <1>4, <2>2
    <2>7. req'[w] = req[w]
      BY <1>1
    <2> QED
      BY <1>2, <1>4, <2>2, <2>4, <2>5, <2>6, <2>7 DEF Partial
  <1>6. LinesOK'
    <2>1. \A v \in Workers : v = w
      BY DEF OneWorker
    <2>2. done[w] + 1 # Size[req[w]] => done[w] + 1 < Size[req[w]]
      BY <1>2
    <2>3. pos'[w] = Len(out')
      BY <1>2, <1>4 DEF L
    <2> QED
      BY <1>1, <1>2, <1>5, <2>1, <2>2, <2>3 DEF LinesOK, Writing
  <1>7. \A s : (InService(s)' <=> InService(s)) /\ (HandedOut(s)' <=> HandedOut(s))
    BY <1>1 DEF InService, HandedOut
  <1>8. UploadIsRecorded' /\ StoredIsAccountedFor'
    <2>1. stored \subseteq Requests
      BY DEF HandlerInv, TypeOK
    <2> QED
      BY <1>1, <1>4, <1>7, <2>1 DEF RecordInv, UploadIsRecorded, StoredIsAccountedFor
  <1>9. LinesAreWhole'
    <2> SUFFICES ASSUME NEW m \in 1..(L + 1), out'[m] = NL
                 PROVE  \E r \in Requests, n \in 0..(L + 1) :
                          HandedOut(r)' /\ m = n + Size[r] + 1 /\ LineAt(r, n)'
      BY <1>4 DEF LinesAreWhole
    <2>1. m \in 1..L /\ out[m] = NL
      BY <1>3, <1>4
    <2>2. PICK r \in Requests, n \in 0..L :
            HandedOut(r) /\ m = n + Size[r] + 1 /\ LineAt(r, n)
      BY <1>4, <2>1 DEF RecordInv, LinesAreWhole, L
    <2> QED
      BY <1>4, <1>7, <2>2
  <1> QED
    BY <1>6, <1>8, <1>9 DEF RecordInv

\* The end of the line completes the record of the request.
LEMMA RecordEndlRecord ==
  ASSUME HandlerInv, OneWorker, RecordInv, NEW w \in Workers, RecordEndl(w)
  PROVE  RecordInv'
  <1> PICK r : r = req[w]
    OBVIOUS
  <1> PICK L : L = Len(out)
    OBVIOUS
  <1> PICK b : b = L - Size[r]
    OBVIOUS
  <1>1. /\ pc[w] = "putnl" /\ pc' = [pc EXCEPT ![w] = "idle"]
        /\ req' = [req EXCEPT ![w] = NoReq]
        /\ out' \in Written(w, NL) /\ done' = [done EXCEPT ![w] = 0]
        /\ UNCHANGED <<answers, stored, good, pos, restarts>>
    BY DEF RecordEndl, Done, GoTo, extern
  <1>2. /\ r \in Requests /\ Size[r] \in Nat /\ pc'[w] = "idle" /\ done'[w] = 0
        /\ NoReq \notin Requests /\ good /\ done[w] = Size[r]
    BY <1>1, ServingFacts, HandlerAssumption
    DEF HandlerInv, TypeOK, RecordInv, LinesOK, Writing
  <1>3. /\ L \in Nat /\ Len(out') = L + 1 /\ DOMAIN out = 1..L /\ DOMAIN out' = 1..(L + 1)
        /\ \A n \in 1..L : out'[n] = out[n]
        /\ out'[L + 1] = NL
        /\ \A s \in Requests, n \in 0..L : LineAt(s, n) => n \in 0..Len(out') /\ LineAt(s, n)'
        /\ \A s \in Requests : OnOwnLine(s) => OnOwnLine(s)'
    <2>1. NL \in Cells /\ pc[w] \in {"put", "putnl"} /\ LinesOK
      BY <1>1 DEF RecordInv, Cells
    <2> QED
      BY <1>1, <2>1, PutAppends
  <1>4. HandedOut(r)
    <2>1. answers[r] = <<Answer(200, r)>>
      BY <1>1 DEF HandlerInv, RepliesOK, After
    <2> QED
      BY <1>2, <2>1, BareFacts DEF HandedOut
  <1>5. /\ b = 0 \/ out[b] = NL
        /\ \A h \in 1..Size[r] : out[b + h] = <<r, h>>
    BY <1>2 DEF RecordInv, LinesOK, Partial
  <1>6. Size[r] <= L
    BY <1>2 DEF RecordInv, LinesOK, Partial
  <1>7. b \in 0..(L + 1) /\ L + 1 = b + Size[r] + 1 /\ LineAt(r, b)'
    <2>1. b \in 0..L /\ b + Size[r] = L /\ b + Size[r] < L + 1
      BY <1>2, <1>3, <1>6
    <2>2. \A h \in 1..Size[r] : b + h \in 1..L
      BY <1>2, <1>3, <1>6
    <2>3. \A h \in 1..Size[r] : out'[b + h] = <<r, h>>
      BY <1>3, <1>5, <2>2
    <2>4. b = 0 \/ b \in 1..L
      BY <2>1, <1>3
    <2>5. b = 0 \/ out'[b] = NL
      BY <1>3, <1>5, <2>4
    <2>6. b + Size[r] < Len(out') /\ out'[b + Size[r] + 1] = NL
      BY <1>3, <2>1
    <2>7. LineAt(r, b)'
      BY <2>3, <2>5, <2>6 DEF LineAt
    <2> QED
      BY <1>2, <1>3, <2>1, <2>7
  <1>8. OnOwnLine(r)'
    BY <1>3, <1>7 DEF OnOwnLine
  <1>9. LinesOK'
    <2>1. Partial(w)'
      <3>1. Len(out') - done'[w] = L + 1 /\ done'[w] <= Len(out') /\ 1..done'[w] = {}
        BY <1>2, <1>3
      <3> QED
        BY <1>3, <3>1 DEF Partial
    <2>2. \A v \in Workers : v = w
      BY DEF OneWorker
    <2> QED
      BY <1>2, <2>1, <2>2 DEF LinesOK, Writing
  <1>10. /\ \A s \in Requests : s # r => (InService(s) => InService(s)')
         /\ \A s : HandedOut(s)' <=> HandedOut(s)
    BY <1>1, <1>2 DEF InService, HandedOut, HandlerInv, TypeOK
  <1>11. UploadIsRecorded' /\ StoredIsAccountedFor'
    <2>1. UploadIsRecorded'
      BY <1>1, <1>3, <1>8, <1>10 DEF RecordInv, UploadIsRecorded
    <2>2. stored \subseteq Requests
      BY DEF HandlerInv, TypeOK
    <2>3. StoredIsAccountedFor'
      BY <1>1, <1>3, <1>8, <1>10, <2>2 DEF RecordInv, StoredIsAccountedFor
    <2> QED
      BY <2>1, <2>3
  <1>12. LinesAreWhole'
    <2> SUFFICES ASSUME NEW m \in 1..(L + 1), out'[m] = NL
                 PROVE  \E s \in Requests, n \in 0..Len(out') :
                          HandedOut(s)' /\ m = n + Size[s] + 1 /\ LineAt(s, n)'
      BY <1>3 DEF LinesAreWhole
    <2>1. CASE m = L + 1
      BY <1>2, <1>3, <1>4, <1>7, <1>10, <2>1
    <2>2. CASE m # L + 1
      <3>1. m \in 1..L /\ out[m] = NL
        BY <1>3, <2>2
      <3>2. PICK s \in Requests, n \in 0..L :
              HandedOut(s) /\ m = n + Size[s] + 1 /\ LineAt(s, n)
        BY <1>3, <3>1 DEF RecordInv, LinesAreWhole
      <3> QED
        BY <1>3, <1>10, <3>2
    <2> QED
      BY <2>1, <2>2
  <1> QED
    BY <1>9, <1>11, <1>12 DEF RecordInv

\* A stream that has failed, or fails now, keeps the lines it has.
LEMMA RecordGivesUp ==
  ASSUME HandlerInv, OneWorker, RecordInv, NEW w \in Workers,
         RecordSkip(w) \/ RecordFails(w)
  PROVE  RecordInv'
  <1>1. /\ good' = FALSE /\ pc' = [pc EXCEPT ![w] = "idle"]
        /\ done' = [done EXCEPT ![w] = 0] /\ UNCHANGED <<answers, out>>
    BY DEF RecordSkip, RecordFails, Done, GoTo, HandlerInv, TypeOK
  <1>2. pc'[w] = "idle" /\ done'[w] = 0
    BY <1>1 DEF HandlerInv, TypeOK
  <1>3. LinesOK'
    BY <1>1, <1>2 DEF LinesOK, OneWorker, Writing
  <1>4. LinesAreWhole'
    BY <1>1, WholeStays DEF RecordInv, HandedOut
  <1> QED
    BY <1>1, <1>3, <1>4 DEF RecordInv, UploadIsRecorded, StoredIsAccountedFor

\* The remaining steps of a handler end with a reply or go on.
LEMMA PlainRecord ==
  ASSUME HandlerInv, OneWorker, RecordInv, NEW w \in Workers,
         \/ httpd_handler(w) \/ UploadNoBody(w) \/ QueryStore(w)
         \/ MakeConnection(w) \/ UploadFile(w)
         \/ delete_handler(w) \/ fileinfo_handler(w)
  PROVE  RecordInv'
  <1>1. pc[w] \in Before /\ UNCHANGED <<out, good, done, restarts>>
    BY DEF httpd_handler, UploadNoBody, QueryStore, MakeConnection, UploadFile,
           delete_handler, fileinfo_handler, Before, Paths, stream
  <1>2. req[w] \notin stored /\ stored \subseteq stored \cup {req[w]}
    BY <1>1 DEF HandlerInv, CreatedOK
  <1>3. ASSUME NEW c \in {200, 400, 503}, ReplyAndReturn(w, Bare(c)), stored' \subseteq stored
        PROVE  RecordInv'
    <2>1. Bare(c) \in Replies /\ Bare(c).file # req[w]
      BY <1>1, RepliesBare
    <2> QED
      BY <1>1, <1>2, <1>3, <2>1, ReplyRecord
  <1>5. CASE httpd_handler(w) \/ UploadNoBody(w)
    BY <1>3, <1>5 DEF httpd_handler, UploadNoBody, extern, stream
  <1>6. CASE QueryStore(w)
    <2>1. stored' = stored
      BY <1>6 DEF QueryStore, extern, stream
    <2>2. CASE GoTo(w, "connect") /\ UNCHANGED <<answers, req, tgt>>
      BY <1>1, <1>2, <2>1, <2>2, AdvanceRecord
    <2> QED
      BY <1>3, <1>6, <2>1, <2>2 DEF QueryStore
  <1>7. CASE MakeConnection(w)
    <2>1. stored' = stored
      BY <1>7 DEF MakeConnection, extern, stream
    <2>2. CASE GoTo(w, "send") /\ UNCHANGED <<answers, req, tgt>>
      BY <1>1, <1>2, <2>1, <2>2, AdvanceRecord
    <2> QED
      BY <1>3, <1>7, <2>1, <2>2 DEF MakeConnection
  <1>8. CASE UploadFile(w)
    <2>1. CASE stored' = stored \cup {req[w]} /\ GoTo(w, "reply")
               /\ UNCHANGED <<answers, req, tgt>>
      BY <1>1, <2>1, AdvanceRecord
    <2>2. CASE stored' \in {stored, stored \cup {req[w]}} /\ ReplyAndReturn(w, Bare(503))
      <3>1. Bare(503) \in Replies /\ Bare(503).file # req[w] /\ Bare(503).code = 503
        BY <1>1, RepliesBare, BareFacts
      <3> QED
        BY <1>1, <2>2, <3>1, ReplyRecord
    <2> QED
      BY <1>8, <2>1, <2>2 DEF UploadFile
  <1>9. CASE delete_handler(w)
    <2>1. stored' \subseteq stored
      BY <1>9 DEF delete_handler
    <2> QED
      BY <1>3, <1>9, <2>1 DEF delete_handler
  <1>10. CASE fileinfo_handler(w)
    <2>1. stored' = stored
      BY <1>10 DEF fileinfo_handler, extern, stream
    <2> QED
      BY <1>3, <1>10, <2>1 DEF fileinfo_handler
  <1> QED
    BY <1>5, <1>6, <1>7, <1>8, <1>9, <1>10

LEMMA RestartRecord ==
  ASSUME HandlerInv, RecordInv, Restart
  PROVE  RecordInv'
  <1>1. restarts' > 0 /\ restarts' # 0
    BY DEF Restart, HandlerInv, TypeOK
  <1>2. /\ good' => out' = <<>>
        /\ out' = <<>> \/ out' = out
        /\ answers' = answers
        /\ \A w \in Workers : pc'[w] = "idle" /\ done'[w] = 0
    BY DEF Restart
  <1>3. LinesOK'
    <2>1. good' => \A w \in Workers : Partial(w)'
      BY <1>2 DEF Partial
    <2> QED
      BY <1>2, <2>1 DEF LinesOK, Writing
  <1>4. LinesAreWhole'
    <2>1. CASE out' = <<>>
      BY <2>1 DEF LinesAreWhole
    <2>2. CASE out' = out
      BY <1>2, <2>2, WholeStays DEF RecordInv, HandedOut
    <2> QED
      BY <1>2, <2>1, <2>2
  <1> QED
    BY <1>1, <1>3, <1>4 DEF RecordInv, StoredIsAccountedFor, UploadIsRecorded

LEMMA UnchangedRecord ==
  ASSUME RecordInv,
         UNCHANGED <<pc, req, answers, stored, out, good, pos, done, restarts>>
  PROVE  RecordInv'
  <1>1. LinesOK'
    BY DEF RecordInv, LinesOK, Partial
  <1>2. LinesAreWhole'
    BY WholeStays DEF RecordInv, HandedOut
  <1>3. /\ \A r : OnOwnLine(r)' <=> OnOwnLine(r)
        /\ \A r : HandedOut(r)' <=> HandedOut(r)
        /\ \A r : InService(r)' <=> InService(r)
    BY DEF OnOwnLine, LineAt, HandedOut, InService
  <1> QED
    BY <1>1, <1>2, <1>3 DEF RecordInv, StoredIsAccountedFor, UploadIsRecorded

LEMMA InitRecord == Init => RecordInv
  <1> SUFFICES ASSUME Init PROVE RecordInv
    OBVIOUS
  <1>1. LinesOK /\ LinesAreWhole
    BY DEF Init, LinesOK, Partial, Writing, LinesAreWhole
  <1>2. StoredIsAccountedFor /\ UploadIsRecorded
    BY DEF Init, StoredIsAccountedFor, UploadIsRecorded, HandedOut
  <1> QED
    BY <1>1, <1>2 DEF RecordInv

LEMMA NextRecord ==
  ASSUME OneWorker, HandlerInv, RecordInv, [Next]_vars
  PROVE  RecordInv'
  <1>1. CASE UNCHANGED vars
    BY <1>1, UnchangedRecord DEF vars, extern, stream
  <1>2. ASSUME NEW w \in Workers, HandlerStep(w) PROVE RecordInv'
    BY <1>2, PlainRecord, ReplyUploadRecord, RecordSeekRecord, RecordPutRecord,
       RecordEndlRecord, RecordGivesUp DEF HandlerStep
  <1>3. ASSUME NEW w \in Workers, Drop(w) PROVE RecordInv'
    BY <1>3, UnchangedRecord DEF Drop, extern, stream
  <1>4. ASSUME NEW w \in Workers, NEW r \in Requests, Receive(w, r) PROVE RecordInv'
    BY <1>4, ReceiveRecord
  <1> QED
    BY <1>1, <1>2, <1>3, <1>4, RestartRecord DEF Next

\* Every step of a single worker leaves the record file alone or extends it.
LEMMA NextKeepsLines ==
  ASSUME HandlerInv, OneWorker, RecordInv, Next, NEW r \in Requests, OnOwnLine(r)
  PROVE  OnOwnLine(r)' \/ restarts' # restarts
  <1>1. CASE UNCHANGED out
    BY <1>1 DEF OnOwnLine, LineAt
  <1>2. CASE Restart
    BY <1>2 DEF Restart, HandlerInv, TypeOK
  <1>3. ASSUME NEW w \in Workers, RecordPut(w) PROVE OnOwnLine(r)'
    <2>1. PICK x : x = <<req[w], done[w] + 1>>
      OBVIOUS
    <2>2. pc[w] \in {"put", "putnl"} /\ pc[w] # "idle" /\ out' \in Written(w, x) /\ LinesOK
      BY <1>3, <2>1 DEF RecordPut, RecordInv
    <2>3. x \in Cells
      BY <2>1, <2>2, ServingFacts DEF HandlerInv, TypeOK, Cells
    <2> QED
      BY <2>2, <2>3, PutAppends
  <1>4. ASSUME NEW w \in Workers, RecordEndl(w) PROVE OnOwnLine(r)'
    BY <1>4, PutAppends DEF RecordEndl, RecordInv, Cells
  <1>5. ASSUME NEW w \in Workers, HandlerStep(w) PROVE OnOwnLine(r)' \/ UNCHANGED out
    BY <1>3, <1>4, <1>5
    DEF HandlerStep, httpd_handler, UploadNoBody, QueryStore, MakeConnection,
        UploadFile, ReplyUpload, RecordSeek, RecordSkip, RecordFails, delete_handler,
        fileinfo_handler, stream
  <1>6. ASSUME NEW w \in Workers,
               Drop(w) \/ \E s \in Requests : Receive(w, s)
        PROVE  UNCHANGED out
    BY <1>6 DEF Drop, Receive, stream
  <1> QED
    BY <1>1, <1>2, <1>5, <1>6 DEF Next

\* With a single event loop the record file consists of lines with one FileID
\* each and, at its end, what was written of a line that is not complete.
THEOREM RecordInvHolds ==
  ASSUME OneWorker
  PROVE  Spec => [](HandlerInv /\ RecordInv)
  <1>1. HandlerInv /\ RecordInv /\ [Next]_vars => (HandlerInv /\ RecordInv)'
    BY NextHandler, NextRecord
  <1> QED
    BY <1>1, InitHandler, InitRecord, PTL DEF Spec

\* With a single event loop no stored file gets lost track of while the process
\* lives and the stream is good: it is recorded, in service or was answered with
\* 503 (lines 349-377).
THEOREM StoredIsAccountedForHolds ==
  ASSUME OneWorker
  PROVE  Spec => []StoredIsAccountedFor
  <1>1. HandlerInv /\ RecordInv => StoredIsAccountedFor
    BY DEF RecordInv
  <1> QED
    BY <1>1, RecordInvHolds, PTL

\* With a single event loop, and until a write to the record stream fails, every
\* FileID that was handed out is on a line of its own when the handler is done
\* (lines 376-377).
THEOREM UploadIsRecordedHolds ==
  ASSUME OneWorker
  PROVE  Spec => []UploadIsRecorded
  <1>1. HandlerInv /\ RecordInv => UploadIsRecorded
    BY DEF RecordInv
  <1> QED
    BY <1>1, RecordInvHolds, PTL

\* With a single event loop every line that has its end is one FileID, complete,
\* that a client was given, also when writes fail half way (lines 376-377).
THEOREM LinesAreWholeHolds ==
  ASSUME OneWorker
  PROVE  Spec => []LinesAreWhole
  <1>1. HandlerInv /\ RecordInv => LinesAreWhole
    BY DEF RecordInv
  <1> QED
    BY <1>1, RecordInvHolds, PTL

\* With a single event loop a recorded FileID stays recorded until the process
\* is restarted, also when the stream fails (lines 89 and 377).
THEOREM RecordsLostByRestartOnlyHolds ==
  ASSUME OneWorker
  PROVE  Spec => RecordsLostByRestartOnly
  <1>1. HandlerInv /\ RecordInv /\ [Next]_vars =>
          [\A r \in Requests :
             OnOwnLine(r) => (OnOwnLine(r)' \/ restarts' # restarts)]_vars
    BY NextKeepsLines
  <1> QED
    BY <1>1, RecordInvHolds, PTL DEF Spec, RecordsLostByRestartOnly
=============================================================================
