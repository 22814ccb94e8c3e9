------------------------ MODULE RecordCleanerProofs -------------------------
(***************************************************************************)
(* Theorems about RecordCleaner, for any number of overlapping runs, any   *)
(* record files and any values of expiredays.                              *)
(***************************************************************************)
EXTENDS RecordCleaner, TLAPS, WellFoundedInduction

\* A run has a file exactly while it works on it; what it has still to do had
\* expired, by the days it read, when it was listed and has been recorded.
Expired(f, d) == f \in Records /\ Date[f] + AgeLimit(d) <= now /\ place[f] # "none"

HasFile ==
  \A r \in Runs :
    /\ cur[r] # NoFile <=> pc[r] \in {"program", "hung", "delete", "move"}
    /\ cur[r] # NoFile => Expired(cur[r], days[r])
    /\ \A f \in todo[r] : Expired(f, days[r])
    /\ pc[r] = "idle" => todo[r] = {}

\* The lines that a run has read are tried, and it comes to the mv only with
\* a file that has been read to its end, that a program did not get through or
\* that another run has moved.
ReadSoFar ==
  \A r \in Runs : cur[r] # NoFile =>
    /\ \A j \in 1..k[r] : Content[cur[r]][j] \in tried
    /\ pc[r] = "move" => \/ cur[r] \in cut
                         \/ place[cur[r]] = "result"
                         \/ k[r] = Len(Content[cur[r]])

CleanerInv == TypeOK /\ HasFile /\ ReadSoFar /\ MovedWasTried

-----------------------------------------------------------------------------
(* The model's operators.                                                  *)

\* A non-empty set of dates has a first one.
LEMMA FirstDate ==
  ASSUME NEW T \in SUBSET Nat, T # {}
  PROVE  \E m \in T : \A n \in T : m <= n
  <1> DEFINE Before == {p \in Nat \X Nat : p[1] < p[2]}
  <1>1. IsWellFoundedOn(Before, Nat)
    BY NatLessThanWellFounded, Zenon DEF OpToRel
  <1>2. PICK x \in T : \A y \in T : ~ (<<y, x>> \in Before)
    <2> HIDE DEF Before
    <2> QED
      BY <1>1, WFMin, Zenon
  <1>3. \A y \in T : y < x => <<y, x>> \in Before
    OBVIOUS
  <1>4. \A y \in T : ~ (y < x)
    <2> HIDE DEF Before
    <2> QED
      BY <1>2, <1>3, Zenon
  <1> QED
    BY <1>4

\* The limit is a number of days.
LEMMA AgeNat == \A d \in Days \cup {NoDays} : AgeLimit(d) \in Nat
  BY CleanerAssumption DEF AgeLimit

LEMMA ContentFacts ==
  ASSUME NEW f \in Files
  PROVE  /\ Len(Content[f]) \in Nat
         /\ DOMAIN Content[f] = 1..Len(Content[f])
         /\ \A j \in 1..Len(Content[f]) : Content[f][j] \in Ids
  <1>1. Content[f] \in Seq(Ids)
    BY CleanerAssumption
  <1> QED
    BY <1>1

\* The choice that NextFile makes is one of the files to do.
LEMMA ChoiceIsToDo ==
  ASSUME NEW T \in SUBSET Records, T # {}
  PROVE  (CHOOSE f \in T : \A g \in T : Date[f] <= Date[g]) \in T
  <1> DEFINE Dates == {Date[f] : f \in T}
  <1>1. Dates \in SUBSET Nat /\ Dates # {}
    BY CleanerAssumption
  <1>2. \E m \in Dates : \A n \in Dates : m <= n
    <2> HIDE DEF Dates
    <2> QED
      BY <1>1, FirstDate
  <1>3. \E f \in T : \A g \in T : Date[f] <= Date[g]
    BY <1>2, Zenon
  <1> QED
    BY <1>3

-----------------------------------------------------------------------------
(* The invariant.                                                          *)

LEMMA InitCleaner == Init => CleanerInv
  <1> SUFFICES ASSUME Init PROVE CleanerInv
    OBVIOUS
  <1> USE DEF Init
  <1>1. stored \subseteq Ids
    BY CleanerAssumption DEF Ids, Files
  <1>2. TypeOK
    BY CleanerAssumption, <1>1 DEF TypeOK
  <1>3. HasFile /\ ReadSoFar
    BY DEF HasFile, ReadSoFar
  <1>4. MovedWasTried
    BY CleanerAssumption DEF MovedWasTried, Files
  <1> QED
    BY <1>2, <1>3, <1>4 DEF CleanerInv

LEMMA TickCleaner == CleanerInv /\ Tick => CleanerInv'
  <1> SUFFICES ASSUME CleanerInv, Tick PROVE CleanerInv'
    OBVIOUS
  <1> USE DEF Tick, CleanerInv
  <1>1. now \in Nat /\ now' = now + 1 /\ now' \in 0..MaxDay
    BY CleanerAssumption DEF TypeOK
  <1>2. \A f \in Records, r \in Runs :
          Date[f] + AgeLimit(days[r]) <= now => Date[f] + AgeLimit(days[r]) <= now'
    <2> TAKE f \in Records, r \in Runs
    <2>1. AgeLimit(days[r]) \in Nat /\ Date[f] \in Nat
      BY AgeNat, CleanerAssumption DEF TypeOK
    <2> QED
      BY <1>1, <2>1
  <1>3. TypeOK'
    BY <1>1 DEF TypeOK, run
  <1>4. HasFile'
    BY <1>2 DEF HasFile, Expired, run
  <1>5. ReadSoFar' /\ MovedWasTried'
    BY DEF ReadSoFar, MovedWasTried, run
  <1> QED
    BY <1>3, <1>4, <1>5

LEMMA RecordCleaned ==
  ASSUME CleanerInv, NEW f \in Records, Record(f)
  PROVE  CleanerInv'
  <1> USE DEF Record, CleanerInv, run
  <1>1. f \in Files /\ f # ProcessLog
    BY CleanerAssumption DEF Files
  <1>2. TypeOK'
    <2>1. {Content[f][j] : j \in DOMAIN Content[f]} \subseteq Ids
      BY <1>1 DEF Ids
    <2>2. stored' \subseteq Ids
      BY <2>1 DEF TypeOK
    <2>3. place' \in [Files -> {"none", "records", "result"}]
      BY DEF TypeOK
    <2> QED
      BY <2>2, <2>3 DEF TypeOK
  <1>3. \A g \in Files : place'[g] = IF g = f THEN "records" ELSE place[g]
    BY DEF TypeOK
  <1>4. HasFile'
    BY <1>3 DEF HasFile, Expired, Files
  <1>5. ReadSoFar' /\ MovedWasTried'
    <2>1. ReadSoFar'
      BY <1>3 DEF ReadSoFar, HasFile, Expired, Files
    <2>2. MovedWasTried'
      BY <1>3 DEF MovedWasTried, Files
    <2> QED
      BY <2>1, <2>2
  <1> QED
    BY <1>2, <1>4, <1>5

LEMMA ClientDeleteCleaner ==
  ASSUME CleanerInv, NEW id \in Ids, ClientDelete(id)
  PROVE  CleanerInv'
  BY DEF CleanerInv, ClientDelete, run, TypeOK, HasFile, Expired, ReadSoFar,
         MovedWasTried

\* Steps that move no file and try no FileID keep what is said of the record files.
LEMMA FilesKept ==
  ASSUME CleanerInv, UNCHANGED <<place, tried>>, cut \subseteq cut'
  PROVE  MovedWasTried'
  BY DEF CleanerInv, MovedWasTried

LEMMA KillCleaner ==
  ASSUME CleanerInv, NEW r \in Runs, Kill(r)
  PROVE  CleanerInv'
  <1> USE DEF CleanerInv, Kill, GoTo, world
  <1>1. TypeOK'
    BY DEF TypeOK
  <1>2. HasFile' /\ ReadSoFar'
    BY DEF TypeOK, HasFile, Expired, ReadSoFar
  <1> QED
    BY <1>1, <1>2, FilesKept

LEMMA BeginCleaner ==
  ASSUME CleanerInv, NEW r \in Runs, Begin(r)
  PROVE  CleanerInv'
  <1>1. PICK d \in {n \in Days : n >= 1} \cup {NoDays} :
          /\ days' = [days EXCEPT ![r] = d]
          /\ todo' = [todo EXCEPT ![r] =
                        {f \in Files : place[f] = "records" /\ NotAfter(f, now - AgeLimit(d))}]
    BY DEF Begin
  <1> DEFINE Listed == {f \in Files : place[f] = "records" /\ NotAfter(f, now - AgeLimit(d))}
  <1> USE DEF CleanerInv
  <1>2. /\ pc[r] = "idle" /\ pc' = [pc EXCEPT ![r] = "next"]
        /\ UNCHANGED <<now, place, stored, tried, cut, cur, k>>
    BY DEF Begin, GoTo, world
  <1>3. \A f \in Listed : Expired(f, d)
    BY AgeNat, CleanerAssumption DEF NotAfter, Expired, TypeOK
  <1>4. todo' = [todo EXCEPT ![r] = Listed]
    BY <1>1
  <1> HIDE DEF Listed
  <1>5. TypeOK'
    BY <1>1, <1>2, <1>3, <1>4 DEF TypeOK, Expired
  <1>6. HasFile'
    BY <1>1, <1>2, <1>3, <1>4 DEF TypeOK, HasFile, Expired
  <1>7. ReadSoFar'
    BY <1>2 DEF TypeOK, ReadSoFar
  <1> QED
    BY <1>2, <1>5, <1>6, <1>7, FilesKept

LEMMA NextFileCleaner ==
  ASSUME CleanerInv, NEW r \in Runs, NextFile(r)
  PROVE  CleanerInv'
  <1> DEFINE c == CHOOSE f \in todo[r] : \A g \in todo[r] : Date[f] <= Date[g]
  <1> USE DEF CleanerInv
  <1>1. c \in todo[r] /\ c \in Records
    BY ChoiceIsToDo DEF NextFile, TypeOK
  <1>2. /\ pc[r] = "next" /\ todo' = [todo EXCEPT ![r] = @ \ {c}]
        /\ UNCHANGED <<now, place, stored, tried, cut, days, k>>
        /\ \/ /\ place[c] = "records"
              /\ cur' = [cur EXCEPT ![r] = c] /\ pc' = [pc EXCEPT ![r] = "program"]
           \/ UNCHANGED <<cur, pc>>
    BY DEF NextFile, GoTo, world
  <1> HIDE DEF c
  <1>3. cur[r] = NoFile /\ k[r] = 0 /\ Expired(c, days[r])
    <2>1. cur[r] = NoFile /\ Expired(c, days[r])
      BY <1>1, <1>2 DEF HasFile
    <2>2. k[r] \in Nat /\ k[r] <= 0
      BY <2>1 DEF TypeOK
    <2> QED
      BY <2>1, <2>2
  <1>4. c \in Files /\ c # NoFile /\ Len(Content[c]) \in Nat
    BY <1>1, ContentFacts, CleanerAssumption DEF Files
  <1>5. TypeOK'
    <2>1. todo' \in [Runs -> SUBSET Records]
      BY <1>2 DEF TypeOK
    <2>2. pc' \in [Runs -> {"idle", "next", "program", "hung", "delete", "move"}]
      BY <1>2 DEF TypeOK
    <2>3. /\ cur' \in [Runs -> Records \cup {NoFile}]
          /\ \A q \in Runs : cur'[q] = cur[q] \/ (q = r /\ cur'[q] = c)
      BY <1>1, <1>2 DEF TypeOK
    <2>4. \A q \in Runs :
            k'[q] <= IF cur'[q] = NoFile THEN 0 ELSE Len(Content[cur'[q]])
      BY <1>2, <1>3, <1>4, <2>3 DEF TypeOK
    <2> QED
      BY <1>2, <2>1, <2>2, <2>3, <2>4 DEF TypeOK
  <1>6. HasFile'
    BY <1>2, <1>3, <1>4 DEF TypeOK, HasFile, Expired
  <1>7. ReadSoFar'
    BY <1>2, <1>3, <1>4 DEF TypeOK, ReadSoFar
  <1> QED
    BY <1>2, <1>5, <1>6, <1>7, FilesKept

LEMMA EndCleaner ==
  ASSUME CleanerInv, NEW r \in Runs, End(r)
  PROVE  CleanerInv'
  <1> USE DEF CleanerInv, End, GoTo, world
  <1>1. TypeOK'
    BY DEF TypeOK
  <1>2. HasFile' /\ ReadSoFar'
    BY DEF TypeOK, HasFile, Expired, ReadSoFar
  <1> QED
    BY <1>1, <1>2, FilesKept

LEMMA ProgramFailsCleaner ==
  ASSUME CleanerInv, NEW r \in Runs, ProgramFails(r)
  PROVE  CleanerInv'
  <1> USE DEF CleanerInv, ProgramFails, GoTo, world
  <1>1. cur[r] \in Records
    BY DEF HasFile, Expired
  <1>2. TypeOK'
    BY <1>1 DEF TypeOK
  <1>3. HasFile' /\ ReadSoFar'
    BY DEF TypeOK, HasFile, Expired, ReadSoFar
  <1> QED
    BY <1>2, <1>3, FilesKept

LEMMA ProgramHangsCleaner ==
  ASSUME CleanerInv, NEW r \in Runs, ProgramHangs(r)
  PROVE  CleanerInv'
  <1> USE DEF CleanerInv, ProgramHangs, GoTo, world
  <1>1. TypeOK'
    BY DEF TypeOK
  <1>2. HasFile' /\ ReadSoFar'
    BY DEF TypeOK, HasFile, Expired, ReadSoFar
  <1> QED
    BY <1>1, <1>2, FilesKept

LEMMA ProgramDiesCleaner ==
  ASSUME CleanerInv, NEW r \in Runs, ProgramDies(r)
  PROVE  CleanerInv'
  <1> USE DEF CleanerInv, ProgramDies, GoTo, world
  <1>1. cur[r] \in Records
    BY DEF HasFile, Expired
  <1>2. TypeOK'
    BY <1>1 DEF TypeOK
  <1>3. HasFile' /\ ReadSoFar'
    BY DEF TypeOK, HasFile, Expired, ReadSoFar
  <1> QED
    BY <1>2, <1>3, FilesKept

\* A list that cannot be opened has been moved by another run.
LEMMA OpenListCleaner ==
  ASSUME CleanerInv, NEW r \in Runs, OpenList(r)
  PROVE  CleanerInv'
  <1> USE DEF CleanerInv, OpenList, GoTo, world
  <1>1. cur[r] \in Records /\ place[cur[r]] \in {"records", "result"}
    BY DEF HasFile, Expired, TypeOK, Files
  <1>2. TypeOK'
    BY DEF TypeOK
  <1>3. HasFile'
    BY DEF TypeOK, HasFile, Expired
  <1>4. ReadSoFar'
    BY <1>1 DEF TypeOK, ReadSoFar
  <1> QED
    BY <1>2, <1>3, <1>4, FilesKept

\* Only here a FileID is tried.
LEMMA DeleteLineCleaner ==
  ASSUME CleanerInv, NEW r \in Runs, DeleteLine(r)
  PROVE  CleanerInv'
  <1> DEFINE c == cur[r]
             n == k[r] + 1
             id == Content[c][n]
  <1> USE DEF CleanerInv
  <1>1. /\ pc[r] = "delete" /\ k[r] < Len(Content[c])
        /\ tried' = tried \cup {id} /\ stored' \subseteq stored
        /\ k' = [k EXCEPT ![r] = n]
        /\ UNCHANGED <<now, place, cut, pc, days, todo, cur>>
    BY DEF DeleteLine
  <1>2. c \in Records /\ c \in Files /\ c # NoFile
    BY <1>1, CleanerAssumption DEF HasFile, Expired, Files
  <1>3. n \in 1..Len(Content[c]) /\ n \in DOMAIN Content[c] /\ id \in Ids
    BY <1>1, <1>2, ContentFacts DEF TypeOK
  <1>4. \A j \in 1..k'[r] : j \in 1..k[r] \/ j = n
    BY <1>1 DEF TypeOK
  <1>6. TypeOK'
    <2>1. \A q \in Runs :
            k'[q] <= IF cur[q] = NoFile THEN 0 ELSE Len(Content[cur[q]])
      BY <1>1, <1>2, <1>3 DEF TypeOK
    <2>2. k' \in [Runs -> Nat]
      BY <1>1, <1>3 DEF TypeOK
    <2>3. stored' \subseteq Ids /\ tried' \subseteq Ids
      BY <1>1, <1>3 DEF TypeOK
    <2> QED
      BY <1>1, <2>1, <2>2, <2>3 DEF TypeOK
  <1>7. HasFile'
    BY <1>1 DEF HasFile, Expired
  <1>8. ReadSoFar'
    <2> SUFFICES ASSUME NEW q \in Runs, cur[q] # NoFile
                 PROVE  /\ \A j \in 1..k'[q] : Content[cur[q]][j] \in tried'
                        /\ pc[q] = "move" => \/ cur[q] \in cut
                                             \/ place[cur[q]] = "result"
                                             \/ k'[q] = Len(Content[cur[q]])
      BY <1>1 DEF ReadSoFar
    <2>1. CASE q = r
      BY <1>1, <1>4, <2>1 DEF ReadSoFar
    <2>2. CASE q # r
      BY <1>1, <2>2 DEF ReadSoFar, TypeOK
    <2> QED
      BY <2>1, <2>2
  <1>9. MovedWasTried'
    BY <1>1 DEF MovedWasTried
  <1> QED
    BY <1>6, <1>7, <1>8, <1>9

LEMMA ListEndsCleaner ==
  ASSUME CleanerInv, NEW r \in Runs, ListEnds(r)
  PROVE  CleanerInv'
  <1> USE DEF CleanerInv, ListEnds, GoTo, world
  <1>1. TypeOK'
    BY DEF TypeOK, HasFile, Expired
  <1>2. HasFile' /\ ReadSoFar'
    BY DEF TypeOK, HasFile, Expired, ReadSoFar
  <1> QED
    BY <1>1, <1>2, FilesKept

\* The file that is put away has been read to its end, by this run or by the
\* one that was faster.
LEMMA MoveCleaner ==
  ASSUME CleanerInv, NEW r \in Runs, Move(r)
  PROVE  CleanerInv'
  <1> DEFINE c == cur[r]
  <1> USE DEF CleanerInv
  <1>1. /\ pc[r] = "move" /\ pc' = [pc EXCEPT ![r] = "next"]
        /\ place' = [place EXCEPT ![c] = "result"]
        /\ cur' = [cur EXCEPT ![r] = NoFile] /\ k' = [k EXCEPT ![r] = 0]
        /\ UNCHANGED <<now, stored, tried, cut, days, todo>>
    BY DEF Move, GoTo
  <1>2. c \in Records /\ c \in Files /\ c # NoFile
    BY <1>1, CleanerAssumption DEF HasFile, Expired, Files
  <1>3. /\ place' \in [Files -> {"none", "records", "result"}]
        /\ \A f \in Files : place'[f] = IF f = c THEN "result" ELSE place[f]
    BY <1>1, <1>2 DEF TypeOK
  <1>4. TypeOK'
    BY <1>1, <1>3 DEF TypeOK
  <1>5. HasFile'
    BY <1>1, <1>2, <1>3 DEF HasFile, Expired, TypeOK, Files
  <1>6. ReadSoFar'
    <2>1. \A q \in Runs : cur'[q] # NoFile =>
            /\ q # r /\ cur'[q] = cur[q] /\ pc'[q] = pc[q] /\ k'[q] = k[q]
            /\ place[cur[q]] = "result" => place'[cur[q]] = "result"
      BY <1>1, <1>3 DEF TypeOK, Files
    <2> QED
      BY <1>1, <2>1 DEF ReadSoFar
  <1>7. MovedWasTried'
    <2>1. c \notin cut => \A j \in DOMAIN Content[c] : Content[c][j] \in tried
      <3>1. CASE place[c] = "result"
        BY <1>2, <3>1 DEF MovedWasTried
      <3>2. CASE k[r] = Len(Content[c])
        BY <1>2, <3>2, ContentFacts DEF ReadSoFar
      <3> QED
        BY <1>1, <1>2, <3>1, <3>2 DEF ReadSoFar
    <2> QED
      BY <1>1, <1>3, <2>1 DEF MovedWasTried, Files
  <1> QED
    BY <1>4, <1>5, <1>6, <1>7

LEMMA NextCleaner == CleanerInv /\ [Next]_vars => CleanerInv'
  <1> SUFFICES ASSUME CleanerInv, [Next]_vars PROVE CleanerInv'
    OBVIOUS
  <1>1. CASE UNCHANGED vars
    BY <1>1 DEF vars, run, CleanerInv, TypeOK, HasFile, Expired, ReadSoFar, MovedWasTried
  <1>2. CASE Tick
    BY <1>2, TickCleaner
  <1>3. ASSUME NEW f \in Records, Record(f) PROVE CleanerInv'
    BY <1>3, RecordCleaned
  <1>4. ASSUME NEW id \in Ids, ClientDelete(id) PROVE CleanerInv'
    BY <1>4, ClientDeleteCleaner
  <1>5. ASSUME NEW r \in Runs, Kill(r) \/ ProgramDies(r) \/ Begin(r)
        PROVE  CleanerInv'
    BY <1>5, KillCleaner, ProgramDiesCleaner, BeginCleaner
  <1>6. ASSUME NEW r \in Runs, RunStep(r) PROVE CleanerInv'
    BY <1>6, NextFileCleaner, EndCleaner, MoveCleaner, ProgramFailsCleaner,
       ProgramHangsCleaner, OpenListCleaner, DeleteLineCleaner, ListEndsCleaner DEF RunStep
  <1> QED
    BY <1>1, <1>2, <1>3, <1>4, <1>5, <1>6 DEF Next

-----------------------------------------------------------------------------
(* The theorems.                                                           *)

\* However runs overlap and are killed, the files a run works on and those it
\* has yet to do were expired when it listed them, and what it has read of a
\* file is tried.
THEOREM CleanerInvHolds == Spec => []CleanerInv
  BY InitCleaner, NextCleaner, PTL DEF Spec

\* Type correctness: a run never reads past the end of its file and never has
\* process.log in its hands.
THEOREM CleanerTypeCorrect == Spec => []TypeOK
  <1>1. CleanerInv => TypeOK
    BY DEF CleanerInv
  <1> QED
    BY <1>1, CleanerInvHolds, PTL

\* Only the mv and the deletion of a line touch a file, and each time it is the
\* one in the run's hands.
LEMMA TouchedInHand ==
  ASSUME CleanerInv, Next, NEW f \in Files, Touched(f)
  PROVE  \E r \in Runs : cur[r] = f /\ cur[r] # NoFile
  <1>1. /\ NoFile \notin Files
        /\ place \in [Files -> {"none", "records", "result"}]
    BY CleanerAssumption DEF CleanerInv, TypeOK
  <1>2. CASE UNCHANGED <<place, tried>>
    BY <1>2 DEF Touched
  <1>3. ASSUME NEW g \in Records, Record(g) PROVE FALSE
    <2>1. tried' = tried /\ place' = [place EXCEPT ![g] = "records"]
      BY <1>3 DEF Record
    <2>2. place'[f] # "result" \/ place[f] = "result"
      BY <1>1, <2>1
    <2> QED
      BY <2>1, <2>2 DEF Touched
  <1>4. ASSUME NEW r \in Runs, Move(r) PROVE cur[r] = f
    BY <1>1, <1>4 DEF Move, Touched
  <1>5. ASSUME NEW r \in Runs, DeleteLine(r) PROVE cur[r] = f
    <2> DEFINE c == cur[r]
               n == k[r] + 1
    <2>1. tried' = tried \cup {Content[c][n]} /\ place' = place
      BY <1>5 DEF DeleteLine
    <2>2. c \in Files /\ n \in DOMAIN Content[c]
      <3>1. pc[r] = "delete" /\ k[r] < Len(Content[c])
        BY <1>5 DEF DeleteLine
      <3>2. c \in Files
        BY <3>1 DEF CleanerInv, HasFile, Expired, Files
      <3> QED
        BY <3>1, <3>2, ContentFacts DEF CleanerInv, TypeOK
    <2>3. PICK j \in DOMAIN Content[f] : Content[f][j] = Content[c][n]
      BY <2>1 DEF Touched
    <2> QED
      BY <2>2, <2>3, RecordedOnce
  <1>6. CASE Tick \/ \E id \in Ids : ClientDelete(id)
    BY <1>2, <1>6 DEF Tick, ClientDelete
  <1>7. ASSUME NEW r \in Runs, Kill(r) \/ ProgramDies(r) \/ Begin(r)
        PROVE  UNCHANGED <<place, tried>>
    BY <1>7 DEF Kill, ProgramDies, Begin, world
  <1>8. ASSUME NEW r \in Runs, RunStep(r)
        PROVE  Move(r) \/ DeleteLine(r) \/ UNCHANGED <<place, tried>>
    BY <1>8 DEF RunStep, NextFile, End, ProgramFails, ProgramHangs, OpenList, ListEnds, world
  <1> QED
    BY <1>1, <1>2, <1>3, <1>4, <1>5, <1>6, <1>7, <1>8 DEF Next

\* No run tries a FileID of, or moves, a record file that has not expired by the
\* expiredays this run has read, and none touches process.log (fpCleanExpire.sh
\* lines 40-62).
THEOREM FreshKeptHolds == Spec => FreshKept
  <1>1. CleanerInv /\ [Next]_vars =>
          [\A f \in Files : Touched(f) =>
             /\ f \in Records
             /\ \E r \in Runs : cur[r] = f /\ Date[f] + AgeLimit(days[r]) <= now]_vars
    <2> SUFFICES ASSUME CleanerInv, Next, NEW f \in Files, Touched(f)
                 PROVE  /\ f \in Records
                        /\ \E r \in Runs : cur[r] = f /\ Date[f] + AgeLimit(days[r]) <= now
      OBVIOUS
    <2>1. PICK r \in Runs : cur[r] = f /\ cur[r] # NoFile
      BY TouchedInHand
    <2> QED
      BY <2>1 DEF CleanerInv, HasFile, Expired
  <1> QED
    BY <1>1, CleanerInvHolds, PTL DEF Spec, FreshKept

\* A record file in cleanresult has had each of its FileIDs tried, unless a
\* program that had it did not get to its end (fpCleanExpire.sh lines 29-37, expireCleaner.cpp
\* lines 19-57).
THEOREM MovedWasTriedHolds == Spec => []MovedWasTried
  <1>1. CleanerInv => MovedWasTried
    BY DEF CleanerInv
  <1> QED
    BY <1>1, CleanerInvHolds, PTL

-----------------------------------------------------------------------------
(* A run ends.                                                             *)

\* What run r has yet to do with the file in its hands: an upper bound on its
\* steps.
FileLeft(r) ==
  IF pc[r] = "program" THEN Len(Content[cur[r]]) + 3
  ELSE IF pc[r] = "delete" THEN Len(Content[cur[r]]) - k[r] + 2
  ELSE IF pc[r] = "hung" THEN 2
  ELSE IF pc[r] = "move" THEN 1 ELSE 0

\* Run r has a file less to do, or the same files and less to do with the one in
\* its hands.
Nearer(r) ==
  \/ todo'[r] \subseteq todo[r] /\ todo'[r] # todo[r]
  \/ todo'[r] = todo[r] /\ FileLeft(r) \in Nat /\ FileLeft(r)' \in Nat /\ FileLeft(r)' < FileLeft(r)

\* A run that does not end with this step is nearer to its end or where it was.
RunAdvances ==
  [][\A r \in Runs : pc[r] # "idle" =>
       \/ pc'[r] = "idle"
       \/ Nearer(r)
       \/ UNCHANGED <<pc[r], todo[r], cur[r], k[r]>>]_vars

LEMMA FileLeftNat ==
  ASSUME CleanerInv, NEW r \in Runs
  PROVE  /\ FileLeft(r) \in Nat
         /\ cur[r] # NoFile => Len(Content[cur[r]]) \in Nat
         /\ k[r] \in Nat
  <1>1. cur[r] # NoFile => Len(Content[cur[r]]) \in Nat /\ k[r] <= Len(Content[cur[r]])
    <2>1. cur[r] # NoFile => cur[r] \in Files
      BY DEF CleanerInv, TypeOK, Files
    <2> QED
      BY <2>1, ContentFacts DEF CleanerInv, TypeOK
  <1>2. pc[r] \in {"program", "hung", "delete", "move"} => cur[r] # NoFile
    BY DEF CleanerInv, HasFile
  <1>3. k[r] \in Nat
    BY DEF CleanerInv, TypeOK
  <1> QED
    BY <1>1, <1>2, <1>3 DEF FileLeft

AllLeftNat == \A r \in Runs : FileLeft(r) \in Nat

LEMMA FilesLeftNat == CleanerInv => AllLeftNat
  BY FileLeftNat DEF AllLeftNat

LEMMA RunStepAdvances ==
  ASSUME CleanerInv, CleanerInv', NEW r \in Runs, RunStep(r)
  PROVE  /\ pc'[r] = "idle" \/ Nearer(r)
         /\ \A q \in Runs \ {r} : UNCHANGED <<pc[q], todo[q], cur[q], k[q]>>
  <1>1. /\ pc \in [Runs -> {"idle", "next", "program", "hung", "delete", "move"}]
        /\ todo \in [Runs -> SUBSET Records] /\ cur \in [Runs -> Records \cup {NoFile}]
        /\ k \in [Runs -> Nat]
    BY DEF CleanerInv, TypeOK
  <1>2. /\ FileLeft(r) \in Nat /\ k[r] \in Nat
        /\ cur[r] # NoFile => Len(Content[cur[r]]) \in Nat
    BY FileLeftNat
  <1>3. FileLeft(r)' \in Nat
    <2>1. CleanerInv'
      OBVIOUS
    <2>2. AllLeftNat'
      BY <2>1, FilesLeftNat, PTL
    <2> QED
      BY <2>2 DEF AllLeftNat
  <1>4. pc[r] \in {"program", "hung", "delete", "move"} => cur[r] # NoFile
    BY DEF CleanerInv, HasFile
  <1>5. CASE NextFile(r)
    <2>1. PICK c : c = CHOOSE f \in todo[r] : \A g \in todo[r] : Date[f] <= Date[g]
      OBVIOUS
    <2>2. c \in todo[r]
      BY <1>1, <1>5, <2>1, ChoiceIsToDo DEF NextFile
    <2>3. /\ todo' = [todo EXCEPT ![r] = @ \ {c}] /\ k' = k
          /\ \/ cur' = [cur EXCEPT ![r] = c] /\ pc' = [pc EXCEPT ![r] = "program"]
             \/ UNCHANGED <<cur, pc>>
      BY <1>5, <2>1 DEF NextFile, GoTo
    <2>4. todo'[r] = todo[r] \ {c}
      BY <1>1, <2>3
    <2>5. Nearer(r)
      BY <2>2, <2>4 DEF Nearer
    <2> QED
      BY <1>1, <2>3, <2>5
  <1>6. CASE End(r)
    BY <1>1, <1>6 DEF End, GoTo
  <1>7. CASE Move(r)
    <2>1. /\ pc[r] = "move" /\ pc' = [pc EXCEPT ![r] = "next"] /\ todo' = todo
          /\ cur' = [cur EXCEPT ![r] = NoFile] /\ k' = [k EXCEPT ![r] = 0]
      BY <1>7 DEF Move, GoTo
    <2>2. FileLeft(r) = 1 /\ FileLeft(r)' = 0
      BY <1>1, <2>1 DEF FileLeft
    <2>3. Nearer(r)
      BY <2>1, <2>2 DEF Nearer
    <2> QED
      BY <1>1, <2>1, <2>3
  <1>8. CASE ProgramFails(r) \/ ProgramHangs(r) \/ OpenList(r)
    <2>1. /\ pc[r] = "program" /\ UNCHANGED <<todo, cur, k>>
          /\ \/ pc' = [pc EXCEPT ![r] = "move"]
             \/ pc' = [pc EXCEPT ![r] = "hung"]
             \/ pc' = [pc EXCEPT ![r] = "delete"]
      BY <1>8 DEF ProgramFails, ProgramHangs, OpenList, GoTo
    <2>2. /\ FileLeft(r) = Len(Content[cur[r]]) + 3
          /\ \/ FileLeft(r)' = 1
             \/ FileLeft(r)' = 2
             \/ FileLeft(r)' = Len(Content[cur[r]]) - k[r] + 2
      BY <1>1, <2>1 DEF FileLeft
    <2>3. Nearer(r)
      BY <1>2, <1>3, <1>4, <2>1, <2>2 DEF Nearer
    <2> QED
      BY <1>1, <2>1, <2>3
  <1>9. CASE DeleteLine(r)
    <2>1. pc[r] = "delete" /\ UNCHANGED <<pc, todo, cur>> /\ k' = [k EXCEPT ![r] = @ + 1]
      BY <1>9 DEF DeleteLine
    <2>2. /\ FileLeft(r) = Len(Content[cur[r]]) - k[r] + 2
          /\ FileLeft(r)' = Len(Content[cur[r]]) - (k[r] + 1) + 2
      BY <1>1, <2>1 DEF FileLeft
    <2>3. Nearer(r)
      BY <1>2, <1>3, <1>4, <2>1, <2>2 DEF Nearer
    <2> QED
      BY <1>1, <2>1, <2>3
  <1>10. CASE ListEnds(r)
    <2>1. /\ pc[r] = "delete" /\ UNCHANGED <<todo, cur, k>> /\ pc' = [pc EXCEPT ![r] = "move"]
          /\ k[r] <= Len(Content[cur[r]])
      BY <1>4, <1>10 DEF ListEnds, GoTo, CleanerInv, TypeOK
    <2>2. FileLeft(r) = Len(Content[cur[r]]) - k[r] + 2 /\ FileLeft(r)' = 1
      BY <1>1, <2>1 DEF FileLeft
    <2>3. Nearer(r)
      BY <1>2, <1>3, <1>4, <2>1, <2>2 DEF Nearer
    <2> QED
      BY <1>1, <2>1, <2>3
  <1> QED
    BY <1>5, <1>6, <1>7, <1>8, <1>9, <1>10 DEF RunStep

LEMMA NextAdvances ==
  ASSUME CleanerInv, CleanerInv', Next, NEW r \in Runs, pc[r] # "idle"
  PROVE  \/ pc'[r] = "idle"
         \/ Nearer(r)
         \/ UNCHANGED <<pc[r], todo[r], cur[r], k[r]>>
  <1>1. /\ pc \in [Runs -> {"idle", "next", "program", "hung", "delete", "move"}]
        /\ todo \in [Runs -> SUBSET Records] /\ cur \in [Runs -> Records \cup {NoFile}]
        /\ k \in [Runs -> Nat]
    BY DEF CleanerInv, TypeOK
  <1>2. CASE Tick \/ (\E f \in Records : Record(f)) \/ (\E id \in Ids : ClientDelete(id))
    BY <1>2 DEF Tick, Record, ClientDelete, run
  <1>3. ASSUME NEW q \in Runs, Kill(q)
        PROVE  pc'[r] = "idle" \/ UNCHANGED <<pc[r], todo[r], cur[r], k[r]>>
    BY <1>1, <1>3 DEF Kill, GoTo
  <1>6. ASSUME NEW q \in Runs, ProgramDies(q)
        PROVE  Nearer(r) \/ UNCHANGED <<pc[r], todo[r], cur[r], k[r]>>
    <2>1. CASE q # r
      BY <1>1, <1>6, <2>1 DEF ProgramDies, GoTo
    <2>2. CASE q = r
      <3>1. /\ pc[r] \in {"program", "hung", "delete"} /\ UNCHANGED <<todo, cur, k>>
            /\ pc' = [pc EXCEPT ![r] = "move"]
        BY <1>6, <2>2 DEF ProgramDies, GoTo
      <3>2. FileLeft(r)' = 1
        BY <1>1, <3>1 DEF FileLeft
      <3>3. FileLeft(r) \in Nat /\ FileLeft(r) > 1
        <4>1. cur[r] # NoFile /\ Len(Content[cur[r]]) \in Nat /\ k[r] \in Nat
          BY <3>1, FileLeftNat DEF CleanerInv, HasFile
        <4>2. k[r] <= Len(Content[cur[r]])
          BY <4>1 DEF CleanerInv, TypeOK
        <4> QED
          BY <3>1, <4>1, <4>2, FileLeftNat DEF FileLeft
      <3> QED
        BY <3>1, <3>2, <3>3 DEF Nearer
    <2> QED
      BY <2>1, <2>2
  <1>4. ASSUME NEW q \in Runs, Begin(q)
        PROVE  UNCHANGED <<pc[r], todo[r], cur[r], k[r]>>
    <2>1. q # r
      BY <1>4 DEF Begin
    <2> QED
      BY <1>1, <1>4, <2>1 DEF Begin, GoTo
  <1>5. ASSUME NEW q \in Runs, RunStep(q)
        PROVE  \/ pc'[r] = "idle"
               \/ Nearer(r)
               \/ UNCHANGED <<pc[r], todo[r], cur[r], k[r]>>
    BY <1>5, RunStepAdvances
  <1> QED
    BY <1>2, <1>3, <1>4, <1>5, <1>6 DEF Next

\* What RunEnds needs besides fairness and a finite directory: no other run, client
\* or day puts a run back or adds to its files; every step of its own takes a file
\* from its list or brings it forward with the one in its hands (fpCleanExpire.sh
\* lines 24-62, expireCleaner.cpp lines 19-57).
THEOREM RunAdvancesHolds == Spec => RunAdvances
  <1>1. CleanerInv /\ CleanerInv' /\ [Next]_vars =>
          [\A r \in Runs : pc[r] # "idle" =>
             \/ pc'[r] = "idle"
             \/ Nearer(r)
             \/ UNCHANGED <<pc[r], todo[r], cur[r], k[r]>>]_vars
    BY NextAdvances
  <1> QED
    BY <1>1, CleanerInvHolds, PTL DEF Spec, RunAdvances
=============================================================================
