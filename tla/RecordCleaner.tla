--------------------------- MODULE RecordCleaner ----------------------------
(***************************************************************************)
(* fpCleanExpire.sh and the program it calls for every expired record file,*)
(* expireCleaner.cpp: the files in the record directory whose name is not  *)
(* after that of the limit are handed to the program, which tries to delete*)
(* every FileID in them, and are then moved to cleanresult.  Runs of the   *)
(* script may overlap, be killed and be repeated, the program may die alone*)
(* or never come back; meanwhile time passes and clients delete files.     *)
(***************************************************************************)
EXTENDS Integers, Sequences

CONSTANTS
  Runs,       \* runs of the script that are there at the same time
  Records,    \* files named UploadRecord_<date>.txt
  ProcessLog, \* the file that the proxy writes, records/process.log
  Date,       \* Date[f]: the date in the name of f
  Content,    \* Content[f]: FileIDs in f, one per line
  Days,       \* numbers that expiredays may have as its value
  NoDays,     \* expiredays without a value
  MaxDay,     \* bound on the time
  NoFile

Files == Records \cup {ProcessLog}
Ids == UNION {{Content[f][k] : k \in DOMAIN Content[f]} : f \in Files}

ASSUME CleanerAssumption ==
  /\ ProcessLog \notin Records /\ NoFile \notin Files
  /\ Date \in [Records -> Nat]
  /\ DOMAIN Content = Files /\ \A f \in Files : Content[f] \in Seq(Ids)
  /\ Days \subseteq Nat /\ NoDays \notin Nat /\ MaxDay \in Nat

\* FastDFS never gives a FileID twice, and the proxy records it once.
ASSUME RecordedOnce ==
  \A f, g \in Files : \A j \in DOMAIN Content[f], h \in DOMAIN Content[g] :
    Content[f][j] = Content[g][h] => f = g

VARIABLES
  now,      \* the day
  place,    \* place[f]: "none", "records" or "result"
  stored,   \* FileIDs that the storage servers have
  tried,    \* FileIDs that some program run has tried to delete
  cut,      \* files that a program did not read to the end
  pc,       \* pc[r]: where run r is
  days,     \* days[r]: the value of expiredays that run r has read
  todo,     \* todo[r]: files still to come in the loop
  cur,      \* cur[r]: the file of this iteration
  k         \* k[r]: lines read of it

vars == <<now, place, stored, tried, cut, pc, days, todo, cur, k>>
run == <<pc, days, todo, cur, k>>
world == <<now, place, stored>>

Init ==
  /\ now = 0
  /\ place = [f \in Files |-> IF f = ProcessLog THEN "records" ELSE "none"]
  /\ stored = {Content[ProcessLog][j] : j \in DOMAIN Content[ProcessLog]}
  /\ tried = {} /\ cut = {}
  /\ pc = [r \in Runs |-> "idle"] /\ days = [r \in Runs |-> NoDays]
  /\ todo = [r \in Runs |-> {}]
  /\ cur = [r \in Runs |-> NoFile] /\ k = [r \in Runs |-> 0]

GoTo(r, label) == pc' = [pc EXCEPT ![r] = label]

-----------------------------------------------------------------------------
(* The world around the script.                                            *)

Tick ==
  /\ now < MaxDay
  /\ now' = now + 1
  /\ UNCHANGED <<place, stored, tried, cut, run>>

\* The uploads of a day and their record file.
Record(f) ==
  /\ place[f] = "none" /\ Date[f] = now
  /\ place' = [place EXCEPT ![f] = "records"]
  /\ stored' = stored \cup {Content[f][j] : j \in DOMAIN Content[f]}
  /\ UNCHANGED <<now, tried, cut, run>>

ClientDelete(id) ==
  /\ id \in stored
  /\ stored' = stored \ {id}
  /\ UNCHANGED <<now, place, tried, cut, run>>

\* A run is killed, and the program it waits for with it.
Kill(r) ==
  /\ pc[r] # "idle"
  /\ GoTo(r, "idle")
  /\ days' = [days EXCEPT ![r] = NoDays] /\ todo' = [todo EXCEPT ![r] = {}]
  /\ cur' = [cur EXCEPT ![r] = NoFile] /\ k' = [k EXCEPT ![r] = 0]
  /\ UNCHANGED <<world, tried, cut>>

\* The program alone dies; the script, which does not look at its status, goes
\* on with the mv.
ProgramDies(r) ==
  /\ pc[r] \in {"program", "hung", "delete"}
  /\ cut' = cut \cup {cur[r]}
  /\ GoTo(r, "move")
  /\ UNCHANGED <<world, tried, days, todo, cur, k>>

-----------------------------------------------------------------------------
(* fpCleanExpire.sh.                                                       *)

\* Mutant of NotAfter: the name of process.log is not after the limit either.
BugAnyName(f, limit) == f = ProcessLog \/ (f \in Records /\ Date[f] <= limit)

\* Names are compared as strings: those of the records are in the order of
\* their dates, and 'p' of process.log is after 'U'.
NotAfter(f, limit) == f \in Records /\ Date[f] <= limit

\* date --date "<value> days ago": without a number it is one day.
AgeLimit(d) == IF d = NoDays THEN 1 ELSE d

\* Mutant of Begin: a day is the limit, whatever expiredays says.
BugOneDay(r) ==
  /\ pc[r] = "idle"
  /\ \E d \in {n \in Days : n >= 1} \cup {NoDays} :
       /\ days' = [days EXCEPT ![r] = d]
       /\ todo' = [todo EXCEPT ![r] =
                     {f \in Files : place[f] = "records" /\ NotAfter(f, now - 1)}]
  /\ GoTo(r, "next")
  /\ UNCHANGED <<world, tried, cut, cur, k>>

\* Read expiredays, compute the limit and list the directory.  A value below 1
\* ends the script; without a value the test itself fails and the script goes on.
Begin(r) ==
  /\ pc[r] = "idle"
  /\ \E d \in {n \in Days : n >= 1} \cup {NoDays} :
       /\ days' = [days EXCEPT ![r] = d]
       /\ todo' = [todo EXCEPT ![r] =
                     {f \in Files : place[f] = "records" /\ NotAfter(f, now - AgeLimit(d))}]
  /\ GoTo(r, "next")
  /\ UNCHANGED <<world, tried, cut, cur, k>>

\* Mutant of NextFile: a file that is gone is tried again.
BugWaitForFile(r) ==
  /\ pc[r] = "next" /\ todo[r] # {}
  /\ LET f == CHOOSE f \in todo[r] : \A g \in todo[r] : Date[f] <= Date[g]
     IN  /\ place[f] = "records"
         /\ todo' = [todo EXCEPT ![r] = @ \ {f}]
         /\ cur' = [cur EXCEPT ![r] = f] /\ GoTo(r, "program")
  /\ UNCHANGED <<world, tried, cut, days, k>>

\* The next file of the loop, in the order of the names; a file that is gone is
\* skipped.
NextFile(r) ==
  /\ pc[r] = "next" /\ todo[r] # {}
  /\ LET f == CHOOSE f \in todo[r] : \A g \in todo[r] : Date[f] <= Date[g]
     IN  /\ todo' = [todo EXCEPT ![r] = @ \ {f}]
         /\ IF place[f] = "records"
            THEN cur' = [cur EXCEPT ![r] = f] /\ GoTo(r, "program")
            ELSE UNCHANGED <<cur, pc>>
  /\ UNCHANGED <<world, tried, cut, days, k>>

End(r) ==
  /\ pc[r] = "next" /\ todo[r] = {}
  /\ GoTo(r, "idle")
  /\ days' = [days EXCEPT ![r] = NoDays]
  /\ UNCHANGED <<world, tried, cut, todo, cur, k>>

\* mv, whatever the program said; it fails when another run was faster.
Move(r) ==
  /\ pc[r] = "move"
  /\ place' = [place EXCEPT ![cur[r]] = "result"]
  /\ cur' = [cur EXCEPT ![r] = NoFile] /\ k' = [k EXCEPT ![r] = 0]
  /\ GoTo(r, "next")
  /\ UNCHANGED <<now, stored, tried, cut, days, todo>>

-----------------------------------------------------------------------------
(* expireCleaner.cpp.                                                      *)

\* The configuration cannot be read, the client library not be initialised,
\* no tracker be reached: nothing is deleted.
ProgramFails(r) ==
  /\ pc[r] = "program"
  /\ cut' = cut \cup {cur[r]}
  /\ GoTo(r, "move")
  /\ UNCHANGED <<world, tried, days, todo, cur, k>>

\* Config::Load does not return: the configuration has a line of 100 characters
\* or more (ConfigReader).
ProgramHangs(r) ==
  /\ pc[r] = "program"
  /\ GoTo(r, "hung")
  /\ UNCHANGED <<world, tried, cut, days, todo, cur, k>>

\* The list is opened, unless another run has moved it meanwhile.
OpenList(r) ==
  /\ pc[r] = "program"
  /\ GoTo(r, IF place[cur[r]] = "records" THEN "delete" ELSE "move")
  /\ UNCHANGED <<world, tried, cut, days, todo, cur, k>>

\* Mutant of DeleteLine: the loop ends at the first failure.
BugStopAtFailure(r) ==
  /\ pc[r] = "delete" /\ k[r] < Len(Content[cur[r]])
  /\ LET id == Content[cur[r]][k[r] + 1]
     IN  /\ tried' = tried \cup {id}
         /\ \/ stored' = stored \ {id} /\ UNCHANGED pc
            \/ UNCHANGED stored /\ GoTo(r, "move")
  /\ k' = [k EXCEPT ![r] = @ + 1]
  /\ UNCHANGED <<now, place, cut, days, todo, cur>>

\* fgets and storage_delete_file1, which may fail.
DeleteLine(r) ==
  /\ pc[r] = "delete" /\ k[r] < Len(Content[cur[r]])
  /\ LET id == Content[cur[r]][k[r] + 1]
     IN  /\ tried' = tried \cup {id}
         /\ stored' \in {stored, stored \ {id}}
  /\ k' = [k EXCEPT ![r] = @ + 1]
  /\ UNCHANGED <<now, place, cut, pc, days, todo, cur>>

\* fgets returns NULL, at the end of the list or because it cannot be read on.
ListEnds(r) ==
  /\ pc[r] = "delete"
  /\ cut' = IF k[r] = Len(Content[cur[r]]) THEN cut ELSE cut \cup {cur[r]}
  /\ GoTo(r, "move")
  /\ UNCHANGED <<world, tried, days, todo, cur, k>>

-----------------------------------------------------------------------------
RunStep(r) ==
  \/ NextFile(r) \/ End(r) \/ Move(r)
  \/ ProgramFails(r) \/ ProgramHangs(r) \/ OpenList(r) \/ DeleteLine(r) \/ ListEnds(r)

Next ==
  \/ Tick
  \/ \E f \in Records : Record(f)
  \/ \E id \in Ids : ClientDelete(id)
  \/ \E r \in Runs : Kill(r) \/ ProgramDies(r) \/ Begin(r) \/ RunStep(r)

Spec == Init /\ [][Next]_vars

\* A run is scheduled, and the calls of the client library return.
FairSpec == Spec /\ \A r \in Runs : WF_vars(RunStep(r))

-----------------------------------------------------------------------------
(* Properties.                                                             *)

TypeOK ==
  /\ now \in 0..MaxDay
  /\ place \in [Files -> {"none", "records", "result"}]
  /\ stored \subseteq Ids /\ tried \subseteq Ids
  /\ cut \subseteq Records
  /\ pc \in [Runs -> {"idle", "next", "program", "hung", "delete", "move"}]
  /\ days \in [Runs -> Days \cup {NoDays}]
  /\ todo \in [Runs -> SUBSET Records]
  /\ cur \in [Runs -> Records \cup {NoFile}]
  /\ k \in [Runs -> Nat]
  /\ \A r \in Runs : k[r] <= IF cur[r] = NoFile THEN 0 ELSE Len(Content[cur[r]])

\* This step moves file f away or tries one of its FileIDs.
Touched(f) ==
  \/ place[f] # "result" /\ place'[f] = "result"
  \/ \E j \in DOMAIN Content[f] : Content[f][j] \in tried' \ tried

\* No run touches what has not expired by the expiredays that this run has
\* read, however many lists, runs with another value and days pass between the
\* listing and the step; process.log, which the proxy has open, is never touched
\* (fpCleanExpire.sh lines 40-62).
FreshKept ==
  [][\A f \in Files : Touched(f) =>
       /\ f \in Records
       /\ \E r \in Runs : cur[r] = f /\ Date[f] + AgeLimit(days[r]) <= now]_vars

\* A record file that was moved away will not be read again; by then each of
\* its FileIDs has been tried, also when runs overlap or are killed half way.
\* The exception is a file in cut: the mv does not ask how the program ended, so
\* one that could not start, died alone or could not read on leaves FileIDs that
\* nobody will try (fpCleanExpire.sh lines 29-37, expireCleaner.cpp lines 19-57).
MovedWasTried ==
  \A f \in Records :
    place[f] = "result" /\ f \notin cut =>
      \A j \in DOMAIN Content[f] : Content[f][j] \in tried

\* Every run of the script ends, also when another run has taken its files
\* away in the meantime, or waits for ever for a program that cannot come out
\* of Config::Load (fpCleanExpire.sh lines 24-27 and 55-62, expireCleaner.cpp
\* line 20).
RunEnds == \A r \in Runs : pc[r] # "idle" ~> pc[r] \in {"idle", "hung"}
=============================================================================
