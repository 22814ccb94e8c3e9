--------------------------- MODULE MonitorProofs ----------------------------
(***************************************************************************)
(* Theorems about Monitor, for any number of slots, of overlapping starts  *)
(* and of faults.                                                          *)
(***************************************************************************)
EXTENDS Monitor, TLAPS

\* Only an empty slot has no steps, and no step of a process empties another.
LEMMA LifeFacts ==
  ASSUME NEW a \in Process!Lives
  PROVE  /\ Process!Advance(a) \subseteq Process!Lives
         /\ Process!Terminated(a) \subseteq Process!Lives
         /\ a.stage = "dead" => Process!Advance(a) = {}
  <1> DEFINE Names == {"early", "logged", "configured", "bound", "serving",
                       "leaving", "hung", "dead"}
  <1>1. Process!Stages = Names
    BY DEF Process!Stages, Process!Successors
  <1>2. a.stage \in Names /\ a.told \in BOOLEAN /\ a.stuck \in BOOLEAN
    BY <1>1 DEF Process!Lives
  <1>3. \A s \in Names : Process!In(s) \in Process!Lives /\ Process!Moved(a, s) \in Process!Lives
    BY <1>1 DEF Process!Lives, Process!In, Process!Moved
  <1>4. Process!Successors[a.stage] \subseteq Names
        /\ Process!Successors["dead"] = {}
    BY <1>2 DEF Process!Successors
  <1>5. Process!Advance(a) \subseteq Process!Lives
        /\ (a.stage = "dead" => Process!Advance(a) = {})
    BY <1>3, <1>4 DEF Process!Advance
  <1>6. /\ [a EXCEPT !.told = TRUE] \in Process!Lives
        /\ [a EXCEPT !.stuck = TRUE] \in Process!Lives
        /\ Process!Dead \in Process!Lives
    BY <1>3 DEF Process!Lives, Process!Dead
  <1>7. Process!Terminated(a) \subseteq Process!Lives
    BY <1>2, <1>6 DEF Process!Terminated
  <1> QED
    BY <1>5, <1>7

LEMMA FreshFacts ==
  /\ Process!Fresh \in Process!Lives /\ Process!Dead \in Process!Lives
  /\ Process!Fresh.stage = "early" /\ Process!Dead.stage = "dead"
  /\ Process!Fresh # Process!Dead
  BY DEF Process!Lives, Process!Stages, Process!Successors, Process!In,
         Process!Dead, Process!Fresh

LEMMA FreeSlotFacts ==
  ASSUME NEW S, NEW U \in SUBSET S, U # S
  PROVE  FreeSlot(S, U) \in S /\ FreeSlot(S, U) \notin U
  <1>1. \E x \in S : x \notin U
    OBVIOUS
  <1> QED
    BY <1>1, Zenon DEF FreeSlot

MonitorInv == TypeOK /\ OneWatcher /\ OneProxy /\ SecondStopMissesNone

\* What a step of a single process does to the set of running ones.
LEMMA BecomeFacts ==
  ASSUME TypeOK, NEW p \in Procs, NEW a \in Process!Lives, Become(p, a)
  PROVE  /\ prox' \in [Procs -> Process!Lives]
         /\ Running' = IF a.stage = "dead" THEN Running \ {p} ELSE Running \cup {p}
  BY DEF TypeOK, Become, Running

\* A step of processes: none is added, the scripts stay where they are.
Shrinks ==
  /\ prox' \in [Procs -> Process!Lives]
  /\ Running' \subseteq Running /\ pend' \subseteq Running'
  /\ records' \subseteq Procs
  /\ faults' \in 0..MaxFaults
  /\ UNCHANGED <<mon, starting, overlap, stopVars>>

LEMMA AdvanceShrinks ==
  ASSUME TypeOK, NEW p \in Procs, Advance(p)
  PROVE  Shrinks /\ (records' # records => At(p, {"logged"}))
  <1>1. PICK a \in Process!Advance(prox[p]) : Become(p, a)
    BY DEF Advance
  <1>2. prox[p] \in Process!Lives
    BY DEF TypeOK
  <1>3. a \in Process!Lives /\ p \in Running
    BY <1>1, <1>2, LifeFacts DEF Running
  <1>4. /\ prox' \in [Procs -> Process!Lives]
        /\ Running' = IF a.stage = "dead" THEN Running \ {p} ELSE Running \cup {p}
    BY <1>1, <1>3, BecomeFacts
  <1>5. Running' \subseteq Running
    BY <1>3, <1>4
  <1>6. pend' = IF a.stage = "dead" THEN pend \ {p} ELSE pend
    BY <1>1 DEF Become
  <1>7. pend' \subseteq Running'
    BY <1>3, <1>4, <1>6 DEF TypeOK
  <1>8. faults' \in 0..MaxFaults
    BY MonitorAssumption DEF Advance, Fault, TypeOK
  <1> QED
    BY <1>4, <1>5, <1>7, <1>8 DEF Shrinks, Advance, TypeOK

LEMMA CrashShrinks ==
  ASSUME TypeOK, NEW p \in Procs, Crash(p)
  PROVE  Shrinks
  <1>1. Become(p, Process!Dead) /\ Process!Dead \in Process!Lives
    BY FreshFacts DEF Crash
  <1>2. prox' \in [Procs -> Process!Lives] /\ Running' = Running \ {p}
    BY <1>1, BecomeFacts, FreshFacts
  <1>3. pend' = pend \ {p}
    BY <1>1, FreshFacts DEF Become
  <1>4. faults' \in 0..MaxFaults
    BY MonitorAssumption DEF Crash, Fault, TypeOK
  <1> QED
    BY <1>2, <1>3, <1>4 DEF Shrinks, Crash, TypeOK

LEMMA HandleTermShrinks ==
  ASSUME TypeOK, NEW p \in Procs, HandleTerm(p)
  PROVE  Shrinks
  <1>1. PICK a \in Process!Terminated(prox[p]) : prox' = [prox EXCEPT ![p] = a]
    BY DEF HandleTerm
  <1>2. a \in Process!Lives /\ p \in Running
    BY <1>1, LifeFacts DEF TypeOK, HandleTerm
  <1>3. prox' \in [Procs -> Process!Lives]
    BY <1>1, <1>2 DEF TypeOK
  <1>4. Running' \subseteq Running /\ Running \ {p} \subseteq Running'
    BY <1>1, <1>2 DEF Running, TypeOK
  <1>5. pend' \subseteq Running'
    BY <1>4 DEF HandleTerm, TypeOK
  <1> QED
    BY <1>3, <1>4, <1>5 DEF Shrinks, HandleTerm, TypeOK

LEMMA ShrinksKeeps == MonitorInv /\ Shrinks => MonitorInv'
  <1> SUFFICES ASSUME MonitorInv, Shrinks PROVE MonitorInv'
    OBVIOUS
  <1>1. Watching' = Watching
    BY DEF Shrinks, Watching
  <1>2. Running' \subseteq Running
    BY DEF Shrinks
  <1> HIDE DEF Running, Watching
  <1>3. TypeOK'
    BY DEF MonitorInv, TypeOK, Shrinks, stopVars
  <1>4. OneWatcher'
    BY <1>1, <1>2 DEF MonitorInv, OneWatcher, Shrinks
  <1>5. OneProxy'
    BY <1>2 DEF MonitorInv, OneProxy, Shrinks
  <1>6. SecondStopMissesNone'
    BY <1>1, <1>2 DEF MonitorInv, SecondStopMissesNone, Shrinks, stopVars
  <1> QED
    BY <1>3, <1>4, <1>5, <1>6 DEF MonitorInv

LEMMA InitInv == Init => MonitorInv
  <1> SUFFICES ASSUME Init PROVE MonitorInv
    OBVIOUS
  <1>1. Running = {} /\ Watching = {}
    BY FreshFacts DEF Init, Running, Watching
  <1>a. prox \in [Procs -> Process!Lives]
    BY FreshFacts DEF Init
  <1>b. mon \in [Monitors -> {"dead", "check", "spawn", "sleep"}]
    BY DEF Init
  <1>c. starting \in 0..MaxStarts /\ faults \in 0..MaxFaults
    BY MonitorAssumption DEF Init
  <1>d. overlap \in BOOLEAN /\ stop \in {"idle", "readProxies", "killMonitors", "killProxies"}
    BY DEF Init
  <1>e. /\ pend \subseteq Running /\ records \subseteq Procs
        /\ stopMons \subseteq Monitors /\ stopProx \subseteq Procs
    BY DEF Init
  <1>2. TypeOK
    BY <1>a, <1>b, <1>c, <1>d, <1>e DEF TypeOK
  <1>3. OneWatcher /\ OneProxy /\ SecondStopMissesNone
    BY <1>1 DEF Init, OneWatcher, OneProxy, SecondStopMissesNone
  <1> QED
    BY <1>2, <1>3 DEF MonitorInv

LEMMA MonitorKeeps ==
  ASSUME MonitorInv, NEW m \in Monitors, MonitorStep(m)
  PROVE  MonitorInv'
  <1> USE DEF MonitorInv
  <1>1. CASE Check(m)
    <2>1. Running' = Running /\ Watching' = Watching
      BY <1>1 DEF Check, Running, Watching, TypeOK, proxVars
    <2>2. TypeOK'
      BY <1>1, <2>1 DEF Check, TypeOK, proxVars, stopVars
    <2>3. OneWatcher'
      BY <1>1, <2>1 DEF Check, OneWatcher, TypeOK
    <2>4. OneProxy' /\ SecondStopMissesNone'
      BY <1>1, <2>1 DEF Check, OneProxy, SecondStopMissesNone, stopVars
    <2> QED
      BY <2>2, <2>3, <2>4
  <1>2. CASE Spawn(m)
    <2> DEFINE p == FreeSlot(Procs, Running)
    <2>1. p \in Procs /\ p \notin Running
      BY <1>2, FreeSlotFacts DEF Spawn, Running
    <2>2. /\ prox' \in [Procs -> Process!Lives] /\ Running' = Running \cup {p}
          /\ pend' = pend
      <3>1. Become(p, Process!Fresh)
        BY <1>2 DEF Spawn
      <3> HIDE DEF p
      <3>2. prox' \in [Procs -> Process!Lives] /\ Running' = Running \cup {p}
        BY <2>1, <3>1, BecomeFacts, FreshFacts
      <3> QED
        BY <3>1, <3>2, FreshFacts DEF Become
    <2>3. Watching' = Watching /\ m \in Watching
      BY <1>2 DEF Spawn, Watching, TypeOK
    <2>4. stopProx' \subseteq Procs /\ UNCHANGED <<stop, stopMons, starting, overlap>>
      BY <1>2 DEF Spawn, TypeOK
    <2> HIDE DEF p
    <2>5. TypeOK'
      BY <1>2, <2>1, <2>2, <2>4 DEF Spawn, TypeOK
    <2>6. ~overlap => Running = {} /\ Watching = {m}
      BY <1>2, <2>3 DEF Spawn, OneWatcher
    <2>7. OneProxy'
      BY <2>2, <2>4, <2>6 DEF OneProxy
    <2>8. ~overlap => \A n \in Monitors : mon'[n] # "spawn"
      BY <1>2, <2>6 DEF Spawn, TypeOK, Watching
    <2>9. OneWatcher'
      BY <2>3, <2>4, <2>8 DEF OneWatcher
    <2>10. SecondStopMissesNone'
      BY <2>3 DEF SecondStopMissesNone
    <2> QED
      BY <2>5, <2>7, <2>9, <2>10
  <1>3. CASE Wake(m)
    <2>1. Running' = Running /\ Watching' = Watching
      BY <1>3 DEF Wake, Running, Watching, TypeOK, proxVars
    <2>2. TypeOK'
      BY <1>3, <2>1 DEF Wake, TypeOK, proxVars, stopVars
    <2>3. OneWatcher'
      BY <1>3, <2>1 DEF Wake, OneWatcher, TypeOK
    <2>4. OneProxy' /\ SecondStopMissesNone'
      BY <1>3, <2>1 DEF Wake, OneProxy, SecondStopMissesNone, stopVars
    <2> QED
      BY <2>2, <2>3, <2>4
  <1> QED
    BY <1>1, <1>2, <1>3 DEF MonitorStep

LEMMA StartKeeps ==
  ASSUME MonitorInv, StartCheck \/ StartLaunch
  PROVE  MonitorInv'
  <1> USE DEF MonitorInv
  <1>1. Running' = Running
    BY DEF StartCheck, StartLaunch, Running, proxVars
  <1>2. CASE StartCheck
    <2>1. Watching' = Watching /\ Watching = {} /\ \A m \in Monitors : mon[m] # "spawn"
      BY <1>2 DEF StartCheck, Watching
    <2>2. TypeOK'
      BY <1>1, <1>2, MonitorAssumption DEF StartCheck, TypeOK, proxVars, stopVars
    <2>a. starting \in Nat /\ starting' = starting + 1 /\ mon' = mon
      BY <1>2, MonitorAssumption DEF StartCheck, TypeOK
    <2>b. ~overlap' => ~(starting > 0)
      BY <1>2 DEF StartCheck
    <2>c. ~overlap' => starting' = 1
      BY <2>a, <2>b
    <2>3. OneWatcher'
      BY <1>1, <2>1, <2>a, <2>c DEF OneWatcher
    <2>4. OneProxy' /\ SecondStopMissesNone'
      BY <1>1, <1>2, <2>1 DEF StartCheck, OneProxy, SecondStopMissesNone, stopVars
    <2> QED
      BY <2>2, <2>3, <2>4
  <1>3. CASE StartLaunch
    <2> DEFINE m == FreeSlot(Monitors, Watching)
    <2>1. m \in Monitors /\ m \notin Watching
      BY <1>3, FreeSlotFacts DEF StartLaunch, Watching
    <2>2. mon' = [mon EXCEPT ![m] = "check"] /\ stopMons' = stopMons \ {m}
      BY <1>3 DEF StartLaunch
    <2> HIDE DEF m
    <2>3. Watching' = Watching \cup {m}
      BY <2>1, <2>2 DEF Watching, TypeOK
    <2>a. mon' \in [Monitors -> {"dead", "check", "spawn", "sleep"}]
      BY <2>2 DEF TypeOK
    <2>b. starting' \in 0..MaxStarts /\ stopMons' \subseteq Monitors
      BY <1>3, <2>2, MonitorAssumption DEF StartLaunch, TypeOK
    <2>4. TypeOK'
      BY <1>1, <1>3, <2>a, <2>b DEF StartLaunch, TypeOK, proxVars
    <2>5. OneWatcher'
      <3>1. ~overlap => Watching = {} /\ starting = 1 /\ \A n \in Monitors : mon[n] # "spawn"
        BY <1>3 DEF StartLaunch, OneWatcher, Watching, TypeOK
      <3> QED
        BY <1>1, <1>3, <2>1, <2>2, <2>3, <3>1 DEF StartLaunch, OneWatcher, TypeOK
    <2>6. OneProxy' /\ SecondStopMissesNone'
      BY <1>1, <1>3, <2>3 DEF StartLaunch, OneProxy, SecondStopMissesNone
    <2> QED
      BY <2>4, <2>5, <2>6
  <1> QED
    BY <1>2, <1>3

LEMMA StopKeeps ==
  ASSUME MonitorInv, StopReadMonitors \/ StopStep
  PROVE  MonitorInv'
  <1> USE DEF MonitorInv
  <1>1. Running' = Running
    BY DEF StopReadMonitors, StopStep, StopReadProxies, StopKillMonitors,
           StopKillProxies, Running, proxVars
  <1>2. CASE StopReadMonitors \/ StopReadProxies \/ StopKillProxies
    <2>1. Watching' = Watching /\ UNCHANGED <<mon, starting, overlap>>
      BY <1>2 DEF StopReadMonitors, StopReadProxies, StopKillProxies, Watching
    <2>2. TypeOK'
      <3>1. Watching \subseteq Monitors /\ Running \subseteq Procs
        BY DEF Watching, Running
      <3> QED
        BY <1>1, <1>2, <3>1 DEF StopReadMonitors, StopReadProxies, StopKillProxies,
           TypeOK, proxVars
    <2>3. OneWatcher' /\ OneProxy'
      BY <1>1, <2>1 DEF OneWatcher, OneProxy
    <2>4. SecondStopMissesNone'
      BY <1>1, <1>2 DEF StopReadMonitors, StopReadProxies, StopKillProxies,
         SecondStopMissesNone
    <2> QED
      BY <2>2, <2>3, <2>4
  <1>3. CASE StopKillMonitors
    <2>1. \A m \in Monitors : mon'[m] = IF m \in stopMons THEN "dead" ELSE mon[m]
      BY <1>3 DEF StopKillMonitors
    <2>2. Watching' = Watching \ stopMons
      BY <2>1 DEF Watching
    <2>3. TypeOK'
      <3>1. mon' \in [Monitors -> {"dead", "check", "spawn", "sleep"}]
        BY <1>3 DEF StopKillMonitors, TypeOK
      <3> QED
        BY <1>1, <1>3, <3>1 DEF StopKillMonitors, TypeOK, proxVars
    <2>4. OneWatcher'
      BY <1>1, <1>3, <2>1, <2>2 DEF StopKillMonitors, OneWatcher
    <2>5. OneProxy'
      BY <1>1, <1>3 DEF StopKillMonitors, OneProxy
    <2>6. SecondStopMissesNone'
      BY <1>1, <1>3, <2>2 DEF StopKillMonitors, SecondStopMissesNone
    <2> QED
      BY <2>3, <2>4, <2>5, <2>6
  <1> QED
    BY <1>2, <1>3 DEF StopStep

LEMMA Inductive == MonitorInv /\ [Next]_vars => MonitorInv'
  <1> SUFFICES ASSUME MonitorInv, [Next]_vars PROVE MonitorInv'
    OBVIOUS
  <1>0. TypeOK
    BY DEF MonitorInv
  <1>1. ASSUME NEW p \in Procs, Advance(p) \/ Crash(p) \/ HandleTerm(p)
        PROVE  MonitorInv'
    BY <1>0, <1>1, AdvanceShrinks, CrashShrinks, HandleTermShrinks, ShrinksKeeps
  <1>2. ASSUME NEW p \in Procs, Upload(p) PROVE MonitorInv'
    <2>1. Running' = Running /\ Watching' = Watching
      BY <1>2 DEF Upload, Running, Watching
    <2>2. Shrinks
      BY <1>0, <1>2, <2>1 DEF Upload, Shrinks, TypeOK, stopVars
    <2> QED
      BY <2>2, ShrinksKeeps
  <1>3. CASE UNCHANGED vars
    <2>1. Running' = Running
      BY <1>3 DEF vars, Running
    <2>2. Shrinks
      BY <1>0, <1>3, <2>1 DEF vars, Shrinks, TypeOK, stopVars
    <2> QED
      BY <2>2, ShrinksKeeps
  <1> QED
    BY <1>1, <1>2, <1>3, MonitorKeeps, StartKeeps, StopKeeps DEF Next

\* The invariant that the others rest on: at most one fpstart.sh or fpmoni.sh is
\* at work, and a monitor that starts a proxy is right that there is none.
THEOREM MonitorInvariant == Spec => []MonitorInv
  BY InitInv, Inductive, PTL DEF Spec

\* Well-formed process tables, and signals are pending for running proxies only.
THEOREM MonitorTypeCorrect == Spec => []TypeOK
  <1>1. MonitorInv => TypeOK
    BY DEF MonitorInv
  <1> QED
    BY <1>1, MonitorInvariant, PTL

\* fpmoni.sh never runs two proxies unless two fpstart.sh overlapped.
THEOREM OneProxyHolds == Spec => []OneProxy
  <1>1. MonitorInv => OneProxy
    BY DEF MonitorInv
  <1> QED
    BY <1>1, MonitorInvariant, PTL

\* A second fpstop.sh, without a monitor, finds every proxy.
THEOREM SecondStopMissesNoneHolds == Spec => []SecondStopMissesNone
  <1>1. MonitorInv => SecondStopMissesNone
    BY DEF MonitorInv
  <1> QED
    BY <1>1, MonitorInvariant, PTL

\* The truncation in init hits a serving proxy's records only after two
\* overlapping fpstart.sh.
THEOREM ServingKeepsRecordsHolds == Spec => ServingKeepsRecords
  <1> DEFINE Kept == \A p \in records : p \notin records' /\ prox[p].stage = "serving" => overlap
  <1>1. MonitorInv /\ [Next]_vars => [Kept]_vars
    <2> SUFFICES ASSUME MonitorInv, Next, NEW q \in records, q \notin records',
                        prox[q].stage = "serving"
                 PROVE  overlap
      OBVIOUS
    <2>0. TypeOK /\ q \in Running
      BY DEF MonitorInv, TypeOK, Running
    <2>1. PICK p \in Procs : Advance(p)
      BY DEF Next, Upload, Crash, HandleTerm, MonitorStep, Check, Spawn, Wake,
             StartCheck, StartLaunch, StopReadMonitors, StopStep, StopReadProxies,
             StopKillMonitors, StopKillProxies, proxVars
    <2>2. prox[p].stage = "logged"
      BY <2>0, <2>1, AdvanceShrinks DEF At
    <2>3. p \in Running /\ p # q
      BY <2>2 DEF Running
    <2> QED
      BY <2>0, <2>3 DEF MonitorInv, OneProxy
  <1> QED
    BY <1>1, MonitorInvariant, PTL DEF Spec, ServingKeepsRecords
=============================================================================
