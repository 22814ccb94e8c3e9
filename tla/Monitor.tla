------------------------------ MODULE Monitor -------------------------------
(***************************************************************************)
(* The scripts that keep the proxy running: fpmoni.sh, which starts it when*)
(* ps shows none, fpstart.sh, which starts fpmoni.sh when pidof shows none,*)
(* and fpstop.sh, which reads both lists of pids and then kills.  All are  *)
(* check-then-act, and each check and each act is a step of its own.       *)
(*                                                                         *)
(* A proxy goes through the stages of ProxyLife, which ProxyService        *)
(* implements.  A slot of the process table is used again after its process*)
(* has died; a kill for the old pid does not reach the new process.        *)
(***************************************************************************)
EXTENDS Integers, FiniteSets

CONSTANTS
  Procs,      \* slots for proxy processes
  Monitors,   \* slots for fpmoni.sh
  MaxStarts,  \* bound on the fpstart.sh that are at work at the same time
  MaxFaults   \* bound on crashes, hangs, failing inits and failing services

ASSUME MonitorAssumption == MaxStarts \in Nat /\ MaxFaults \in Nat

Process == INSTANCE ProxyLife

VARIABLES
  prox,      \* prox[p]: life of the process in slot p
  pend,      \* proxies with a SIGTERM that is not handled yet
  records,   \* proxies with FileIDs in the record file
  mon,       \* mon[m]: where the fpmoni.sh in slot m is
  starting,  \* number of fpstart.sh that found no monitor and will launch one
  overlap,   \* two fpstart.sh have overlapped
  stop,      \* where fpstop.sh is
  stopMons,  \* pid_fpmoni
  stopProx,  \* pid_filecacheproxy
  faults

proxVars == <<prox, pend, records>>
stopVars == <<stop, stopMons, stopProx>>
vars == <<prox, pend, records, mon, starting, overlap, stop, stopMons, stopProx, faults>>

Running == {p \in Procs : prox[p].stage # "dead"}
Watching == {m \in Monitors : mon[m] # "dead"}

\* Where the next process goes; which free slot it is makes no difference.
FreeSlot(slots, used) == CHOOSE x \in slots : x \notin used

Init ==
  /\ prox = [p \in Procs |-> Process!Dead]
  /\ pend = {} /\ records = {}
  /\ mon = [m \in Monitors |-> "dead"]
  /\ starting = 0 /\ overlap = FALSE
  /\ stop = "idle" /\ stopMons = {} /\ stopProx = {}
  /\ faults = 0

Fault == faults < MaxFaults /\ faults' = faults + 1

\* The process in slot p becomes a; a dead one receives no signal any more.
Become(p, a) ==
  /\ prox' = [prox EXCEPT ![p] = a]
  /\ pend' = IF a.stage = "dead" THEN pend \ {p} ELSE pend

-----------------------------------------------------------------------------
(* Proxies.                                                                *)

At(p, stages) == prox[p].stage \in stages
OthersAt(p, stages) == \E q \in Procs \ {p} : At(q, stages)

\* p comes to stage s without anything having failed.  bind fails while another
\* process listens, and may fail while one is on its way out.
Expected(p, s) ==
  CASE s = "leaving" ->
         \/ prox[p].told
         \/ At(p, {"configured"}) /\ OthersAt(p, {"bound", "serving", "leaving"})
    [] s = "dead"    -> At(p, {"leaving"})
    [] s = "hung"    -> FALSE
    [] OTHER         -> TRUE

\* A step of the process.  init truncates the record file before it reads the
\* configuration.
Advance(p) ==
  /\ \E a \in Process!Advance(prox[p]) :
       /\ a.stage = "bound" => ~OthersAt(p, {"bound", "serving"})
       /\ IF Expected(p, a.stage) THEN UNCHANGED faults ELSE Fault
       /\ Become(p, a)
  /\ records' = IF At(p, {"logged"}) THEN {} ELSE records
  /\ UNCHANGED <<mon, starting, overlap, stopVars>>

\* An upload is recorded.
Upload(p) ==
  /\ At(p, {"serving"})
  /\ records' = records \cup {p}
  /\ UNCHANGED <<prox, pend, mon, starting, overlap, stopVars, faults>>

Crash(p) ==
  /\ p \in Running
  /\ Fault
  /\ Become(p, Process!Dead)
  /\ UNCHANGED <<records, mon, starting, overlap, stopVars>>

\* Mutant of HandleTerm: the handler is not installed for SIGTERM.
BugTermIgnored(p) ==
  /\ p \in pend
  /\ pend' = pend \ {p}
  /\ UNCHANGED <<prox, records, mon, starting, overlap, stopVars, faults>>

\* A signal takes effect, at any time after it was sent.
HandleTerm(p) ==
  /\ p \in pend
  /\ prox' \in {[prox EXCEPT ![p] = a] : a \in Process!Terminated(prox[p])}
  /\ pend' = pend \ {p}
  /\ UNCHANGED <<records, mon, starting, overlap, stopVars, faults>>

-----------------------------------------------------------------------------
(* fpmoni.sh.                                                              *)

\* Mutant of Check: ps is asked for a proxy that serves.
BugCheckServing(m) ==
  /\ mon[m] = "check"
  /\ mon' = [mon EXCEPT ![m] = IF \E p \in Procs : At(p, {"serving"}) THEN "sleep"
                               ELSE "spawn"]
  /\ UNCHANGED <<proxVars, starting, overlap, stopVars, faults>>

Check(m) ==
  /\ mon[m] = "check"
  /\ mon' = [mon EXCEPT ![m] = IF Running # {} THEN "sleep" ELSE "spawn"]
  /\ UNCHANGED <<proxVars, starting, overlap, stopVars, faults>>

Spawn(m) ==
  /\ mon[m] = "spawn"
  /\ Running # Procs
  /\ Become(FreeSlot(Procs, Running), Process!Fresh)
  /\ stopProx' = stopProx \ {FreeSlot(Procs, Running)}
  /\ mon' = [mon EXCEPT ![m] = "sleep"]
  /\ UNCHANGED <<records, starting, overlap, stop, stopMons, faults>>

\* Mutant of Wake: the loop ends when no proxy is left.
BugWakeWhileRunning(m) ==
  /\ mon[m] = "sleep"
  /\ Running # {}
  /\ mon' = [mon EXCEPT ![m] = "check"]
  /\ UNCHANGED <<proxVars, starting, overlap, stopVars, faults>>

\* sleep 10 is over.
Wake(m) ==
  /\ mon[m] = "sleep"
  /\ mon' = [mon EXCEPT ![m] = "check"]
  /\ UNCHANGED <<proxVars, starting, overlap, stopVars, faults>>

-----------------------------------------------------------------------------
(* fpstart.sh.                                                             *)

\* Mutant of StartCheck: pidof is not looked at.
BugStartUnchecked ==
  /\ starting < MaxStarts
  /\ starting' = starting + 1
  /\ overlap' = (overlap \/ starting > 0)
  /\ UNCHANGED <<proxVars, mon, stopVars, faults>>

\* pidof finds no monitor.
StartCheck ==
  /\ starting < MaxStarts
  /\ Watching = {}
  /\ starting' = starting + 1
  /\ overlap' = (overlap \/ starting > 0)
  /\ UNCHANGED <<proxVars, mon, stopVars, faults>>

StartLaunch ==
  /\ starting > 0
  /\ Watching # Monitors
  /\ mon' = [mon EXCEPT ![FreeSlot(Monitors, Watching)] = "check"]
  /\ stopMons' = stopMons \ {FreeSlot(Monitors, Watching)}
  /\ starting' = starting - 1
  /\ UNCHANGED <<proxVars, overlap, stop, stopProx, faults>>

-----------------------------------------------------------------------------
(* fpstop.sh.                                                              *)

StopReadMonitors ==
  /\ stop = "idle"
  /\ stop' = "readProxies" /\ stopMons' = Watching
  /\ UNCHANGED <<proxVars, mon, starting, overlap, stopProx, faults>>

\* Mutant of StopReadProxies: only the proxies that serve are found.
BugReadServing ==
  /\ stop = "readProxies"
  /\ stop' = "killMonitors" /\ stopProx' = {p \in Procs : At(p, {"serving"})}
  /\ UNCHANGED <<proxVars, mon, starting, overlap, stopMons, faults>>

StopReadProxies ==
  /\ stop = "readProxies"
  /\ stop' = "killMonitors" /\ stopProx' = Running
  /\ UNCHANGED <<proxVars, mon, starting, overlap, stopMons, faults>>

StopKillMonitors ==
  /\ stop = "killMonitors"
  /\ mon' = [m \in Monitors |-> IF m \in stopMons THEN "dead" ELSE mon[m]]
  /\ stop' = "killProxies"
  /\ UNCHANGED <<proxVars, starting, overlap, stopMons, stopProx, faults>>

StopKillProxies ==
  /\ stop = "killProxies"
  /\ pend' = pend \cup (stopProx \cap Running)
  /\ stop' = "idle" /\ stopMons' = {} /\ stopProx' = {}
  /\ UNCHANGED <<prox, records, mon, starting, overlap, faults>>

-----------------------------------------------------------------------------
MonitorStep(m) == Check(m) \/ Spawn(m) \/ Wake(m)
StopStep == StopReadProxies \/ StopKillMonitors \/ StopKillProxies

Next ==
  \/ \E p \in Procs : Advance(p) \/ Upload(p) \/ Crash(p) \/ HandleTerm(p)
  \/ \E m \in Monitors : MonitorStep(m)
  \/ StartCheck \/ StartLaunch
  \/ StopReadMonitors \/ StopStep

Spec == Init /\ [][Next]_vars

\* Processes and scripts are scheduled, sleeps end, signals are delivered.
\* Nobody has to call fpstart.sh or fpstop.sh, and neither a serving proxy nor
\* one that is stuck need go on.
Fairness ==
  /\ \A p \in Procs : /\ WF_vars(~prox[p].stuck /\ faults' = faults /\ Advance(p))
                       /\ WF_vars(HandleTerm(p))
  /\ \A m \in Monitors : WF_vars(MonitorStep(m))
  /\ WF_vars(StartLaunch) /\ WF_vars(StopStep)

FairSpec == Spec /\ Fairness

-----------------------------------------------------------------------------
(* Properties.                                                             *)

TypeOK ==
  /\ prox \in [Procs -> Process!Lives]
  /\ pend \subseteq Running
  /\ records \subseteq Procs
  /\ mon \in [Monitors -> {"dead", "check", "spawn", "sleep"}]
  /\ starting \in 0..MaxStarts
  /\ overlap \in BOOLEAN
  /\ stop \in {"idle", "readProxies", "killMonitors", "killProxies"}
  /\ stopMons \subseteq Monitors /\ stopProx \subseteq Procs
  /\ faults \in 0..MaxFaults

\* Without two overlapping fpstart.sh there is never a second proxy process,
\* however monitors, crashes and fpstop.sh interleave: the check of fpmoni.sh
\* and its start are two steps, but nobody else can start one in between
\* (fpmoni.sh lines 8-13, fpstart.sh lines 3-12).
OneProxy == ~overlap => \A p, q \in Running : p = q

\* Why it holds: one fpstart.sh or one monitor at a time, and a monitor that
\* is about to start a proxy is right that there is none.
OneWatcher ==
  ~overlap =>
    /\ starting <= 1
    /\ \A m, n \in Watching : m = n
    /\ starting > 0 => Watching = {}
    /\ (\E m \in Monitors : mon[m] = "spawn") => Running = {}

\* An init that truncates the record file does so while another proxy serves
\* only after two overlapping fpstart.sh: no other order of crashes, stops and
\* restarts loses the FileIDs of a proxy that is still there
\* (fileCacheProxy.cpp line 89).
ServingKeepsRecords ==
  [][\A p \in records : p \notin records' /\ prox[p].stage = "serving" => overlap]_vars

\* fpstop.sh reads the pids before it kills the monitor and so may miss a proxy
\* that was started in between; called again when the monitor is gone it finds
\* every proxy there is (fpstop.sh lines 11-24).
SecondStopMissesNone ==
  stop \in {"killMonitors", "killProxies"} /\ stopMons = {} /\ Watching = {}
    => Running \subseteq stopProx

\* A proxy that serves when fpstop.sh is about to kill it ends, whatever
\* monitors and other signals do, unless it gets stuck in its logger or hangs
\* when it deletes its pool (fpstop.sh lines 23-24).
StoppedProxyEnds ==
  \A p \in Procs :
    (stop = "killProxies" /\ p \in stopProx /\ prox[p].stage = "serving")
      ~> (prox[p].stage \in {"dead", "hung"} \/ prox[p].stuck)

\* While there is a monitor, crashes and failing starts that come to an end do not
\* keep the proxy from serving again.  A proxy that is stuck in its logger, or
\* that hangs in Config::Load or when it deletes its pool, does: ps still shows it
\* (fpmoni.sh lines 6-17).
KeepsServing ==
  []<>(\/ Watching = {}
       \/ \E p \in Procs : prox[p].stage \in {"serving", "hung"} \/ prox[p].stuck)
=============================================================================
