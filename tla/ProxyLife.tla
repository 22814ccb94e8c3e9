----------------------------- MODULE ProxyLife ------------------------------
(***************************************************************************)
(* What the scripts around the proxy can rely on: the stages of the process*)
(* and what SIGTERM does in each.  ProxyService implements it, Monitor is  *)
(* built on it.                                                            *)
(*                                                                         *)
(*   early       no logger yet                                             *)
(*   logged      init has a logger and will open the record file           *)
(*   configured  the record file was truncated, the configuration read     *)
(*   bound       init holds the port                                       *)
(*   serving     startService runs; told: isReady was lowered              *)
(*   leaving     init failed or startService returned                      *)
(*   hung        Config::Load or the destruction of the pool never returns *)
(*   dead                                                                  *)
(*                                                                         *)
(* A process is stuck when a signal interrupts one of its threads in a log *)
(* call: the handler waits for the logger's mutex, which this thread holds,*)
(* and every thread that logs waits with it.                               *)
(***************************************************************************)
Successors ==
  [early |-> {"logged", "dead"},
   logged |-> {"configured", "leaving", "hung"},
   configured |-> {"bound", "leaving"},
   bound |-> {"serving", "leaving", "dead"},
   serving |-> {"leaving", "dead"},
   leaving |-> {"dead", "hung"},
   hung |-> {},
   dead |-> {}]

Stages == DOMAIN Successors
Lives == [stage : Stages, told : BOOLEAN, stuck : BOOLEAN]

In(stage) == [stage |-> stage, told |-> FALSE, stuck |-> FALSE]
Fresh == In("early")
Dead == In("dead")

\* The process a in its next stage s.
Moved(a, s) == [stage |-> s, told |-> FALSE, stuck |-> a.stuck /\ s # "dead"]

\* The steps of the process itself.  One that is stuck goes on until its main
\* thread logs.
Advance(a) == {Moved(a, s) : s \in Successors[a.stage]}

\* What SIGTERM may do: end a process without a logger or without an instance,
\* lower isReady, get the process stuck, or nothing, because init will set
\* isReady or because the process is leaving anyway.
Terminated(a) ==
  CASE a.stage = "early"   -> {Dead}
    [] a.stage = "dead"    -> {Dead}
    [] a.stage = "serving" -> {[a EXCEPT !.told = TRUE], [a EXCEPT !.stuck = TRUE]}
    [] a.stage = "leaving" -> {a, [a EXCEPT !.stuck = TRUE], Dead}
    [] OTHER               -> {a, [a EXCEPT !.stuck = TRUE]}
=============================================================================
