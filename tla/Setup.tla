------------------------------- MODULE Setup --------------------------------
(***************************************************************************)
(* Steps 1 and 3 of fileCacheProxy::init: a path is formatted, the         *)
(* configuration is loaded, and the five items are converted and checked in*)
(* order, each of which may end init.                                      *)
(*                                                                         *)
(* A value is empty or what strtol reads from it, an integer of any size   *)
(* (0 for a text that is no number).  The widths are constants.            *)
(***************************************************************************)
EXTENDS StringFormat, ConfigReader

CONSTANTS
  Values,    \* integers that the configuration may hold
  Empty,     \* a missing or empty value
  LongMax,   \* largest value of a long
  IntSize,   \* number of values of an int
  PortSize   \* number of values of a uint16_t

IntMax == (IntSize \div 2) - 1

\* An int has an even number of values, a long is at least as wide, and the
\* values of an int are a multiple of twice those of a uint16_t.
ASSUME SetupAssumption ==
  /\ Values \subseteq Int /\ Empty \notin Int
  /\ IntSize \in Nat \ {0}
  /\ LongMax \in Nat /\ IntMax <= LongMax
  /\ PortSize \in Nat \ {0} /\ IntSize % (2 * PortSize) = 0

VARIABLES
  spc,     \* where init is
  asked,   \* what getValue returned for the item at hand
  conf     \* port, ThreadCount and expiredays

svars == <<spc, asked, conf>>
vars == <<fvars, cvars, svars>>

Init ==
  /\ FormatInit /\ ReaderInit
  /\ spc = "format"
  /\ asked = [port |-> Empty, ThreadCount |-> Empty, expiredays |-> Empty]
  /\ conf = [port |-> 0, ThreadCount |-> 0, expiredays |-> 0]

\* strtol, and the conversion of its long to int.
str2int(x) ==
  LET long == IF x > LongMax THEN LongMax
              ELSE IF x < -LongMax - 1 THEN -LongMax - 1 ELSE x
  IN  ((long + IntMax + 1) % IntSize) - (IntMax + 1)

\* A number that is at least lo, or else the default.
AtLeast(lo, v, default) ==
  IF v = Empty THEN default ELSE IF str2int(v) < lo THEN default ELSE str2int(v)

\* string_format, in init's step 1.
Formatting ==
  /\ spc = "format"
  /\ FormatNext
  /\ UNCHANGED <<cvars, svars>>

\* The local variables of string_format are gone.
FormatReturns ==
  /\ spc = "format" /\ fpc = "done"
  /\ spc' = "load"
  /\ fpc' = "returned" /\ fmt' = 0 /\ need' = 0 /\ n' = 0 /\ rounds' = 0
  /\ UNCHANGED <<cvars, asked, conf>>

Loading ==
  /\ spc = "load"
  /\ LoadStep
  /\ UNCHANGED <<fvars, svars>>

\* Load has failed, or the items are read; localhost must not be empty.
LoadReturns ==
  /\ spc = "load"
  /\ \/ cpc = "error" /\ spc' = "failed"
     \/ cpc = "done" /\ spc' \in {"port", "failed"}
  /\ text' = <<>> /\ pos' = 1 /\ line' = <<>> /\ mItems' = NoItems
  /\ cpc' = "returned" /\ eofbit' = FALSE /\ failbit' = FALSE
  /\ UNCHANGED <<fvars, asked, conf>>

\* getValue returns v for item key, which becomes x.
Take(key, v, x) ==
  /\ asked' = [asked EXCEPT ![key] = v]
  /\ conf' = [conf EXCEPT ![key] = x]
  /\ UNCHANGED <<fvars, cvars>>

\* port is a uint16_t: the range test that follows is never true.
ReadPort ==
  /\ spc = "port"
  /\ \E v \in Values \cup {Empty} :
       IF v = Empty THEN spc' = "failed" /\ Take("port", v, 0)
       ELSE spc' = "threads" /\ Take("port", v, str2int(v) % PortSize)

\* Mutant of ReadThreads: zero loops are allowed.
BugNoThreads ==
  /\ spc = "threads"
  /\ \E v \in Values \cup {Empty} : Take("ThreadCount", v, AtLeast(0, v, 1))
  /\ spc' = "expire"

ReadThreads ==
  /\ spc = "threads"
  /\ \E v \in Values \cup {Empty} : Take("ThreadCount", v, AtLeast(1, v, 1))
  /\ spc' = "expire"

ReadExpiredays ==
  /\ spc = "expire"
  /\ \E v \in Values \cup {Empty} : Take("expiredays", v, AtLeast(0, v, 7))
  /\ spc' = "client"

\* doFileExists(clientConfPath)
ReadClient ==
  /\ spc = "client"
  /\ spc' \in {"ready", "failed"}
  /\ UNCHANGED <<fvars, cvars, asked, conf>>

Next ==
  \/ Formatting \/ FormatReturns \/ Loading \/ LoadReturns
  \/ ReadPort \/ ReadThreads \/ ReadExpiredays \/ ReadClient

Spec == Init /\ [][Next]_vars

\* The main thread is scheduled.
FairSpec == Spec /\ WF_vars(Next)

-----------------------------------------------------------------------------
(* Properties.                                                             *)

\* A setting that is legal for its item is used as it is written.
UsedAsAsked(key, lo, hi) == asked[key] \in lo..hi => conf[key] = asked[key]

\* A service that starts has at least one loop and the numbers that were asked
\* for wherever they are legal, through strtol's saturation and the truncations
\* to int and to uint16_t (fileCacheProxy.cpp lines 113-153, configReader.cpp
\* lines 33-36).
SettingsLegal ==
  spc = "ready" =>
    /\ conf.ThreadCount >= 1
    /\ UsedAsAsked("port", 0, PortSize - 1)
    /\ UsedAsAsked("ThreadCount", 1, IntMax)
    /\ UsedAsAsked("expiredays", 0, IntMax)

\* What the test at fileCacheProxy.cpp lines 120-124 says: a port below 0 or
\* above 65535 is an error that ends init.  The test comes after the conversion
\* to uint16_t and is never true.
PortInRange == spc = "ready" => asked.port \in 0..(PortSize - 1)
=============================================================================
