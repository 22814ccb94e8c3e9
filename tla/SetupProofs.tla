----------------------------- MODULE SetupProofs ----------------------------
(***************************************************************************)
(* What init makes of the numbers in the configuration, for every width of *)
(* long, int and port and every number that the file may hold.             *)
(***************************************************************************)
EXTENDS Setup, ConfigReaderProofs, TLAPS

-----------------------------------------------------------------------------
(* Division with a modulus that is not a number.                           *)

LEMMA DivMod ==
  ASSUME NEW x \in Int, NEW d \in Nat \ {0}
  PROVE  /\ x \div d \in Int /\ x % d \in 0..(d - 1)
         /\ x = d * (x \div d) + (x % d)
  OBVIOUS

LEMMA ProductBound ==
  ASSUME NEW d \in Nat \ {0}, NEW c \in Int, c >= 1
  PROVE  d * c >= d
  OBVIOUS

LEMMA RemainderUnique ==
  ASSUME NEW d \in Nat \ {0}, NEW a \in Int, NEW b \in Int,
         NEW r \in 0..(d - 1), NEW s \in 0..(d - 1), d * a + r = d * b + s
  PROVE  r = s
  <1>1. d * (a - b) = s - r /\ d * (b - a) = r - s
    OBVIOUS
  <1>2. CASE a - b >= 1
    <2>1. d * (a - b) >= d
      BY <1>2, ProductBound
    <2> QED
      BY <1>1, <2>1
  <1>3. CASE b - a >= 1
    <2>1. d * (b - a) >= d
      BY <1>3, ProductBound
    <2> QED
      BY <1>1, <2>1
  <1>4. CASE a = b
    BY <1>4
  <1> QED
    BY <1>2, <1>3, <1>4

\* A number is its own remainder when it is small enough.
LEMMA SmallRemainder ==
  ASSUME NEW d \in Nat \ {0}, NEW x \in 0..(d - 1)
  PROVE  x % d = x
  <1>1. x = d * (x \div d) + (x % d) /\ x \div d \in Int /\ x % d \in 0..(d - 1)
    BY DivMod
  <1>2. x = d * 0 + x
    OBVIOUS
  <1>3. d * (x \div d) + (x % d) = d * 0 + x
    BY <1>1, <1>2
  <1> QED
    BY <1>1, <1>3, RemainderUnique

-----------------------------------------------------------------------------
(* The conversions.                                                        *)

\* Half an int is a whole number of ports.
LEMMA Widths ==
  /\ IntMax \in Nat /\ IntSize = 2 * (IntMax + 1)
  /\ PortSize - 1 <= IntMax
  /\ \E q \in Nat \ {0} : IntMax + 1 = PortSize * q
  <1> DEFINE two == 2 * PortSize
             q == IntSize \div two
  <1>1. two \in Nat \ {0} /\ IntSize \in Nat \ {0} /\ PortSize \in Nat \ {0}
    BY SetupAssumption
  <1>2. IntSize = two * q /\ q \in Int
    <2>1. IntSize % two = 0
      BY SetupAssumption
    <2> HIDE DEF two
    <2> QED
      BY <1>1, <2>1, DivMod
  <1> HIDE DEF q
  <1>3. IntSize = 2 * (PortSize * q) /\ PortSize * q \in Int
    BY <1>1, <1>2
  <1>4. IntMax + 1 = PortSize * q /\ IntMax \in Int
    BY <1>1, <1>3 DEF IntMax
  <1>5. q >= 1
    <2>1. CASE q <= 0
      <3>1. two * q <= 0
        BY <1>1, <1>2, <2>1
      <3> QED
        BY <1>1, <1>2, <3>1
    <2> QED
      BY <1>2, <2>1
  <1>6. PortSize * q >= PortSize
    BY <1>1, <1>2, <1>5, ProductBound
  <1> QED
    BY <1>1, <1>2, <1>3, <1>4, <1>5, <1>6

LEMMA str2intInt ==
  ASSUME NEW x \in Int
  PROVE  str2int(x) \in Int
  <1>1. IntMax \in Nat /\ IntSize \in Nat \ {0} /\ LongMax \in Nat
    BY Widths, SetupAssumption
  <1> DEFINE long == IF x > LongMax THEN LongMax
                     ELSE IF x < -LongMax - 1 THEN -LongMax - 1 ELSE x
  <1>2. long + IntMax + 1 \in Int
    BY <1>1
  <1>3. (long + IntMax + 1) % IntSize \in Int
    BY <1>1, <1>2, DivMod
  <1> QED
    BY <1>1, <1>3 DEF str2int

\* A number that an int holds comes through unchanged.
LEMMA str2intExact ==
  ASSUME NEW x \in Int, x >= -IntMax - 1, x <= IntMax
  PROVE  str2int(x) = x
  <1>1. IntMax \in Nat /\ IntSize = 2 * (IntMax + 1) /\ LongMax \in Nat /\ IntMax <= LongMax
    BY Widths, SetupAssumption
  <1>2. str2int(x) = ((x + IntMax + 1) % IntSize) - (IntMax + 1)
    BY <1>1 DEF str2int
  <1>3. x + IntMax + 1 \in 0..(IntSize - 1) /\ IntSize \in Nat \ {0}
    BY <1>1
  <1>4. (x + IntMax + 1) % IntSize = x + IntMax + 1
    BY <1>3, SmallRemainder
  <1> QED
    BY <1>1, <1>2, <1>4

-----------------------------------------------------------------------------
(* The invariant.                                                          *)

SetupPC == {"format", "load", "port", "threads", "expire", "client", "ready", "failed"}

\* Each item that init has passed was converted from what was asked for.
SettingsInv ==
  /\ spc \in SetupPC
  /\ LET V == Values \cup {Empty} IN asked \in [port : V, ThreadCount : V, expiredays : V]
  /\ conf \in [port : Int, ThreadCount : Int, expiredays : Int]
  /\ spc \in {"threads", "expire", "client", "ready"} =>
       asked.port # Empty /\ conf.port = str2int(asked.port) % PortSize
  /\ spc \in {"expire", "client", "ready"} =>
       conf.ThreadCount = AtLeast(1, asked.ThreadCount, 1)
  /\ spc \in {"client", "ready"} =>
       conf.expiredays = AtLeast(0, asked.expiredays, 7)

LEMMA AtLeastInt ==
  ASSUME NEW v \in Values \cup {Empty}, NEW lo \in Int, NEW default \in Int
  PROVE  AtLeast(lo, v, default) \in Int
  BY str2intInt, SetupAssumption DEF AtLeast

LEMMA TakeKeeps ==
  ASSUME SettingsInv, NEW v \in Values \cup {Empty}, NEW x \in Int,
         NEW key \in {"port", "ThreadCount", "expiredays"}, Take(key, v, x)
  PROVE  /\ LET V == Values \cup {Empty}
            IN  asked' \in [port : V, ThreadCount : V, expiredays : V]
         /\ conf' \in [port : Int, ThreadCount : Int, expiredays : Int]
         /\ asked'[key] = v /\ conf'[key] = x
         /\ \A o \in {"port", "ThreadCount", "expiredays"} \ {key} :
              asked'[o] = asked[o] /\ conf'[o] = conf[o]
  BY DEF SettingsInv, Take

LEMMA InitSettings == Init => SettingsInv
  BY DEF Init, SettingsInv, SetupPC

LEMMA NextSettings ==
  ASSUME SettingsInv, [Next]_vars
  PROVE  SettingsInv'
  <1>1. CASE Formatting \/ Loading \/ UNCHANGED vars
    <2>1. UNCHANGED svars
      BY <1>1 DEF Formatting, Loading, vars
    <2> QED
      BY <2>1 DEF svars, SettingsInv
  <1>2. CASE FormatReturns \/ LoadReturns
    <2>1. UNCHANGED <<asked, conf>> /\ spc' \in {"load", "port", "failed"}
      BY <1>2 DEF FormatReturns, LoadReturns
    <2> QED
      BY <2>1 DEF SettingsInv, SetupPC
  <1>3. CASE ReadPort
    <2>1. PICK v \in Values \cup {Empty} :
            IF v = Empty THEN spc' = "failed" /\ Take("port", v, 0)
            ELSE spc' = "threads" /\ Take("port", v, str2int(v) % PortSize)
      BY <1>3 DEF ReadPort
    <2>2. CASE v = Empty
      BY <2>1, <2>2, TakeKeeps DEF SettingsInv, SetupPC
    <2>3. CASE v # Empty
      <3>1. v \in Int /\ PortSize \in Nat \ {0}
        BY <2>3, SetupAssumption
      <3>2. str2int(v) % PortSize \in Int
        BY <3>1, str2intInt, DivMod
      <3>3. spc' = "threads" /\ Take("port", v, str2int(v) % PortSize)
        BY <2>1, <2>3
      <3>4. /\ LET V == Values \cup {Empty}
               IN  asked' \in [port : V, ThreadCount : V, expiredays : V]
            /\ conf' \in [port : Int, ThreadCount : Int, expiredays : Int]
            /\ asked'.port = v /\ conf'.port = str2int(v) % PortSize
        BY <3>2, <3>3, TakeKeeps
      <3> QED
        BY <2>3, <3>3, <3>4 DEF SettingsInv, SetupPC
    <2> QED
      BY <2>2, <2>3
  <1>4. CASE ReadThreads
    <2>1. PICK v \in Values \cup {Empty} : Take("ThreadCount", v, AtLeast(1, v, 1))
      BY <1>4 DEF ReadThreads
    <2>2. spc = "threads" /\ spc' = "expire"
      BY <1>4 DEF ReadThreads
    <2>3. AtLeast(1, v, 1) \in Int
      BY AtLeastInt
    <2>4. /\ LET V == Values \cup {Empty}
             IN  asked' \in [port : V, ThreadCount : V, expiredays : V]
          /\ conf' \in [port : Int, ThreadCount : Int, expiredays : Int]
          /\ asked'.ThreadCount = v /\ conf'.ThreadCount = AtLeast(1, v, 1)
          /\ asked'.port = asked.port /\ conf'.port = conf.port
      BY <2>1, <2>3, TakeKeeps
    <2> QED
      BY <2>2, <2>4 DEF SettingsInv, SetupPC
  <1>5. CASE ReadExpiredays
    <2>1. PICK v \in Values \cup {Empty} : Take("expiredays", v, AtLeast(0, v, 7))
      BY <1>5 DEF ReadExpiredays
    <2>2. spc = "expire" /\ spc' = "client"
      BY <1>5 DEF ReadExpiredays
    <2>3. AtLeast(0, v, 7) \in Int
      BY AtLeastInt
    <2>4. /\ LET V == Values \cup {Empty}
             IN  asked' \in [port : V, ThreadCount : V, expiredays : V]
          /\ conf' \in [port : Int, ThreadCount : Int, expiredays : Int]
          /\ asked'.expiredays = v /\ conf'.expiredays = AtLeast(0, v, 7)
          /\ asked'.port = asked.port /\ conf'.port = conf.port
          /\ asked'.ThreadCount = asked.ThreadCount /\ conf'.ThreadCount = conf.ThreadCount
      BY <2>1, <2>3, TakeKeeps
    <2> QED
      BY <2>2, <2>4 DEF SettingsInv, SetupPC
  <1>6. CASE ReadClient
    BY <1>6 DEF ReadClient, SettingsInv, SetupPC
  <1> QED
    BY <1>1, <1>2, <1>3, <1>4, <1>5, <1>6 DEF Next

\* A number of at least lo that an int holds is the setting; a smaller one, or
\* none, is not.
LEMMA AtLeastExact ==
  ASSUME NEW v \in Values \cup {Empty}, NEW lo \in 0..1, NEW default \in Int, default >= lo
  PROVE  /\ AtLeast(lo, v, default) >= lo
         /\ v \in lo..IntMax => AtLeast(lo, v, default) = v
  <1>1. AtLeast(lo, v, default) >= lo
    <2>1. v # Empty => str2int(v) \in Int
      BY str2intInt, SetupAssumption
    <2> QED
      BY <2>1 DEF AtLeast
  <1>2. ASSUME v \in lo..IntMax PROVE AtLeast(lo, v, default) = v
    <2>1. v \in Int /\ v >= lo /\ v <= IntMax /\ v >= -IntMax - 1 /\ v # Empty
      BY <1>2, Widths, SetupAssumption
    <2>2. str2int(v) = v
      BY <2>1, str2intExact
    <2> QED
      BY <2>1, <2>2 DEF AtLeast
  <1> QED
    BY <1>1, <1>2

LEMMA SettingsFollow == SettingsInv => SettingsLegal
  <1> SUFFICES ASSUME SettingsInv, spc = "ready"
               PROVE  /\ conf.ThreadCount >= 1
                      /\ UsedAsAsked("port", 0, PortSize - 1)
                      /\ UsedAsAsked("ThreadCount", 1, IntMax)
                      /\ UsedAsAsked("expiredays", 0, IntMax)
    BY DEF SettingsLegal
  <1>1. /\ asked.port \in Values \cup {Empty} /\ asked.ThreadCount \in Values \cup {Empty}
        /\ asked.expiredays \in Values \cup {Empty}
        /\ conf.port = str2int(asked.port) % PortSize
        /\ conf.ThreadCount = AtLeast(1, asked.ThreadCount, 1)
        /\ conf.expiredays = AtLeast(0, asked.expiredays, 7)
    BY DEF SettingsInv
  <1>2. conf.ThreadCount >= 1 /\ UsedAsAsked("ThreadCount", 1, IntMax)
    BY <1>1, AtLeastExact DEF UsedAsAsked
  <1>3. UsedAsAsked("expiredays", 0, IntMax)
    BY <1>1, AtLeastExact DEF UsedAsAsked
  <1>4. ASSUME asked.port \in 0..(PortSize - 1)
        PROVE  conf.port = asked.port
    <2>1. /\ IntMax \in Nat /\ PortSize \in Nat \ {0} /\ PortSize - 1 <= IntMax
      BY Widths, SetupAssumption
    <2>2. asked.port \in Int /\ asked.port >= -IntMax - 1 /\ asked.port <= IntMax
      BY <1>4, <2>1
    <2>3. str2int(asked.port) = asked.port
      BY <2>2, str2intExact
    <2>4. asked.port % PortSize = asked.port
      BY <1>4, <2>1, SmallRemainder
    <2> QED
      BY <1>1, <2>3, <2>4
  <1> QED
    BY <1>2, <1>3, <1>4 DEF UsedAsAsked

\* A service that starts has at least one loop and every legal number as it was
\* asked for, whatever the widths of long, int and port (fileCacheProxy.cpp lines
\* 113-153).
THEOREM SettingsLegalHolds == Spec => []SettingsLegal
  BY InitSettings, NextSettings, SettingsFollow, PTL DEF Spec

-----------------------------------------------------------------------------
(* Config::Load in the specification of init.                              *)

LEMMA InitLines == Init => LineInv
  <1> SUFFICES ASSUME Init PROVE LineInv
    OBVIOUS
  <1>1. /\ text = <<>> /\ pos = 1 /\ eofbit = FALSE /\ failbit = FALSE /\ cpc = "closed"
    BY DEF Init, ReaderInit
  <1>2. text \in Seq(STRING) /\ pos \in 1..(Len(text) + 1)
    BY <1>1
  <1>3. \A l \in FileLines : ~ (l[1] < 1)
    BY <1>2 DEF FileLines, Bounds
  <1> QED
    BY <1>1, <1>2, <1>3 DEF LineInv

LEMMA NextLines ==
  ASSUME LineInv, [Next]_vars
  PROVE  LineInv'
  <1>1. CASE Loading
    BY <1>1, LoadKeepsLines DEF Loading
  <1>2. CASE LoadReturns
    <2>1. /\ text' = <<>> /\ pos' = 1 /\ cpc' = "returned" /\ eofbit' = FALSE
          /\ failbit' = FALSE
      BY <1>2 DEF LoadReturns
    <2>2. text' \in Seq(STRING) /\ pos' \in 1..(Len(text') + 1)
      BY <2>1
    <2>3. \A l \in FileLines' : ~ (l[1] < 1)
      BY <2>2 DEF FileLines, Bounds
    <2> QED
      BY <2>1, <2>2, <2>3 DEF LineInv
  <1>3. CASE \/ Formatting \/ FormatReturns \/ ReadPort \/ ReadThreads \/ ReadExpiredays
             \/ ReadClient \/ UNCHANGED vars
    <2>1. UNCHANGED cvars
      BY <1>3 DEF Formatting, FormatReturns, ReadPort, ReadThreads, ReadExpiredays,
                  ReadClient, Take, vars
    <2>2. UNCHANGED <<cpc, text, pos, eofbit, failbit, FileLines, ShortLines>>
      BY <2>1 DEF cvars, FileLines, Bounds, ShortLines
    <2> QED
      BY <2>2 DEF LineInv, Short
  <1> QED
    BY <1>1, <1>2, <1>3 DEF Next

\* Load returns normally only for a file whose lines all fit the buffer: half of
\* a long line is never used as an item's value, in a file of any length and
\* with a buffer of any size (configReader.cpp lines 48-74).
THEOREM LoadedLinesFit == Spec => [](cpc = "done" => ShortLines)
  <1>1. LineInv => (cpc = "done" => ShortLines)
    BY DEF LineInv
  <1> QED
    BY <1>1, InitLines, NextLines, PTL DEF Spec

LEMMA InitLoad == Init => LoadInv
  <1> SUFFICES ASSUME Init PROVE LoadInv
    OBVIOUS
  <1>1. cpc = "closed" /\ pos = 1 /\ mItems = NoItems
    BY DEF Init, ReaderInit
  <1> QED
    BY <1>1, InitLines DEF LoadInv, LineStart

LEMMA NextLoad ==
  ASSUME LoadInv, [Next]_vars
  PROVE  LoadInv'
  <1>1. LineInv'
    BY NextLines DEF LoadInv
  <1>2. CASE Loading
    BY <1>2, LoadKeepsItems DEF Loading
  <1>3. CASE LoadReturns
    <2>1. cpc' = "returned" /\ pos' = 1
      BY <1>3 DEF LoadReturns
    <2> QED
      BY <1>1, <2>1 DEF LoadInv, LineStart
  <1>4. CASE \/ Formatting \/ FormatReturns \/ ReadPort \/ ReadThreads \/ ReadExpiredays
             \/ ReadClient \/ UNCHANGED vars
    <2>1. UNCHANGED cvars
      BY <1>4 DEF Formatting, FormatReturns, ReadPort, ReadThreads, ReadExpiredays,
                  ReadClient, Take, vars
    <2>2. UNCHANGED <<cpc, text, pos, eofbit, failbit, line, mItems>>
      BY <2>1 DEF cvars
    <2>3. Items' = Items /\ Written' = Written
      BY <2>2, SameItems
    <2>4. ItemsBefore(pos)' = ItemsBefore(pos) /\ LineStart' = LineStart
      BY <2>2, <2>3 DEF ItemsBefore, LineStart
    <2> QED
      BY <1>1, <2>2, <2>3, <2>4 DEF LoadInv
  <1> QED
    BY <1>2, <1>3, <1>4 DEF Next

\* When Load returns normally every line fitted the buffer and the map holds
\* exactly what the file says: each line with two pieces between its '=' is an
\* item, both sides trimmed, and the first line with a key counts.  For files,
\* lines and buffers of any length (configReader.cpp lines 3-31 and 48-74).
THEOREM LoadsWhatIsWrittenHolds == Spec => []LoadsWhatIsWritten
  BY InitLoad, NextLoad, LoadInvCorrect, PTL DEF Spec

LEMMA InitStream == Init => StreamInv
  BY InitLoad DEF Init, ReaderInit, StreamInv

LEMMA NextStream ==
  ASSUME StreamInv, [Next]_vars
  PROVE  StreamInv'
  <1>1. LoadInv'
    BY NextLoad DEF StreamInv
  <1>2. CASE Loading
    BY <1>2, LoadKeepsStream DEF Loading
  <1>3. CASE LoadReturns
    BY <1>1, <1>3 DEF LoadReturns, StreamInv
  <1>4. CASE \/ Formatting \/ FormatReturns \/ ReadPort \/ ReadThreads \/ ReadExpiredays
             \/ ReadClient \/ UNCHANGED vars
    <2>1. UNCHANGED cvars
      BY <1>4 DEF Formatting, FormatReturns, ReadPort, ReadThreads, ReadExpiredays,
                  ReadClient, Take, vars
    <2>2. UNCHANGED <<cpc, eofbit, failbit, ShortLines>>
      BY <2>1 DEF cvars, ShortLines, FileLines, Bounds
    <2> QED
      BY <1>1, <2>2 DEF StreamInv
  <1> QED
    BY <1>2, <1>3, <1>4 DEF Next

\* What LoadEnds needs besides fairness, for files and buffers of any size: while
\* every line fits the buffer the stream is good whenever the loop comes to
\* getline, so that the loop cannot be stuck on a failed stream (configReader.cpp
\* lines 58-61).
THEOREM ShortLinesKeepStreamGood ==
  Spec => [](cpc = "read" /\ ShortLines => Reading /\ ~failbit)
  <1>1. StreamInv => (cpc = "read" /\ ShortLines => Reading /\ ~failbit)
    BY DEF StreamInv, Reading
  <1> QED
    BY <1>1, InitStream, NextStream, PTL DEF Spec

\* Each of its steps lowers LoadLeft, a natural number.
LoadAdvances ==
  [][Loading /\ cpc # "closed" /\ ShortLines =>
       LoadLeft \in Nat /\ LoadLeft' \in Nat /\ LoadLeft' < LoadLeft]_vars

\* A file whose lines fit is read in at most 2 * Len(text) + 2 steps: none of them,
\* whatever the line is, leaves the loop where it was (configReader.cpp lines 58-73).
THEOREM LoadAdvancesHolds == Spec => LoadAdvances
  <1>1. StreamInv /\ Loading /\ cpc # "closed" /\ ShortLines =>
          LoadLeft \in Nat /\ LoadLeft' \in Nat /\ LoadLeft' < LoadLeft
    BY LoadStepAdvances DEF Loading
  <1> QED
    BY <1>1, InitStream, NextStream, PTL DEF Spec, LoadAdvances

-----------------------------------------------------------------------------
(* string_format, alone and as a phase of init.                            *)

\* What makes it inductive: the second buffer has exactly the size that is
\* needed.
FormatInv ==
  /\ fpc \in {"copy", "print", "done"}
  /\ fmt \in Nat \ {0} /\ need \in Nat \cup {-1}
  /\ n \in Nat /\ rounds \in Nat /\ rounds >= 1
  /\ fmt + 1 <= n
  /\ fpc = "done" => need >= 0 /\ need < n
  /\ need >= 0 => rounds = 1 \/ (rounds = 2 /\ n = need + 1)

LEMMA FormatInvInit == FormatInit => FormatInv
  BY FormatAssumption DEF FormatInit, FormatInv

LEMMA FormatInvKept ==
  ASSUME FormatInv, [FormatNext]_fvars
  PROVE  FormatInv'
  <1>1. CASE Copy
    BY <1>1 DEF FormatInv, Copy
  <1>2. CASE PrintFits
    BY <1>2 DEF FormatInv, PrintFits
  <1>3. CASE Grow
    <2>1. CASE need >= 0
      BY <1>3, <2>1 DEF FormatInv, Grow, abs
    <2>2. CASE need = -1
      BY <1>3, <2>2 DEF FormatInv, Grow, abs
    <2> QED
      BY <2>1, <2>2 DEF FormatInv
  <1>4. CASE UNCHANGED fvars
    BY <1>4 DEF FormatInv, fvars
  <1> QED
    BY <1>1, <1>2, <1>3, <1>4 DEF FormatNext

LEMMA FormatInvFits == FormatInv => FormatFits
  BY DEF FormatInv, FormatFits

\* string_format neither overruns its buffer nor truncates its result, and needs
\* at most two rounds, for format strings and results of any length.
THEOREM FormatCorrect == FormatSpec => []FormatFits
  BY FormatInvInit, FormatInvKept, FormatInvFits, PTL DEF FormatSpec

FormatPhase ==
  IF spc = "format" THEN FormatInv ELSE fpc = "returned" /\ need = 0 /\ rounds = 0

\* init's step 1 neither overruns the buffer of string_format nor truncates the
\* path, and what init does afterwards leaves it alone (fileCacheProxy.cpp
\* lines 62-66).
THEOREM FormatFitsInSetup == Spec => []FormatFits
  <1>1. Init => FormatPhase
    BY FormatInvInit DEF Init, FormatPhase
  <1>2. FormatPhase /\ [Next]_vars => FormatPhase'
    <2> SUFFICES ASSUME FormatPhase, [Next]_vars PROVE FormatPhase'
      OBVIOUS
    <2>1. CASE Formatting
      BY <2>1, FormatInvKept DEF Formatting, FormatPhase, svars
    <2>2. CASE FormatReturns
      BY <2>2 DEF FormatReturns, FormatPhase
    <2>3. CASE \/ Loading \/ LoadReturns \/ ReadPort \/ ReadThreads \/ ReadExpiredays
               \/ ReadClient
      <3>1. UNCHANGED fvars
        BY <2>3 DEF Loading, LoadReturns, ReadPort, ReadThreads, ReadExpiredays, ReadClient,
                    Take
      <3>2. spc # "format" /\ spc' # "format"
        BY <2>3 DEF Loading, LoadReturns, ReadPort, ReadThreads, ReadExpiredays, ReadClient,
                    svars
      <3> QED
        BY <3>1, <3>2 DEF FormatPhase, fvars
    <2>4. CASE UNCHANGED vars
      BY <2>4 DEF FormatPhase, FormatInv, vars, fvars, svars
    <2> QED
      BY <2>1, <2>2, <2>3, <2>4 DEF Next
  <1>3. FormatPhase => FormatFits
    BY FormatInvFits DEF FormatPhase, FormatFits
  <1> QED
    BY <1>1, <1>2, <1>3, PTL DEF Spec
=============================================================================
