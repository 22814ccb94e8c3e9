---------------------------- MODULE StringFormat ----------------------------
(***************************************************************************)
(* string_format: the loop that prints into a buffer and grows it until the*)
(* text fits.  What it prints is left out; its length is what vsnprintf    *)
(* would return.                                                           *)
(***************************************************************************)
EXTENDS Integers

CONSTANTS
  Formats,   \* lengths of format strings
  Printed,   \* what vsnprintf may return for them: a length, or -1
  MaxBuffer  \* bound on the buffer while vsnprintf fails

\* No caller has an empty format string: with one, strcpy would write past
\* the empty buffer.
ASSUME FormatAssumption ==
  /\ Formats \subseteq Nat \ {0}
  /\ Printed \subseteq Nat \cup {-1}
  /\ MaxBuffer \in Nat

VARIABLES
  fpc,     \* where the loop is
  fmt,     \* fmt_str.size()
  need,    \* what vsnprintf returns for the arguments
  n,       \* size of the buffer
  rounds   \* iterations begun

fvars == <<fpc, fmt, need, n, rounds>>

abs(x) == IF x < 0 THEN -x ELSE x

\* Reserve two times as much as the length of fmt_str.
FormatInit ==
  /\ fpc = "copy" /\ rounds = 1
  /\ fmt \in Formats /\ need \in Printed
  /\ n = fmt * 2

\* new char[n], and the format string is copied to it.
Copy ==
  /\ fpc = "copy"
  /\ fpc' = "print"
  /\ UNCHANGED <<fmt, need, n, rounds>>

PrintFits ==
  /\ fpc = "print"
  /\ need >= 0 /\ need < n
  /\ fpc' = "done"
  /\ UNCHANGED <<fmt, need, n, rounds>>

\* Mutant of Grow: no room for the terminator.
BugGrowExact ==
  /\ fpc = "print"
  /\ need < 0 \/ need >= n
  /\ n <= MaxBuffer
  /\ n' = n + abs(need - n)
  /\ fpc' = "copy" /\ rounds' = rounds + 1
  /\ UNCHANGED <<fmt, need>>

Grow ==
  /\ fpc = "print"
  /\ need < 0 \/ need >= n
  /\ n <= MaxBuffer
  /\ n' = n + abs(need - n + 1)
  /\ fpc' = "copy" /\ rounds' = rounds + 1
  /\ UNCHANGED <<fmt, need>>

FormatNext == Copy \/ PrintFits \/ Grow

FormatSpec == FormatInit /\ [][FormatNext]_fvars

-----------------------------------------------------------------------------
(* Properties.                                                             *)

\* strcpy never writes past the buffer, whatever size the loop has given it,
\* and the text that is returned is complete.  Unless vsnprintf fails the
\* second buffer fits: the loop never needs a third (ultilities.cpp lines 4-18).
FormatFits ==
  /\ fpc = "copy" => fmt + 1 <= n
  /\ fpc = "done" => need \in 0..(n - 1)
  /\ need >= 0 => rounds <= 2
=============================================================================
