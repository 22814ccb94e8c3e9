---------------------------- MODULE ConfigReader ----------------------------
(***************************************************************************)
(* Config::Load: the configuration file is read line by line through a     *)
(* buffer of fixed size, each line is split at '=' and trimmed, and the    *)
(* first item with a key is kept.  The state of the stream (position,      *)
(* eofbit, failbit) is modelled because the loop is controlled by it.      *)
(***************************************************************************)
EXTENDS Integers, Sequences, FiniteSetsExt

CONSTANTS
  Texts,   \* contents that the file may have
  LIMIT    \* second argument of getline; MAX_LINE is larger

ASSUME ReaderAssumption == Texts \subseteq Seq(STRING) /\ LIMIT \in Nat \ {0}

VARIABLES
  cpc,      \* where Load is
  text,     \* the file
  pos,      \* next character
  eofbit, failbit,
  line,     \* what getline has put into buffer
  mItems

cvars == <<cpc, text, pos, eofbit, failbit, line, mItems>>

NoItems == [k \in {} |-> <<>>]

ReaderInit ==
  /\ cpc = "closed" /\ text = <<>> /\ pos = 1
  /\ eofbit = FALSE /\ failbit = FALSE
  /\ line = <<>> /\ mItems = NoItems

-----------------------------------------------------------------------------
(* split, trim and map::insert.                                            *)

\* The next character from p on that is no '=', and the next '='; Len(s) + 1
\* stands for npos.
first_not(s, p) == Min({j \in p..Len(s) : s[j] # "="} \cup {Len(s) + 1})
find(s, p) == Min({j \in p..Len(s) : s[j] = "="} \cup {Len(s) + 1})

\* from[p]: the tokens of s from position p on.
split(s) ==
  LET from[p \in 1..(Len(s) + 1)] ==
        LET lastPos == first_not(s, p)
        IN  IF lastPos > Len(s) THEN <<>>
            ELSE <<SubSeq(s, lastPos, find(s, lastPos) - 1)>> \o from[find(s, lastPos)]
  IN  from[1]

trim(s) ==
  LET ink == {j \in 1..Len(s) : s[j] # " "}
  IN  IF ink = {} THEN <<>> ELSE SubSeq(s, Min(ink), Max(ink))

\* An item that is there already stays.
insert(items, k, v) ==
  [x \in DOMAIN items \cup {k} |-> IF x \in DOMAIN items THEN items[x] ELSE v]

-----------------------------------------------------------------------------
(* Load.                                                                   *)

Open ==
  /\ cpc = "closed"
  /\ \/ text' \in Texts /\ cpc' = "read"
     \/ text' = text /\ cpc' = "error"
  /\ UNCHANGED <<pos, eofbit, failbit, line, mItems>>

\* The end of the line that starts at pos, and its length.
LineEnd == Min({j \in pos..Len(text) : text[j] = "\n"} \cup {Len(text) + 1})
LineLen == LineEnd - pos

Reading == cpc = "read" /\ ~eofbit

\* The line ends with its delimiter.
GetLine ==
  /\ Reading /\ ~failbit
  /\ LineLen < LIMIT /\ LineEnd <= Len(text)
  /\ line' = SubSeq(text, pos, LineEnd - 1)
  /\ pos' = LineEnd + 1
  /\ cpc' = "store"
  /\ UNCHANGED <<text, eofbit, failbit, mItems>>

\* Mutant of GetLineEof: the end of the file is not seen with the last line.
BugEofLater ==
  /\ Reading /\ ~failbit
  /\ LineLen < LIMIT /\ LineEnd > Len(text)
  /\ line' = SubSeq(text, pos, LineEnd - 1)
  /\ pos' = LineEnd
  /\ failbit' = (LineLen = 0) /\ UNCHANGED eofbit
  /\ cpc' = "store"
  /\ UNCHANGED <<text, mItems>>

\* The file ends.
GetLineEof ==
  /\ Reading /\ ~failbit
  /\ LineLen < LIMIT /\ LineEnd > Len(text)
  /\ line' = SubSeq(text, pos, LineEnd - 1)
  /\ pos' = LineEnd
  /\ eofbit' = TRUE /\ failbit' = (LineLen = 0)
  /\ cpc' = "store"
  /\ UNCHANGED <<text, mItems>>

\* Mutant of GetLineFull: the rest of a long line is read as another line.
BugLongLineGoesOn ==
  /\ Reading /\ ~failbit
  /\ LineLen >= LIMIT
  /\ line' = SubSeq(text, pos, pos + LIMIT - 2)
  /\ pos' = pos + LIMIT - 1
  /\ cpc' = "store"
  /\ UNCHANGED <<text, eofbit, failbit, mItems>>

\* LIMIT - 1 characters are stored and the line is not over.
GetLineFull ==
  /\ Reading /\ ~failbit
  /\ LineLen >= LIMIT
  /\ line' = SubSeq(text, pos, pos + LIMIT - 2)
  /\ pos' = pos + LIMIT - 1
  /\ failbit' = TRUE
  /\ cpc' = "store"
  /\ UNCHANGED <<text, eofbit, mItems>>

\* A stream that has failed extracts nothing.
GetLineFailed ==
  /\ Reading /\ failbit
  /\ line' = <<>>
  /\ cpc' = "store"
  /\ UNCHANGED <<text, pos, eofbit, failbit, mItems>>

\* A line with two tokens is an item, any other is skipped.
Store ==
  /\ cpc = "store"
  /\ mItems' = LET tokens == split(line)
               IN  IF Len(tokens) # 2 THEN mItems
                   ELSE insert(mItems, trim(tokens[1]), trim(tokens[2]))
  /\ cpc' = IF eofbit THEN "done" ELSE "read"
  /\ UNCHANGED <<text, pos, eofbit, failbit, line>>

LoadStep == Open \/ GetLine \/ GetLineEof \/ GetLineFull \/ GetLineFailed \/ Store

-----------------------------------------------------------------------------
(* Properties.                                                             *)

\* First and last positions of the lines of the file and of the pieces between
\* the '=' of the line a..b.
Bounds(set, first, last, sep) ==
  {l \in set : /\ l[1] <= l[2] + 1
               /\ \A j \in l[1]..l[2] : text[j] # sep
               /\ l[1] = first \/ text[l[1] - 1] = sep
               /\ l[2] = last \/ text[l[2] + 1] = sep}
FileLines == Bounds((1..(Len(text) + 1)) \X (0..Len(text)), 1, Len(text), "\n")
Pieces(a, b) == {p \in Bounds((a..b) \X (a..b), a, b, "=") : p[1] <= p[2]}

\* A line with exactly two pieces is an item; at is where it starts.
Word(p) == trim(SubSeq(text, p[1], p[2]))
ItemsOf(l) ==
  LET pieces == Pieces(l[1], l[2])
  IN  {[at |-> l[1], key |-> Word(r[1]), value |-> Word(r[2])] :
         r \in {r \in pieces \X pieces : r[1][1] < r[2][1] /\ pieces = {r[1], r[2]}}}
Items == UNION {ItemsOf(l) : l \in FileLines}

\* Of the items with a key the first one counts.
WrittenBy(items) ==
  [k \in {i.key : i \in items} |->
     (CHOOSE i \in items : /\ i.key = k
                           /\ \A o \in items : o.key = k => i.at <= o.at).value]
Written == WrittenBy(Items)

ShortLines == \A l \in FileLines : l[2] - l[1] + 1 < LIMIT

\* When Load returns, the map holds what the file says, wherever lines are
\* blank, end in spaces, have too few or too many '=', repeat a key or lack
\* the last newline (configReader.cpp lines 48-74).  It never returns with
\* half of a long line: such a line sets failbit, which the loop does not
\* test, and eofbit is never reached (lines 58-61).
LoadsWhatIsWritten == cpc = "done" => ShortLines /\ mItems = Written

\* Load returns for a file whose lines all fit the buffer, whether or not the
\* last one has a newline and also when it fills the buffer exactly.
LoadEnds == (cpc \in {"read", "store"} /\ ShortLines) ~> (cpc = "done")
=============================================================================
