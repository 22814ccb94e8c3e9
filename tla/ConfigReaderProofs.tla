------------------------- MODULE ConfigReaderProofs -------------------------
(***************************************************************************)
(* Config::Load, for files, lines and buffers of any length: what split    *)
(* returns, which line getline has read, and what the map then holds.      *)
(***************************************************************************)
EXTENDS ConfigReader, WellFoundedInduction, SequenceTheorems, TLAPS

-----------------------------------------------------------------------------
(* Positions and parts of a text.                                          *)

LEMMA MinFacts ==
  ASSUME NEW S \in SUBSET Nat, S # {}
  PROVE  Min(S) \in S /\ \A y \in S : Min(S) <= y
  <1> DEFINE Before == {p \in Nat \X Nat : p[1] < p[2]}
  <1>1. IsWellFoundedOn(Before, Nat)
    BY NatLessThanWellFounded, Zenon DEF OpToRel
  <1>2. PICK x \in S : \A y \in S : ~ (<<y, x>> \in Before)
    <2> HIDE DEF Before
    <2> QED
      BY <1>1, WFMin, Zenon
  <1>3. \A y \in S : y < x => <<y, x>> \in Before
    OBVIOUS
  <1>4. \A y \in S : ~ (y < x)
    <2> HIDE DEF Before
    <2> QED
      BY <1>2, <1>3, Zenon
  <1>5. \E z \in S : \A y \in S : z <= y
    BY <1>4
  <1> QED
    BY <1>5 DEF Min

\* Induction from the end of a sequence: a set that contains a position whenever
\* it contains all later ones contains them all.
LEMMA DownInduction ==
  ASSUME NEW n \in Nat, NEW G \in SUBSET (1..n),
         \A k \in 1..n : (\A j \in (k + 1)..n : j \in G) => k \in G
  PROVE  G = 1..n
  <1> DEFINE B == {i \in Nat : i < n /\ n - i \notin G}
  <1>1. B \in SUBSET Nat
    OBVIOUS
  <1>2. B = {}
    <2> SUFFICES ASSUME B # {} PROVE FALSE
      OBVIOUS
    <2>1. Min(B) \in B /\ \A i \in B : Min(B) <= i
      <3> HIDE DEF B
      <3> QED
        BY <1>1, MinFacts
    <2> DEFINE m == Min(B)
    <2> HIDE DEF m
    <2>2. m \in Nat /\ m < n /\ n - m \notin G /\ \A i \in B : m <= i
      BY <2>1 DEF m
    <2>3. ASSUME NEW j \in (n - m + 1)..n PROVE j \in G
      <3>1. n - j \in Nat /\ n - j < m /\ n - (n - j) = j
        BY <2>2
      <3>2. n - j \notin B
        BY <2>2, <3>1
      <3> QED
        BY <2>2, <3>1, <3>2
    <2>4. n - m \in 1..n
      BY <2>2
    <2> QED
      BY <2>2, <2>3, <2>4
  <1>3. ASSUME NEW k \in 1..n PROVE k \in G
    <2>1. n - k \in Nat /\ n - k < n /\ n - (n - k) = k
      OBVIOUS
    <2>2. n - k \notin B
      BY <1>2
    <2> QED
      BY <2>1, <2>2
  <1> QED
    BY <1>3

LEMMA PartFacts ==
  ASSUME NEW s \in Seq(STRING), NEW x \in 1..(Len(s) + 1), NEW y \in (x - 1)..Len(s)
  PROVE  /\ SubSeq(s, x, y) \in Seq(STRING)
         /\ Len(SubSeq(s, x, y)) = y - x + 1
         /\ \A i \in 1..(y - x + 1) : SubSeq(s, x, y)[i] = s[x + i - 1]
  <1>1. x \in Int /\ y \in Int /\ \A i \in x..y : s[i] \in STRING
    OBVIOUS
  <1>2. Len(SubSeq(s, x, y)) = y - x + 1
    OBVIOUS
  <1>3. SubSeq(s, x, y) \in Seq(STRING)
    BY <1>1, SubSeqProperties
  <1>4. \A i \in 1..(y - x + 1) : SubSeq(s, x, y)[i] = s[x + i - 1]
    BY <1>1
  <1> QED
    BY <1>2, <1>3, <1>4

\* A part of a part.
LEMMA PartOfPart ==
  ASSUME NEW s \in Seq(STRING), NEW x \in 1..(Len(s) + 1), NEW y \in (x - 1)..Len(s),
         NEW u \in Nat, NEW v \in Nat, 1 <= u, u <= v, v <= y - x + 1
  PROVE  SubSeq(SubSeq(s, x, y), u, v) = SubSeq(s, x + u - 1, x + v - 1)
  <1>1. PICK r : r = SubSeq(s, x, y)
    OBVIOUS
  <1>2. /\ r \in Seq(STRING) /\ Len(r) = y - x + 1
        /\ \A i \in 1..(y - x + 1) : r[i] = s[x + i - 1]
    BY <1>1, PartFacts
  <1>3. u \in 1..(Len(r) + 1) /\ v \in (u - 1)..Len(r)
    BY <1>2
  <1>4. PICK g : g = SubSeq(r, u, v)
    OBVIOUS
  <1>5. /\ g \in Seq(STRING) /\ Len(g) = v - u + 1
        /\ \A i \in 1..(v - u + 1) : g[i] = r[u + i - 1]
    BY <1>2, <1>3, <1>4, PartFacts
  <1>6. PICK h : h = SubSeq(s, x + u - 1, x + v - 1)
    OBVIOUS
  <1>7. x + u - 1 \in 1..(Len(s) + 1) /\ x + v - 1 \in ((x + u - 1) - 1)..Len(s)
    OBVIOUS
  <1>8. /\ h \in Seq(STRING) /\ Len(h) = v - u + 1
        /\ \A i \in 1..(v - u + 1) : h[i] = s[(x + u - 1) + i - 1]
    <2>1. (x + v - 1) - (x + u - 1) + 1 = v - u + 1
      OBVIOUS
    <2> QED
      BY <1>6, <1>7, <2>1, PartFacts
  <1>9. ASSUME NEW i \in 1..(v - u + 1) PROVE g[i] = h[i]
    <2>1. u + i - 1 \in 1..(y - x + 1) /\ x + (u + i - 1) - 1 = (x + u - 1) + i - 1
      OBVIOUS
    <2>2. g[i] = r[u + i - 1] /\ h[i] = s[(x + u - 1) + i - 1]
      BY <1>5, <1>8
    <2>3. r[u + i - 1] = s[x + (u + i - 1) - 1]
      BY <1>2, <2>1
    <2> QED
      BY <2>1, <2>2, <2>3
  <1>10. g = h
    <2>1. Len(g) = Len(h) /\ \A i \in 1..Len(g) : g[i] = h[i]
      BY <1>5, <1>8, <1>9
    <2> QED
      BY <1>5, <1>8, <2>1, SeqEqual, Zenon
  <1> QED
    BY <1>1, <1>4, <1>6, <1>10

-----------------------------------------------------------------------------
(* split.                                                                  *)

LEMMA FirstNotFacts ==
  ASSUME NEW s \in Seq(STRING), NEW p \in 1..(Len(s) + 1)
  PROVE  /\ first_not(s, p) \in p..(Len(s) + 1)
         /\ \A j \in p..(first_not(s, p) - 1) : s[j] = "="
         /\ first_not(s, p) <= Len(s) => s[first_not(s, p)] # "="
  <1> DEFINE S == {j \in p..Len(s) : s[j] # "="} \cup {Len(s) + 1}
  <1>1. Len(s) \in Nat /\ S \in SUBSET Nat /\ S # {} /\ first_not(s, p) = Min(S)
    BY DEF first_not
  <1>2. first_not(s, p) \in S /\ \A j \in S : first_not(s, p) <= j
    <2> HIDE DEF S
    <2> QED
      BY <1>1, MinFacts
  <1>3. first_not(s, p) \in p..(Len(s) + 1) /\ p \in Nat \ {0}
    BY <1>1, <1>2
  <1>4. first_not(s, p) <= Len(s) => s[first_not(s, p)] # "="
    BY <1>1, <1>2, <1>3
  <1>5. ASSUME NEW j \in p..(first_not(s, p) - 1) PROVE s[j] = "="
    <2>1. j \in p..Len(s) /\ ~ (first_not(s, p) <= j)
      BY <1>1, <1>3
    <2>2. j \notin S
      BY <1>2, <2>1
    <2> QED
      BY <2>1, <2>2
  <1> QED
    BY <1>3, <1>4, <1>5

LEMMA FindFacts ==
  ASSUME NEW s \in Seq(STRING), NEW p \in 1..(Len(s) + 1)
  PROVE  /\ find(s, p) \in p..(Len(s) + 1)
         /\ \A j \in p..(find(s, p) - 1) : s[j] # "="
         /\ find(s, p) <= Len(s) => s[find(s, p)] = "="
  <1> DEFINE S == {j \in p..Len(s) : s[j] = "="} \cup {Len(s) + 1}
  <1>1. Len(s) \in Nat /\ S \in SUBSET Nat /\ S # {} /\ find(s, p) = Min(S)
    BY DEF find
  <1>2. find(s, p) \in S /\ \A j \in S : find(s, p) <= j
    <2> HIDE DEF S
    <2> QED
      BY <1>1, MinFacts
  <1>3. find(s, p) \in p..(Len(s) + 1) /\ p \in Nat \ {0}
    BY <1>1, <1>2
  <1>4. find(s, p) <= Len(s) => s[find(s, p)] = "="
    BY <1>1, <1>2, <1>3
  <1>5. ASSUME NEW j \in p..(find(s, p) - 1) PROVE s[j] # "="
    <2>1. j \in p..Len(s) /\ ~ (find(s, p) <= j)
      BY <1>1, <1>3
    <2>2. j \notin S
      BY <1>2, <2>1
    <2> QED
      BY <2>1, <2>2
  <1> QED
    BY <1>3, <1>4, <1>5

\* A token is not empty.
LEMMA FindLater ==
  ASSUME NEW s \in Seq(STRING), NEW p \in 1..(Len(s) + 1), first_not(s, p) <= Len(s)
  PROVE  find(s, first_not(s, p)) \in (first_not(s, p) + 1)..(Len(s) + 1)
  <1> DEFINE a == first_not(s, p)
  <1>1. a \in 1..(Len(s) + 1) /\ a <= Len(s) /\ s[a] # "=" /\ Len(s) \in Nat
    BY FirstNotFacts
  <1> HIDE DEF a
  <1>2. find(s, a) \in a..(Len(s) + 1) /\ (find(s, a) <= Len(s) => s[find(s, a)] = "=")
    BY <1>1, FindFacts
  <1>3. find(s, a) \in (a + 1)..(Len(s) + 1)
    BY <1>1, <1>2
  <1> QED
    BY <1>3 DEF a

\* One round of the loop of split, when f gives the tokens of the rounds that
\* follow.
Token(s, p) == SubSeq(s, first_not(s, p), find(s, first_not(s, p)) - 1)
Rest(s, p) == find(s, first_not(s, p))
Round(s, f, p) ==
  IF first_not(s, p) > Len(s) THEN <<>> ELSE <<Token(s, p)>> \o f[Rest(s, p)]
Rounds(s) == CHOOSE f : f = [p \in 1..(Len(s) + 1) |-> Round(s, f, p)]

LEMMA SplitIsRounds ==
  ASSUME NEW s
  PROVE  split(s) = Rounds(s)[1]
  BY DEF split, Rounds, Round, Token, Rest

LEMMA RestFacts ==
  ASSUME NEW s \in Seq(STRING), NEW p \in 1..(Len(s) + 1), ~ (first_not(s, p) > Len(s))
  PROVE  Rest(s, p) \in (p + 1)..(Len(s) + 1)
  <1>1. first_not(s, p) \in p..(Len(s) + 1) /\ Len(s) \in Nat
    BY FirstNotFacts
  <1>2. find(s, first_not(s, p)) \in (first_not(s, p) + 1)..(Len(s) + 1)
    BY <1>1, FindLater
  <1> QED
    BY <1>1, <1>2 DEF Rest

\* A round depends only on the rounds that follow.
LEMMA RoundAgrees ==
  ASSUME NEW s, NEW f, NEW g, NEW p,
         ~ (first_not(s, p) > Len(s)) => f[Rest(s, p)] = g[Rest(s, p)]
  PROVE  Round(s, f, p) = Round(s, g, p)
  BY DEF Round

\* Rounds is not the choice from nothing: the loop ends.
LEMMA RoundsExist ==
  ASSUME NEW s \in Seq(STRING)
  PROVE  \E f : f = [p \in 1..(Len(s) + 1) |-> Round(s, f, p)]
  <1> DEFINE N == Len(s) + 1
             G == {k \in 1..N : \E f : f = [p \in k..N |-> Round(s, f, p)]}
  <1>1. N \in Nat \ {0}
    OBVIOUS
  <1>2. ASSUME NEW k \in 1..N, NEW f, f = [p \in (k + 1)..N |-> Round(s, f, p)]
        PROVE  k \in G
    <2> DEFINE g == [p \in k..N |-> IF p = k THEN Round(s, f, k) ELSE f[p]]
    <2>1. \A p \in (k + 1)..N : f[p] = Round(s, f, p)
      BY <1>2
    <2>2. ASSUME NEW p \in k..N PROVE g[p] = Round(s, g, p)
      <3>1. p \in 1..(Len(s) + 1)
        BY <1>1
      <3>2. ~ (first_not(s, p) > Len(s)) => f[Rest(s, p)] = g[Rest(s, p)]
        <4> SUFFICES ASSUME ~ (first_not(s, p) > Len(s)) PROVE f[Rest(s, p)] = g[Rest(s, p)]
          OBVIOUS
        <4>1. Rest(s, p) \in (p + 1)..(Len(s) + 1)
          BY <3>1, RestFacts
        <4>2. Rest(s, p) \in k..N /\ Rest(s, p) # k
          BY <1>1, <4>1
        <4> QED
          BY <4>2
      <3>3. Round(s, f, p) = Round(s, g, p)
        <4> HIDE DEF g
        <4> QED
          BY <3>2, RoundAgrees
      <3>4. CASE p = k
        BY <3>3, <3>4
      <3>5. CASE p # k
        <4>1. p \in (k + 1)..N
          BY <1>1, <3>5
        <4>2. f[p] = Round(s, f, p)
          BY <2>1, <4>1
        <4>3. g[p] = f[p]
          BY <3>5
        <4> QED
          BY <3>3, <4>2, <4>3
      <3> QED
        BY <3>4, <3>5
    <2>3. g = [p \in k..N |-> g[p]]
      OBVIOUS
    <2>4. g = [p \in k..N |-> Round(s, g, p)]
      <3> HIDE DEF g
      <3> QED
        BY <2>2, <2>3
    <2> QED
      BY <2>4
  <1>3. ASSUME NEW k \in 1..N, \A j \in (k + 1)..N : j \in G
        PROVE  k \in G
    <2>1. CASE k = N
      <3> DEFINE f == [p \in (k + 1)..N |-> <<>>]
      <3>1. (k + 1)..N = {}
        BY <1>1, <2>1
      <3>2. f = [p \in (k + 1)..N |-> Round(s, f, p)]
        BY <3>1
      <3> HIDE DEF f, G
      <3> QED
        BY <1>2, <3>2
    <2>2. CASE k # N
      <3>1. k + 1 \in (k + 1)..N
        BY <1>1, <2>2
      <3>2. PICK f : f = [p \in (k + 1)..N |-> Round(s, f, p)]
        BY <1>3, <3>1
      <3> HIDE DEF G
      <3> QED
        BY <1>2, <3>2
    <2> QED
      BY <2>1, <2>2
  <1>4. G = 1..N
    <2>1. G \in SUBSET (1..N)
      OBVIOUS
    <2> HIDE DEF G, N
    <2> QED
      BY <1>1, <1>3, <2>1, DownInduction
  <1>5. 1 \in G
    BY <1>1, <1>4
  <1> QED
    BY <1>5

\* The loop of split goes through its rounds.
LEMMA RoundsFollow ==
  ASSUME NEW s \in Seq(STRING), NEW p \in 1..(Len(s) + 1)
  PROVE  Rounds(s)[p] = Round(s, Rounds(s), p)
  <1>1. Rounds(s) = [q \in 1..(Len(s) + 1) |-> Round(s, Rounds(s), q)]
    BY RoundsExist DEF Rounds
  <1> QED
    BY <1>1

LEMMA RoundsType ==
  ASSUME NEW s \in Seq(STRING), NEW p \in 1..(Len(s) + 1)
  PROVE  Rounds(s)[p] \in Seq(Seq(STRING))
  <1> DEFINE N == Len(s) + 1
             G == {k \in 1..N : Rounds(s)[k] \in Seq(Seq(STRING))}
  <1>1. N \in Nat \ {0}
    OBVIOUS
  <1>2. ASSUME NEW k \in 1..N, \A j \in (k + 1)..N : j \in G
        PROVE  Rounds(s)[k] \in Seq(Seq(STRING))
    <2>1. Rounds(s)[k] = Round(s, Rounds(s), k)
      BY RoundsFollow
    <2>2. CASE first_not(s, k) > Len(s)
      BY <2>1, <2>2 DEF Round
    <2>3. CASE ~ (first_not(s, k) > Len(s))
      <3>1. Rounds(s)[k] = <<Token(s, k)>> \o Rounds(s)[Rest(s, k)]
        BY <2>1, <2>3 DEF Round
      <3>2. Rounds(s)[Rest(s, k)] \in Seq(Seq(STRING))
        BY <1>2, <2>3, RestFacts
      <3>3. Token(s, k) \in Seq(STRING)
        <4>1. first_not(s, k) \in k..(Len(s) + 1) /\ Len(s) \in Nat
          BY FirstNotFacts
        <4>2. find(s, first_not(s, k)) \in (first_not(s, k) + 1)..(Len(s) + 1)
          BY <2>3, <4>1, FindLater
        <4>3. /\ first_not(s, k) \in 1..(Len(s) + 1)
              /\ find(s, first_not(s, k)) - 1 \in (first_not(s, k) - 1)..Len(s)
          BY <4>1, <4>2
        <4> QED
          BY <4>3, PartFacts DEF Token
      <3>4. <<Token(s, k)>> \in Seq(Seq(STRING))
        BY <3>3
      <3> QED
        BY <3>1, <3>2, <3>4, ConcatProperties, Zenon
    <2> QED
      BY <2>2, <2>3
  <1>3. G = 1..N
    <2>1. G \in SUBSET (1..N)
      OBVIOUS
    <2>2. \A k \in 1..N : (\A j \in (k + 1)..N : j \in G) => k \in G
      BY <1>2
    <2> HIDE DEF G, N
    <2> QED
      BY <1>1, <2>1, <2>2, DownInduction
  <1> QED
    BY <1>3

\* A round adds no token or one.
LEMMA RoundAdds ==
  ASSUME NEW s \in Seq(STRING), NEW p \in 1..(Len(s) + 1)
  PROVE  /\ Rounds(s)[p] \in Seq(Seq(STRING))
         /\ first_not(s, p) > Len(s) => Len(Rounds(s)[p]) = 0
         /\ ~ (first_not(s, p) > Len(s)) =>
              /\ Rest(s, p) \in 1..(Len(s) + 1)
              /\ Len(Rounds(s)[p]) = 1 + Len(Rounds(s)[Rest(s, p)])
              /\ Rounds(s)[p][1] = Token(s, p)
              /\ Len(Rounds(s)[p]) > 1 => Rounds(s)[p][2] = Rounds(s)[Rest(s, p)][1]
  <1>1. Rounds(s)[p] = Round(s, Rounds(s), p) /\ Rounds(s)[p] \in Seq(Seq(STRING))
    BY RoundsFollow, RoundsType
  <1>2. CASE first_not(s, p) > Len(s)
    BY <1>1, <1>2 DEF Round
  <1>3. CASE ~ (first_not(s, p) > Len(s))
    <2>1. Rounds(s)[p] = <<Token(s, p)>> \o Rounds(s)[Rest(s, p)]
      BY <1>1, <1>3 DEF Round
    <2>2. Rest(s, p) \in 1..(Len(s) + 1)
      <3>1. Rest(s, p) \in (p + 1)..(Len(s) + 1) /\ p \in Nat /\ Len(s) \in Nat
        BY <1>3, RestFacts
      <3> QED
        BY <3>1
    <2>3. Rounds(s)[Rest(s, p)] \in Seq(Seq(STRING))
      BY <2>2, RoundsType
    <2>4. PICK t : t = Token(s, p)
      OBVIOUS
    <2>5. PICK r : r = Rounds(s)[Rest(s, p)]
      OBVIOUS
    <2>6. PICK u : u = Rounds(s)[p]
      OBVIOUS
    <2>7. u = <<t>> \o r /\ r \in Seq(Seq(STRING))
      BY <2>1, <2>3, <2>4, <2>5, <2>6
    <2>8. Len(u) = 1 + Len(r) /\ u[1] = t /\ (Len(u) > 1 => u[2] = r[1])
      BY <2>7
    <2> QED
      BY <1>1, <1>3, <2>2, <2>4, <2>5, <2>6, <2>8
  <1> QED
    BY <1>2, <1>3

\* The loop makes exactly two rounds.
TwoRounds(s) ==
  /\ ~ (first_not(s, 1) > Len(s))
  /\ ~ (first_not(s, Rest(s, 1)) > Len(s))
  /\ first_not(s, Rest(s, Rest(s, 1))) > Len(s)

LEMMA SplitTwo ==
  ASSUME NEW s \in Seq(STRING)
  PROVE  /\ Len(split(s)) = 2 <=> TwoRounds(s)
         /\ TwoRounds(s) => /\ split(s)[1] = Token(s, 1)
                            /\ split(s)[2] = Token(s, Rest(s, 1))
  <1> DEFINE R == Rounds(s)
             b == Rest(s, 1)
             d == Rest(s, b)
             N == Len(s)
  <1>1. split(s) = R[1] /\ 1 \in 1..(N + 1)
    BY SplitIsRounds
  <1>2. ASSUME NEW p \in 1..(N + 1)
        PROVE  /\ R[p] \in Seq(Seq(STRING)) /\ Len(R[p]) \in Nat
               /\ first_not(s, p) > N => Len(R[p]) = 0
               /\ ~ (first_not(s, p) > N) =>
                    /\ Rest(s, p) \in 1..(N + 1)
                    /\ Len(R[p]) = 1 + Len(R[Rest(s, p)])
                    /\ R[p][1] = Token(s, p)
                    /\ Len(R[p]) > 1 => R[p][2] = R[Rest(s, p)][1]
    <2>1. R[p] \in Seq(Seq(STRING))
      BY RoundAdds
    <2>2. Len(R[p]) \in Nat
      <3> HIDE DEF R
      <3> QED
        BY <2>1
    <2> QED
      BY <2>1, <2>2, RoundAdds
  <1> HIDE DEF R, N
  <1>3. CASE first_not(s, 1) > N
    <2>1. Len(R[1]) = 0
      BY <1>1, <1>2, <1>3
    <2> QED
      BY <1>1, <1>3, <2>1 DEF TwoRounds, N
  <1>4. CASE ~ (first_not(s, 1) > N) /\ first_not(s, b) > N
    <2>1. b \in 1..(N + 1) /\ Len(R[1]) = 1 + Len(R[b])
      BY <1>1, <1>2, <1>4
    <2>2. Len(R[b]) = 0
      BY <1>2, <1>4, <2>1
    <2> QED
      BY <1>1, <1>4, <2>1, <2>2 DEF TwoRounds, N
  <1>5. CASE ~ (first_not(s, 1) > N) /\ ~ (first_not(s, b) > N)
    <2>1. /\ b \in 1..(N + 1) /\ Len(R[1]) = 1 + Len(R[b])
          /\ R[1][1] = Token(s, 1) /\ (Len(R[1]) > 1 => R[1][2] = R[b][1])
      BY <1>1, <1>2, <1>5
    <2>2. d \in 1..(N + 1) /\ Len(R[b]) = 1 + Len(R[d]) /\ R[b][1] = Token(s, b)
      BY <1>2, <1>5, <2>1
    <2>3. /\ Len(R[d]) \in Nat
          /\ first_not(s, d) > N => Len(R[d]) = 0
          /\ ~ (first_not(s, d) > N) =>
               Rest(s, d) \in 1..(N + 1) /\ Len(R[d]) = 1 + Len(R[Rest(s, d)])
      BY <1>2, <2>2
    <2>4. ~ (first_not(s, d) > N) => Len(R[d]) >= 1
      <3>1. \A q \in 1..(N + 1) : Len(R[q]) \in Nat
        BY <1>2
      <3> HIDE DEF d
      <3> QED
        BY <2>3, <3>1
    <2>5. Len(R[1]) = 2 + Len(R[d])
      BY <2>1, <2>2, <2>3
    <2>6. Len(R[1]) = 2 <=> first_not(s, d) > N
      BY <2>3, <2>4, <2>5
    <2>7. Len(R[1]) > 1
      BY <2>3, <2>5
    <2>8. TwoRounds(s) <=> first_not(s, d) > N
      BY <1>5 DEF TwoRounds, N
    <2> QED
      BY <1>1, <2>1, <2>2, <2>6, <2>7, <2>8
  <1> QED
    BY <1>3, <1>4, <1>5

-----------------------------------------------------------------------------
(* The tokens of a line are its pieces.                                    *)

IsPiece(s, u, v) ==
  /\ u \in 1..Len(s) /\ v \in u..Len(s)
  /\ \A j \in u..v : s[j] # "="
  /\ u = 1 \/ s[u - 1] = "="
  /\ v = Len(s) \/ s[v + 1] = "="

\* Where a round may begin.
AtSep(s, p) == p \in 1..(Len(s) + 1) /\ (p = 1 \/ p = Len(s) + 1 \/ s[p] = "=")

LEMMA TokenIsPiece ==
  ASSUME NEW s \in Seq(STRING), NEW p, AtSep(s, p), ~ (first_not(s, p) > Len(s))
  PROVE  /\ IsPiece(s, first_not(s, p), Rest(s, p) - 1)
         /\ AtSep(s, Rest(s, p)) /\ Rest(s, p) > first_not(s, p) /\ first_not(s, p) >= p
         /\ p \in Nat /\ first_not(s, p) \in Nat /\ Rest(s, p) \in Nat
  <1>1. p \in 1..(Len(s) + 1) /\ Len(s) \in Nat /\ (p = 1 \/ p = Len(s) + 1 \/ s[p] = "=")
    BY DEF AtSep
  <1>2. PICK a : a = first_not(s, p)
    OBVIOUS
  <1>3. PICK b : b = find(s, a)
    OBVIOUS
  <1>4. /\ a \in p..(Len(s) + 1) /\ a <= Len(s) /\ s[a] # "="
        /\ \A j \in p..(a - 1) : s[j] = "="
    BY <1>1, <1>2, FirstNotFacts
  <1>5. a \in 1..(Len(s) + 1)
    BY <1>1, <1>4
  <1>6. /\ b \in a..(Len(s) + 1)
        /\ \A j \in a..(b - 1) : s[j] # "="
        /\ b <= Len(s) => s[b] = "="
    BY <1>3, <1>5, FindFacts
  <1>7. b > a /\ b \in Nat /\ a \in Nat
    BY <1>1, <1>4, <1>6
  <1>8. a = 1 \/ s[a - 1] = "="
    <2>1. CASE a = p
      BY <1>1, <1>4, <2>1
    <2>2. CASE a > p
      BY <1>1, <1>4, <2>2
    <2> QED
      BY <1>1, <1>4, <2>1, <2>2
  <1>9. b - 1 = Len(s) \/ s[(b - 1) + 1] = "="
    <2>1. (b - 1) + 1 = b
      BY <1>7
    <2> QED
      BY <1>1, <1>6, <1>7, <2>1
  <1>10. a \in 1..Len(s) /\ b - 1 \in a..Len(s)
    BY <1>1, <1>4, <1>6, <1>7
  <1>11. IsPiece(s, a, b - 1)
    BY <1>6, <1>8, <1>9, <1>10 DEF IsPiece
  <1>12. AtSep(s, b)
    BY <1>1, <1>6, <1>7 DEF AtSep
  <1>13. Rest(s, p) = b
    BY <1>2, <1>3 DEF Rest
  <1> QED
    BY <1>1, <1>2, <1>4, <1>7, <1>11, <1>12, <1>13

\* The first piece from p on is the token of the round, the next one comes
\* after it.
LEMMA PieceIsToken ==
  ASSUME NEW s \in Seq(STRING), NEW p, AtSep(s, p), NEW u, NEW v, IsPiece(s, u, v), u >= p
  PROVE  /\ ~ (first_not(s, p) > Len(s))
         /\ \/ u = first_not(s, p) /\ v = Rest(s, p) - 1
            \/ u > Rest(s, p)
  <1>1. /\ u \in 1..Len(s) /\ v \in u..Len(s) /\ Len(s) \in Nat /\ p \in 1..(Len(s) + 1)
        /\ \A j \in u..v : s[j] # "="
        /\ u = 1 \/ s[u - 1] = "="
        /\ v = Len(s) \/ s[v + 1] = "="
    BY DEF IsPiece, AtSep
  <1>2. PICK a : a = first_not(s, p)
    OBVIOUS
  <1>3. /\ a \in p..(Len(s) + 1) /\ (a <= Len(s) => s[a] # "=")
        /\ \A j \in p..(a - 1) : s[j] = "="
    BY <1>1, <1>2, FirstNotFacts
  <1>4. s[u] # "=" /\ u \in Nat /\ v \in Nat /\ a \in Nat
    BY <1>1, <1>3
  <1>5. u >= a
    <2>1. CASE u < a
      <3>1. u \in p..(a - 1)
        BY <1>1, <1>3, <2>1
      <3> QED
        BY <1>3, <1>4, <3>1
    <2> QED
      BY <1>4, <2>1
  <1>6. ~ (a > Len(s)) /\ a \in 1..(Len(s) + 1)
    BY <1>1, <1>3, <1>4, <1>5
  <1>7. PICK b : b = find(s, a)
    OBVIOUS
  <1>8. /\ b \in a..(Len(s) + 1)
        /\ \A j \in a..(b - 1) : s[j] # "="
        /\ b <= Len(s) => s[b] = "="
    BY <1>6, <1>7, FindFacts
  <1>9. b \in Nat /\ b > a
    BY <1>1, <1>3, <1>6, <1>8
  <1>10. CASE u = a
    <2>1. ~ (v >= b)
      <3> SUFFICES ASSUME v >= b PROVE FALSE
        OBVIOUS
      <3>1. b \in u..v /\ b <= Len(s)
        BY <1>1, <1>4, <1>9, <1>10
      <3> QED
        BY <1>1, <1>8, <3>1
    <2>2. ~ (v < b - 1)
      <3> SUFFICES ASSUME v < b - 1 PROVE FALSE
        OBVIOUS
      <3>1. v + 1 \in a..(b - 1) /\ v # Len(s)
        BY <1>1, <1>4, <1>8, <1>9, <1>10
      <3> QED
        BY <1>1, <1>8, <3>1
    <2>3. v = b - 1
      BY <1>4, <1>9, <2>1, <2>2
    <2> QED
      BY <1>2, <1>6, <1>7, <1>10, <2>3 DEF Rest
  <1>11. CASE u > a
    <2>1. ~ (u <= b)
      <3> SUFFICES ASSUME u <= b PROVE FALSE
        OBVIOUS
      <3>1. u - 1 \in a..(b - 1) /\ u # 1
        BY <1>4, <1>6, <1>9, <1>11
      <3> QED
        BY <1>1, <1>8, <3>1
    <2>2. u > b
      BY <1>4, <1>9, <2>1
    <2> QED
      BY <1>2, <1>6, <1>7, <2>2 DEF Rest
  <1> QED
    BY <1>4, <1>5, <1>10, <1>11

\* at lists the pieces of s from p on, in their order, and t holds their text.
Lists(s, p, t, at) ==
  /\ t \in Seq(Seq(STRING)) /\ at \in Seq(Nat \X Nat) /\ Len(t) = Len(at)
  /\ \A k \in 1..Len(at) : /\ IsPiece(s, at[k][1], at[k][2]) /\ at[k][1] >= p
                           /\ t[k] = SubSeq(s, at[k][1], at[k][2])
  /\ \A j, k \in 1..Len(at) : j < k => at[j][1] < at[k][1]
  /\ \A u, v \in Nat : IsPiece(s, u, v) /\ u >= p => \E k \in 1..Len(at) : at[k] = <<u, v>>

LEMMA PrependFacts ==
  ASSUME NEW S, NEW e \in S, NEW q \in Seq(S)
  PROVE  /\ <<e>> \o q \in Seq(S) /\ Len(<<e>> \o q) = Len(q) + 1 /\ (<<e>> \o q)[1] = e
         /\ \A k \in 2..(Len(q) + 1) : (<<e>> \o q)[k] = q[k - 1] /\ k - 1 \in 1..Len(q)
  OBVIOUS

LEMMA RoundLists ==
  ASSUME NEW s \in Seq(STRING), NEW p, AtSep(s, p), ~ (first_not(s, p) > Len(s)),
         NEW t, NEW at, Lists(s, Rest(s, p), t, at)
  PROVE  \E more : Lists(s, p, <<Token(s, p)>> \o t, more)
  <1>1. PICK a : a = first_not(s, p)
    OBVIOUS
  <1>2. PICK r : r = Rest(s, p)
    OBVIOUS
  <1>3. /\ IsPiece(s, a, r - 1) /\ AtSep(s, r) /\ r > a /\ a >= p
        /\ p \in Nat /\ a \in Nat /\ r \in Nat
    BY <1>1, <1>2, TokenIsPiece
  <1>4. Token(s, p) = SubSeq(s, a, r - 1)
    BY <1>1, <1>2 DEF Token, Rest
  <1>5. SubSeq(s, a, r - 1) \in Seq(STRING)
    <2>1. a \in 1..(Len(s) + 1) /\ r - 1 \in (a - 1)..Len(s)
      BY <1>3 DEF IsPiece
    <2> QED
      BY <2>1, PartFacts
  <1>6. PICK c : c = SubSeq(s, a, r - 1)
    OBVIOUS
  <1>7. PICK e : e = <<a, r - 1>>
    OBVIOUS
  <1>8. e \in Nat \X Nat /\ e[1] = a /\ e[2] = r - 1
    BY <1>3, <1>7
  <1>9. /\ t \in Seq(Seq(STRING)) /\ at \in Seq(Nat \X Nat) /\ Len(t) = Len(at)
        /\ \A k \in 1..Len(at) : /\ IsPiece(s, at[k][1], at[k][2]) /\ at[k][1] >= r
                                 /\ t[k] = SubSeq(s, at[k][1], at[k][2])
        /\ \A j, k \in 1..Len(at) : j < k => at[j][1] < at[k][1]
        /\ \A u, v \in Nat : IsPiece(s, u, v) /\ u >= r => \E k \in 1..Len(at) : at[k] = <<u, v>>
    BY <1>2 DEF Lists
  <1>10. PICK w : w = <<e>> \o at
    OBVIOUS
  <1>11. PICK z : z = <<c>> \o t
    OBVIOUS
  <1>12. /\ w \in Seq(Nat \X Nat) /\ Len(w) = Len(at) + 1 /\ w[1] = e
         /\ \A k \in 2..Len(w) : w[k] = at[k - 1] /\ k - 1 \in 1..Len(at)
    BY <1>8, <1>9, <1>10, PrependFacts
  <1>13. /\ z \in Seq(Seq(STRING)) /\ Len(z) = Len(t) + 1 /\ z[1] = c
         /\ \A k \in 2..Len(z) : z[k] = t[k - 1] /\ k - 1 \in 1..Len(t)
    <2>1. c \in Seq(STRING) /\ t \in Seq(Seq(STRING))
      BY <1>5, <1>6, <1>9
    <2> QED
      BY <1>11, <2>1, PrependFacts
  <1>14. Len(z) = Len(w) /\ Len(w) \in Nat /\ Len(at) \in Nat
    BY <1>9, <1>12, <1>13
  <1>15. \A k \in 1..Len(at) : at[k][1] \in Nat
    BY <1>9
  <1>16. ASSUME NEW k \in 1..Len(w)
         PROVE  /\ IsPiece(s, w[k][1], w[k][2]) /\ w[k][1] >= p
                /\ z[k] = SubSeq(s, w[k][1], w[k][2])
    <2>1. CASE k = 1
      BY <1>3, <1>6, <1>8, <1>12, <1>13, <2>1
    <2>2. CASE k # 1
      <3>1. k \in 2..Len(w) /\ k \in 2..Len(z)
        BY <1>14, <2>2
      <3>2. w[k] = at[k - 1] /\ k - 1 \in 1..Len(at) /\ z[k] = t[k - 1]
        BY <1>12, <1>13, <3>1
      <3>3. at[k - 1][1] >= r /\ at[k - 1][1] \in Nat
        BY <1>9, <1>15, <3>2
      <3>4. at[k - 1][1] >= p
        BY <1>3, <3>3
      <3> QED
        BY <1>9, <3>2, <3>4
    <2> QED
      BY <2>1, <2>2
  <1>17. ASSUME NEW j \in 1..Len(w), NEW k \in 1..Len(w), j < k
         PROVE  w[j][1] < w[k][1]
    <2>1. k \in 2..Len(w)
      BY <1>14, <1>17
    <2>2. w[k] = at[k - 1] /\ k - 1 \in 1..Len(at)
      BY <1>12, <2>1
    <2>3. CASE j = 1
      <3>1. at[k - 1][1] >= r /\ at[k - 1][1] \in Nat
        BY <1>9, <1>15, <2>2
      <3>2. w[j][1] = a /\ w[k][1] = at[k - 1][1]
        BY <1>8, <1>12, <2>2, <2>3
      <3>3. a < at[k - 1][1]
        BY <1>3, <3>1
      <3> QED
        BY <3>2, <3>3
    <2>4. CASE j # 1
      <3>1. j \in 2..Len(w) /\ j - 1 < k - 1
        BY <1>14, <1>17, <2>4
      <3>2. w[j] = at[j - 1] /\ j - 1 \in 1..Len(at)
        BY <1>12, <3>1
      <3> QED
        BY <1>9, <2>2, <3>1, <3>2
    <2> QED
      BY <2>3, <2>4
  <1>18. ASSUME NEW u \in Nat, NEW v \in Nat, IsPiece(s, u, v), u >= p
         PROVE  \E k \in 1..Len(w) : w[k] = <<u, v>>
    <2>1. (u = a /\ v = r - 1) \/ u > r
      BY <1>1, <1>2, <1>18, PieceIsToken
    <2>2. CASE u = a /\ v = r - 1
      <3>1. w[1] = <<u, v>> /\ 1 \in 1..Len(w)
        BY <1>7, <1>12, <1>14, <2>2
      <3> QED
        BY <3>1
    <2>3. CASE u > r
      <3>1. u >= r
        BY <1>3, <2>3
      <3>2. PICK k \in 1..Len(at) : at[k] = <<u, v>>
        BY <1>9, <1>18, <3>1
      <3>3. k + 1 \in 2..Len(w) /\ (k + 1) - 1 = k /\ k + 1 \in 1..Len(w)
        <4>1. Len(w) = Len(at) + 1
          BY <1>12
        <4> QED
          BY <1>14, <4>1
      <3>4. w[k + 1] = <<u, v>>
        BY <1>12, <3>2, <3>3
      <3> QED
        BY <3>3, <3>4
    <2> QED
      BY <2>1, <2>2, <2>3
  <1>19. Lists(s, p, z, w)
    BY <1>12, <1>13, <1>14, <1>16, <1>17, <1>18 DEF Lists
  <1> QED
    BY <1>4, <1>6, <1>11, <1>19

\* split returns the longest parts of s without '=', all of them and in their
\* order, for every text (configReader.cpp lines 3-20).
THEOREM SplitCorrect ==
  \A s \in Seq(STRING) : \E at : Lists(s, 1, split(s), at)
  <1> SUFFICES ASSUME NEW s \in Seq(STRING) PROVE \E at : Lists(s, 1, split(s), at)
    OBVIOUS
  <1> DEFINE N == Len(s) + 1
             G == {k \in 1..N : AtSep(s, k) => \E at : Lists(s, k, Rounds(s)[k], at)}
  <1>1. N \in Nat \ {0} /\ Len(s) \in Nat
    OBVIOUS
  <1>2. ASSUME NEW k \in 1..N, \A j \in (k + 1)..N : j \in G, AtSep(s, k)
        PROVE  \E at : Lists(s, k, Rounds(s)[k], at)
    <2>1. Rounds(s)[k] = Round(s, Rounds(s), k)
      BY RoundsFollow
    <2>2. CASE first_not(s, k) > Len(s)
      <3>1. Rounds(s)[k] = <<>>
        BY <2>1, <2>2 DEF Round
      <3>2. \A u, v \in Nat : ~ (IsPiece(s, u, v) /\ u >= k)
        BY <1>2, <2>2, PieceIsToken
      <3>3. Lists(s, k, <<>>, <<>>)
        <4>1. <<>> \in Seq(Seq(STRING)) /\ <<>> \in Seq(Nat \X Nat) /\ Len(<<>>) = 0
          OBVIOUS
        <4>2. 1..Len(<<>>) = {}
          BY <4>1
        <4> QED
          BY <3>2, <4>1, <4>2 DEF Lists
      <3> QED
        BY <3>1, <3>3
    <2>3. CASE ~ (first_not(s, k) > Len(s))
      <3>1. Rounds(s)[k] = <<Token(s, k)>> \o Rounds(s)[Rest(s, k)]
        BY <2>1, <2>3 DEF Round
      <3>2. Rest(s, k) \in (k + 1)..N
        BY <2>3, RestFacts
      <3>3. AtSep(s, Rest(s, k))
        BY <1>2, <2>3, TokenIsPiece
      <3>4. PICK at : Lists(s, Rest(s, k), Rounds(s)[Rest(s, k)], at)
        BY <1>2, <3>2, <3>3
      <3> QED
        BY <1>2, <2>3, <3>1, <3>4, RoundLists
    <2> QED
      BY <2>2, <2>3
  <1>3. G = 1..N
    <2>1. G \in SUBSET (1..N)
      OBVIOUS
    <2>2. \A k \in 1..N : (\A j \in (k + 1)..N : j \in G) => k \in G
      BY <1>2
    <2> HIDE DEF G, N
    <2> QED
      BY <1>1, <2>1, <2>2, DownInduction
  <1>4. AtSep(s, 1) /\ 1 \in 1..N
    BY <1>1 DEF AtSep
  <1> QED
    BY <1>3, <1>4, SplitIsRounds

\* a..b and c..d are the two pieces of s, in their order.
TwoPieces(s, a, b, c, d) ==
  /\ IsPiece(s, a, b) /\ IsPiece(s, c, d) /\ a < c
  /\ \A u, v \in Nat : IsPiece(s, u, v) => (u = a /\ v = b) \/ (u = c /\ v = d)

LEMMA TwoRoundsTwoPieces ==
  ASSUME NEW s \in Seq(STRING), TwoRounds(s)
  PROVE  TwoPieces(s, first_not(s, 1), Rest(s, 1) - 1,
                   first_not(s, Rest(s, 1)), Rest(s, Rest(s, 1)) - 1)
  <1> DEFINE b == Rest(s, 1)
             d == Rest(s, b)
             a == first_not(s, 1)
             c == first_not(s, b)
  <1>1. ~ (a > Len(s)) /\ ~ (c > Len(s)) /\ first_not(s, d) > Len(s)
    BY DEF TwoRounds
  <1>2. AtSep(s, 1)
    BY DEF AtSep
  <1>3. IsPiece(s, a, b - 1) /\ AtSep(s, b) /\ b > a /\ a \in Nat /\ b \in Nat
    BY <1>1, <1>2, TokenIsPiece
  <1> HIDE DEF a, b
  <1>4. IsPiece(s, c, d - 1) /\ AtSep(s, d) /\ d > c /\ c >= b /\ c \in Nat /\ d \in Nat
    BY <1>1, <1>3, TokenIsPiece
  <1> HIDE DEF c, d
  <1>5. ASSUME NEW u \in Nat, NEW v \in Nat, IsPiece(s, u, v)
        PROVE  (u = a /\ v = b - 1) \/ (u = c /\ v = d - 1)
    <2>1. u >= 1
      BY <1>5 DEF IsPiece
    <2>2. (u = a /\ v = b - 1) \/ u > b
      BY <1>2, <1>5, <2>1, PieceIsToken DEF a, b
    <2>3. u > b => (u = c /\ v = d - 1) \/ u > d
      <3> SUFFICES ASSUME u > b PROVE (u = c /\ v = d - 1) \/ u > d
        OBVIOUS
      <3>1. u >= b
        BY <1>3
      <3> QED
        BY <1>3, <1>5, <3>1, PieceIsToken DEF c, d
    <2>4. ~ (u > d)
      <3> SUFFICES ASSUME u > d PROVE FALSE
        OBVIOUS
      <3>1. u >= d
        BY <1>4
      <3> QED
        BY <1>1, <1>4, <1>5, <3>1, PieceIsToken
    <2> QED
      BY <2>2, <2>3, <2>4
  <1>6. a < c
    BY <1>3, <1>4
  <1> QED
    BY <1>3, <1>4, <1>5, <1>6 DEF TwoPieces, a, b, c, d

LEMMA TwoPiecesTwoRounds ==
  ASSUME NEW s \in Seq(STRING), NEW a \in Nat, NEW b \in Nat, NEW c \in Nat, NEW d \in Nat,
         TwoPieces(s, a, b, c, d)
  PROVE  /\ TwoRounds(s)
         /\ a = first_not(s, 1) /\ b = Rest(s, 1) - 1
         /\ c = first_not(s, Rest(s, 1)) /\ d = Rest(s, Rest(s, 1)) - 1
  <1>1. /\ IsPiece(s, a, b) /\ IsPiece(s, c, d) /\ a < c
        /\ \A u, v \in Nat : IsPiece(s, u, v) => (u = a /\ v = b) \/ (u = c /\ v = d)
    BY DEF TwoPieces
  <1>2. AtSep(s, 1) /\ a >= 1 /\ c >= 1
    BY <1>1 DEF AtSep, IsPiece
  <1>3. PICK p : p = Rest(s, 1)
    OBVIOUS
  <1>4. PICK f : f = first_not(s, 1)
    OBVIOUS
  <1>5. ~ (f > Len(s)) /\ ((a = f /\ b = p - 1) \/ a > p)
    BY <1>1, <1>2, <1>3, <1>4, PieceIsToken
  <1>6. (c = f /\ d = p - 1) \/ c > p
    BY <1>1, <1>2, <1>3, <1>4, PieceIsToken
  <1>7. IsPiece(s, f, p - 1) /\ AtSep(s, p) /\ p > f /\ f \in Nat /\ p \in Nat
    BY <1>2, <1>3, <1>4, <1>5, TokenIsPiece
  <1>8. p - 1 \in Nat /\ Len(s) \in Nat
    BY <1>7
  <1>9. a = f /\ b = p - 1 /\ c > p
    <2>1. (f = a /\ p - 1 = b) \/ (f = c /\ p - 1 = d)
      BY <1>1, <1>7, <1>8
    <2> QED
      BY <1>1, <1>5, <1>6, <1>7, <2>1
  <1>10. PICK q : q = Rest(s, p)
    OBVIOUS
  <1>11. PICK g : g = first_not(s, p)
    OBVIOUS
  <1>12. ~ (g > Len(s)) /\ ((c = g /\ d = q - 1) \/ c > q)
    <2>1. c >= p
      BY <1>7, <1>9
    <2> QED
      BY <1>1, <1>7, <1>10, <1>11, <2>1, PieceIsToken
  <1>13. /\ IsPiece(s, g, q - 1) /\ AtSep(s, q) /\ q > g /\ g >= p
         /\ g \in Nat /\ q \in Nat
    BY <1>7, <1>10, <1>11, <1>12, TokenIsPiece
  <1>14. c = g /\ d = q - 1
    <2>1. q - 1 \in Nat
      BY <1>13
    <2>2. (g = a /\ q - 1 = b) \/ (g = c /\ q - 1 = d)
      BY <1>1, <1>13, <2>1
    <2> QED
      BY <1>7, <1>9, <1>13, <2>2
  <1>15. first_not(s, q) > Len(s)
    <2> SUFFICES ASSUME ~ (first_not(s, q) > Len(s)) PROVE FALSE
      OBVIOUS
    <2>1. PICK h : h = first_not(s, q)
      OBVIOUS
    <2>2. PICK r : r = Rest(s, q)
      OBVIOUS
    <2>3. IsPiece(s, h, r - 1) /\ h >= q /\ r > h /\ h \in Nat /\ r \in Nat
      BY <1>13, <2>1, <2>2, TokenIsPiece
    <2>4. r - 1 \in Nat
      BY <2>3
    <2>5. h = a \/ h = c
      BY <1>1, <2>3, <2>4
    <2> QED
      BY <1>7, <1>9, <1>13, <1>14, <2>3, <2>5
  <1>16. TwoRounds(s)
    BY <1>3, <1>4, <1>5, <1>10, <1>11, <1>12, <1>15 DEF TwoRounds
  <1> QED
    BY <1>3, <1>4, <1>9, <1>10, <1>11, <1>14, <1>16

LEMMA MaxFacts ==
  ASSUME NEW n \in Nat, NEW S \in SUBSET (0..n), S # {}
  PROVE  Max(S) \in S /\ \A y \in S : y <= Max(S)
  <1> DEFINE T == {k \in 0..n : n - k \in S}
  <1>1. T \in SUBSET Nat /\ T # {}
    <2>1. PICK y \in S : TRUE
      OBVIOUS
    <2>2. n - y \in 0..n /\ n - (n - y) = y
      OBVIOUS
    <2>3. n - y \in T
      BY <2>2
    <2>4. \A k \in T : k \in Nat
      OBVIOUS
    <2> HIDE DEF T
    <2> QED
      BY <2>3, <2>4
  <1>2. Min(T) \in T /\ \A k \in T : Min(T) <= k
    <2> HIDE DEF T
    <2> QED
      BY <1>1, MinFacts
  <1>3. PICK x \in S : x = n - Min(T)
    BY <1>2
  <1>4. ASSUME NEW y \in S PROVE y <= x
    <2>1. n - y \in 0..n /\ n - (n - y) = y
      OBVIOUS
    <2>2. n - y \in T
      BY <2>1
    <2>3. Min(T) <= n - y /\ Min(T) \in 0..n
      BY <1>2, <2>2
    <2> HIDE DEF T
    <2> QED
      BY <1>3, <2>3
  <1>5. \E z \in S : \A y \in S : z >= y
    <2>1. \A y \in S : x >= y
      BY <1>4
    <2> QED
      BY <2>1
  <1> QED
    BY <1>5 DEF Max

\* trim removes the spaces at both ends and nothing else: the result is a part
\* of s that neither begins nor ends with one, and outside of it there are only
\* spaces; of a text of spaces nothing remains (configReader.cpp lines 22-31).
THEOREM TrimCorrect ==
  \A s \in Seq(STRING) :
    IF \A j \in 1..Len(s) : s[j] = " " THEN trim(s) = <<>>
    ELSE \E a, b \in 1..Len(s) :
           /\ a <= b /\ s[a] # " " /\ s[b] # " "
           /\ \A j \in 1..Len(s) : j < a \/ j > b => s[j] = " "
           /\ trim(s) = SubSeq(s, a, b)
  <1> SUFFICES ASSUME NEW s \in Seq(STRING)
               PROVE  IF \A j \in 1..Len(s) : s[j] = " " THEN trim(s) = <<>>
                      ELSE \E a, b \in 1..Len(s) :
                             /\ a <= b /\ s[a] # " " /\ s[b] # " "
                             /\ \A j \in 1..Len(s) : j < a \/ j > b => s[j] = " "
                             /\ trim(s) = SubSeq(s, a, b)
    OBVIOUS
  <1> DEFINE ink == {j \in 1..Len(s) : s[j] # " "}
  <1>1. CASE \A j \in 1..Len(s) : s[j] = " "
    <2>1. ink = {}
      BY <1>1
    <2> QED
      BY <1>1, <2>1 DEF trim
  <1>2. CASE ~ (\A j \in 1..Len(s) : s[j] = " ")
    <2>1. ink # {} /\ ink \in SUBSET Nat /\ ink \in SUBSET (0..Len(s)) /\ Len(s) \in Nat
      <3>1. ink # {}
        BY <1>2
      <3>2. Len(s) \in Nat
        OBVIOUS
      <3>3. ASSUME NEW j \in ink PROVE j \in Nat /\ j \in 0..Len(s)
        <4>1. j \in 1..Len(s)
          OBVIOUS
        <4> HIDE DEF ink
        <4> QED
          BY <3>2, <4>1
      <3> HIDE DEF ink
      <3> QED
        BY <3>1, <3>2, <3>3
    <2>2. /\ Min(ink) \in ink /\ \A y \in ink : Min(ink) <= y
          /\ Max(ink) \in ink /\ \A y \in ink : y <= Max(ink)
      <3> HIDE DEF ink
      <3> QED
        BY <2>1, MinFacts, MaxFacts
    <2>3. trim(s) = SubSeq(s, Min(ink), Max(ink))
      BY <2>1 DEF trim
    <2>4. PICK a \in ink : a = Min(ink) /\ \A y \in ink : a <= y
      BY <2>2
    <2>5. PICK b \in ink : b = Max(ink) /\ \A y \in ink : y <= b
      BY <2>2
    <2>6. a \in 1..Len(s) /\ b \in 1..Len(s) /\ a <= b /\ s[a] # " " /\ s[b] # " "
      BY <2>4, <2>5
    <2>7. ASSUME NEW j \in 1..Len(s), j < a \/ j > b PROVE s[j] = " "
      <3>1. ~ (a <= j /\ j <= b)
        <4> HIDE DEF ink
        <4>1. a \in 1..Len(s) /\ b \in 1..Len(s) /\ j \in 1..Len(s) /\ Len(s) \in Nat
          BY <2>1, <2>6
        <4> QED
          BY <2>7, <4>1
      <3>2. j \notin ink
        <4> HIDE DEF ink
        <4> QED
          BY <2>4, <2>5, <3>1
      <3> QED
        BY <3>2
    <2>8. trim(s) = SubSeq(s, a, b)
      BY <2>3, <2>4, <2>5
    <2> HIDE DEF ink
    <2> QED
      BY <1>2, <2>6, <2>7, <2>8
  <1> QED
    BY <1>1, <1>2

LEMMA PieceInLine ==
  ASSUME text \in Seq(STRING), NEW x \in 1..(Len(text) + 1), NEW y \in (x - 1)..Len(text),
         NEW p \in Pieces(x, y)
  PROVE  \E u, v \in Nat : /\ p = <<x + u - 1, x + v - 1>>
                           /\ IsPiece(SubSeq(text, x, y), u, v)
  <1>1. /\ p \in (x..y) \X (x..y) /\ p[1] <= p[2]
        /\ \A j \in p[1]..p[2] : text[j] # "="
        /\ p[1] = x \/ text[p[1] - 1] = "="
        /\ p[2] = y \/ text[p[2] + 1] = "="
    BY DEF Pieces, Bounds
  <1>2. p = <<p[1], p[2]>> /\ p[1] \in x..y /\ p[2] \in x..y
    BY <1>1
  <1>3. PICK s : s = SubSeq(text, x, y)
    OBVIOUS
  <1>4. /\ s \in Seq(STRING) /\ Len(s) = y - x + 1
        /\ \A i \in 1..(y - x + 1) : s[i] = text[x + i - 1]
    BY <1>3, PartFacts
  <1>5. PICK u : u = p[1] - x + 1
    OBVIOUS
  <1>6. PICK v : v = p[2] - x + 1
    OBVIOUS
  <1>7. PICK m \in Nat : m = p[1]
    BY <1>2
  <1>8. PICK n \in Nat : n = p[2]
    BY <1>2
  <1>9. x \in Nat /\ y \in Int /\ u = m - x + 1 /\ v = n - x + 1 /\ x <= m /\ m <= n /\ n <= y
    BY <1>1, <1>2, <1>5, <1>6, <1>7, <1>8
  <1>10. u \in 1..Len(s) /\ v \in u..Len(s)
    BY <1>4, <1>9
  <1>11. ASSUME NEW j \in u..v PROVE s[j] # "="
    <2>1. j \in 1..(y - x + 1) /\ x + j - 1 \in m..n
      BY <1>9
    <2> QED
      BY <1>1, <1>4, <1>7, <1>8, <2>1
  <1>12. u = 1 \/ s[u - 1] = "="
    <2>1. CASE m = x
      BY <1>9, <2>1
    <2>2. CASE m # x
      <3>1. u - 1 \in 1..(y - x + 1) /\ x + (u - 1) - 1 = m - 1
        BY <1>9, <2>2
      <3> QED
        BY <1>1, <1>4, <1>7, <2>2, <3>1
    <2> QED
      BY <2>1, <2>2
  <1>13. v = Len(s) \/ s[v + 1] = "="
    <2>1. CASE n = y
      BY <1>4, <1>9, <2>1
    <2>2. CASE n # y
      <3>1. v + 1 \in 1..(y - x + 1) /\ x + (v + 1) - 1 = n + 1
        BY <1>9, <2>2
      <3> QED
        BY <1>1, <1>4, <1>8, <2>2, <3>1
    <2> QED
      BY <2>1, <2>2
  <1>14. IsPiece(s, u, v) /\ u \in Nat /\ v \in Nat
    BY <1>10, <1>11, <1>12, <1>13 DEF IsPiece
  <1>15. m = x + u - 1 /\ n = x + v - 1
    BY <1>9
  <1>16. p = <<x + u - 1, x + v - 1>>
    BY <1>2, <1>7, <1>8, <1>15
  <1> QED
    BY <1>3, <1>14, <1>16

LEMMA PieceOfLine ==
  ASSUME text \in Seq(STRING), NEW x \in 1..(Len(text) + 1), NEW y \in (x - 1)..Len(text),
         NEW u \in Nat, NEW v \in Nat, IsPiece(SubSeq(text, x, y), u, v)
  PROVE  /\ <<x + u - 1, x + v - 1>> \in Pieces(x, y)
         /\ SubSeq(SubSeq(text, x, y), u, v) = SubSeq(text, x + u - 1, x + v - 1)
  <1>1. PICK s : s = SubSeq(text, x, y)
    OBVIOUS
  <1>2. /\ s \in Seq(STRING) /\ Len(s) = y - x + 1
        /\ \A i \in 1..(y - x + 1) : s[i] = text[x + i - 1]
    BY <1>1, PartFacts
  <1>3. /\ u \in 1..Len(s) /\ v \in u..Len(s)
        /\ \A j \in u..v : s[j] # "="
        /\ u = 1 \/ s[u - 1] = "="
        /\ v = Len(s) \/ s[v + 1] = "="
    BY <1>1 DEF IsPiece
  <1>4. PICK m : m = x + u - 1
    OBVIOUS
  <1>5. PICK n : n = x + v - 1
    OBVIOUS
  <1>6. m \in x..y /\ n \in x..y /\ m <= n /\ x \in Nat /\ y \in Nat
    BY <1>2, <1>3, <1>4, <1>5
  <1>7. ASSUME NEW j \in m..n PROVE text[j] # "="
    <2>1. /\ j - x + 1 \in u..v /\ j - x + 1 \in 1..(y - x + 1)
          /\ x + (j - x + 1) - 1 = j
      BY <1>4, <1>5, <1>6
    <2> QED
      BY <1>2, <1>3, <2>1
  <1>8. m = x \/ text[m - 1] = "="
    <2>1. CASE u = 1
      BY <1>4, <2>1
    <2>2. CASE u # 1
      <3>1. u - 1 \in 1..(y - x + 1) /\ x + (u - 1) - 1 = m - 1
        BY <1>2, <1>3, <1>4, <2>2
      <3> QED
        BY <1>2, <1>3, <2>2, <3>1
    <2> QED
      BY <2>1, <2>2
  <1>9. n = y \/ text[n + 1] = "="
    <2>1. CASE v = Len(s)
      BY <1>2, <1>5, <2>1
    <2>2. CASE v # Len(s)
      <3>1. v + 1 \in 1..(y - x + 1) /\ x + (v + 1) - 1 = n + 1
        BY <1>2, <1>3, <1>5, <2>2
      <3> QED
        BY <1>2, <1>3, <2>2, <3>1
    <2> QED
      BY <2>1, <2>2
  <1>10. <<m, n>> \in Pieces(x, y)
    <2>1. <<m, n>> \in (x..y) \X (x..y) /\ <<m, n>>[1] = m /\ <<m, n>>[2] = n
      BY <1>6
    <2>2. m <= n + 1
      BY <1>6
    <2> QED
      BY <1>6, <1>7, <1>8, <1>9, <2>1, <2>2 DEF Pieces, Bounds
  <1>11. SubSeq(SubSeq(text, x, y), u, v) = SubSeq(text, x + u - 1, x + v - 1)
    <2>1. 1 <= u /\ u <= v /\ v <= y - x + 1
      BY <1>2, <1>3
    <2> QED
      BY <2>1, PartOfPart
  <1> QED
    BY <1>4, <1>5, <1>10, <1>11

\* The key and the value of a line, as positions.
Pairs(l) ==
  {r \in Pieces(l[1], l[2]) \X Pieces(l[1], l[2]) :
     r[1][1] < r[2][1] /\ Pieces(l[1], l[2]) = {r[1], r[2]}}

\* What split and trim make of a line.
TheItem(x, s) == [at |-> x, key |-> trim(Token(s, 1)), value |-> trim(Token(s, Rest(s, 1)))]

LEMMA PairTwoRounds ==
  ASSUME text \in Seq(STRING), NEW x \in 1..(Len(text) + 1), NEW y \in (x - 1)..Len(text),
         NEW r \in Pairs(<<x, y>>)
  PROVE  /\ TwoRounds(SubSeq(text, x, y))
         /\ Word(r[1]) = trim(Token(SubSeq(text, x, y), 1))
         /\ Word(r[2]) = trim(Token(SubSeq(text, x, y), Rest(SubSeq(text, x, y), 1)))
  <1>1. PICK s : s = SubSeq(text, x, y)
    OBVIOUS
  <1>2. s \in Seq(STRING)
    BY <1>1, PartFacts
  <1>3. /\ r[1] \in Pieces(x, y) /\ r[2] \in Pieces(x, y) /\ r[1][1] < r[2][1]
        /\ \A p \in Pieces(x, y) : p = r[1] \/ p = r[2]
    BY DEF Pairs
  <1>4. PICK a \in Nat, b \in Nat :
          /\ r[1] = <<x + a - 1, x + b - 1>> /\ IsPiece(s, a, b)
    BY <1>1, <1>3, PieceInLine
  <1>5. PICK c \in Nat, d \in Nat :
          /\ r[2] = <<x + c - 1, x + d - 1>> /\ IsPiece(s, c, d)
    BY <1>1, <1>3, PieceInLine
  <1>6. ASSUME NEW u \in Nat, NEW v \in Nat, IsPiece(s, u, v)
        PROVE  (u = a /\ v = b) \/ (u = c /\ v = d)
    <2>1. <<x + u - 1, x + v - 1>> \in Pieces(x, y)
      BY <1>1, <1>6, PieceOfLine
    <2>2. \/ <<x + u - 1, x + v - 1>> = <<x + a - 1, x + b - 1>>
          \/ <<x + u - 1, x + v - 1>> = <<x + c - 1, x + d - 1>>
      BY <1>3, <1>4, <1>5, <2>1
    <2>3. \/ x + u - 1 = x + a - 1 /\ x + v - 1 = x + b - 1
          \/ x + u - 1 = x + c - 1 /\ x + v - 1 = x + d - 1
      BY <2>2
    <2> QED
      BY <2>3
  <1>7. a < c
    BY <1>3, <1>4, <1>5
  <1>8. TwoPieces(s, a, b, c, d)
    BY <1>4, <1>5, <1>6, <1>7 DEF TwoPieces
  <1>9. /\ TwoRounds(s)
        /\ a = first_not(s, 1) /\ b = Rest(s, 1) - 1
        /\ c = first_not(s, Rest(s, 1)) /\ d = Rest(s, Rest(s, 1)) - 1
    BY <1>2, <1>8, TwoPiecesTwoRounds
  <1>10. Token(s, 1) = SubSeq(s, a, b) /\ Token(s, Rest(s, 1)) = SubSeq(s, c, d)
    BY <1>9 DEF Token, Rest
  <1>11. SubSeq(s, a, b) = SubSeq(text, x + a - 1, x + b - 1)
    BY <1>1, <1>4, PieceOfLine
  <1>12. SubSeq(s, c, d) = SubSeq(text, x + c - 1, x + d - 1)
    BY <1>1, <1>5, PieceOfLine
  <1>13. /\ Word(r[1]) = trim(SubSeq(text, x + a - 1, x + b - 1))
         /\ Word(r[2]) = trim(SubSeq(text, x + c - 1, x + d - 1))
    BY <1>4, <1>5 DEF Word
  <1> QED
    BY <1>1, <1>9, <1>10, <1>11, <1>12, <1>13

LEMMA TwoRoundsPair ==
  ASSUME text \in Seq(STRING), NEW x \in 1..(Len(text) + 1), NEW y \in (x - 1)..Len(text),
         TwoRounds(SubSeq(text, x, y))
  PROVE  Pairs(<<x, y>>) # {}
  <1>1. PICK s : s = SubSeq(text, x, y)
    OBVIOUS
  <1>2. s \in Seq(STRING)
    BY <1>1, PartFacts
  <1>3. PICK a, b, c, d : TwoPieces(s, a, b, c, d)
    BY <1>1, <1>2, TwoRoundsTwoPieces
  <1>4. /\ IsPiece(s, a, b) /\ IsPiece(s, c, d) /\ a < c
        /\ \A u, v \in Nat : IsPiece(s, u, v) => (u = a /\ v = b) \/ (u = c /\ v = d)
    BY <1>3 DEF TwoPieces
  <1>5. a \in Nat /\ b \in Nat /\ c \in Nat /\ d \in Nat
    BY <1>2, <1>4 DEF IsPiece
  <1> DEFINE p == <<x + a - 1, x + b - 1>>
             q == <<x + c - 1, x + d - 1>>
  <1>6. p \in Pieces(x, y) /\ q \in Pieces(x, y)
    BY <1>1, <1>4, <1>5, PieceOfLine
  <1>7. p[1] < q[1]
    BY <1>4, <1>5
  <1>8. ASSUME NEW o \in Pieces(x, y) PROVE o = p \/ o = q
    <2>1. PICK u \in Nat, v \in Nat : o = <<x + u - 1, x + v - 1>> /\ IsPiece(s, u, v)
      BY <1>1, PieceInLine
    <2>2. (u = a /\ v = b) \/ (u = c /\ v = d)
      BY <1>4, <2>1
    <2> QED
      BY <2>1, <2>2
  <1> HIDE DEF p, q
  <1>9. Pieces(x, y) = {p, q}
    BY <1>6, <1>8
  <1>10. <<p, q>> \in Pairs(<<x, y>>)
    BY <1>6, <1>7, <1>9 DEF Pairs
  <1> QED
    BY <1>10

\* split and trim find the item of a line, and none in a line that is no item.
LEMMA ItemOfLine ==
  ASSUME text \in Seq(STRING), NEW x \in 1..(Len(text) + 1), NEW y \in (x - 1)..Len(text)
  PROVE  /\ TwoRounds(SubSeq(text, x, y)) =>
              ItemsOf(<<x, y>>) = {TheItem(x, SubSeq(text, x, y))}
         /\ ~ TwoRounds(SubSeq(text, x, y)) => ItemsOf(<<x, y>>) = {}
  <1> DEFINE l == <<x, y>>
             s == SubSeq(text, x, y)
  <1>1. ItemsOf(l) = {[at |-> l[1], key |-> Word(r[1]), value |-> Word(r[2])] : r \in Pairs(l)}
    BY DEF ItemsOf, Pairs
  <1>2. l[1] = x
    OBVIOUS
  <1>3. ASSUME NEW r \in Pairs(l)
        PROVE  /\ TwoRounds(s)
               /\ [at |-> l[1], key |-> Word(r[1]), value |-> Word(r[2])] = TheItem(x, s)
    BY <1>2, PairTwoRounds DEF TheItem
  <1>4. TwoRounds(s) => Pairs(l) # {}
    BY TwoRoundsPair
  <1> HIDE DEF l, s
  <1>5. TwoRounds(s) => ItemsOf(l) = {TheItem(x, s)}
    BY <1>1, <1>3, <1>4
  <1>6. ~ TwoRounds(s) => ItemsOf(l) = {}
    BY <1>1, <1>3
  <1> QED
    BY <1>5, <1>6 DEF l, s

-----------------------------------------------------------------------------
(* The first item with a key counts.                                       *)

\* Items that start at different places.
Apart(items) ==
  /\ \A i \in items : i.at \in Nat
  /\ \A i, j \in items : i.at = j.at => i = j

IsFirst(items, k, i) ==
  /\ i \in items /\ i.key = k
  /\ \A o \in items : o.key = k => i.at <= o.at

LEMMA FirstExists ==
  ASSUME NEW items, Apart(items), NEW o \in items
  PROVE  \E i : IsFirst(items, o.key, i)
  <1> DEFINE S == {i.at : i \in {i \in items : i.key = o.key}}
  <1>1. S \in SUBSET Nat /\ S # {}
    BY DEF Apart
  <1>2. Min(S) \in S /\ \A y \in S : Min(S) <= y
    <2> HIDE DEF S
    <2> QED
      BY <1>1, MinFacts
  <1>3. PICK i \in items : i.key = o.key /\ i.at = Min(S)
    BY <1>2
  <1>4. \A j \in items : j.key = o.key => i.at <= j.at
    BY <1>2, <1>3
  <1> QED
    BY <1>3, <1>4 DEF IsFirst

LEMMA FirstIsWritten ==
  ASSUME NEW items, Apart(items), NEW k, NEW i, IsFirst(items, k, i)
  PROVE  WrittenBy(items)[k] = i.value
  <1> DEFINE P(j) == j.key = k /\ \A o \in items : o.key = k => j.at <= o.at
             c == CHOOSE j \in items : P(j)
  <1>1. i \in items /\ P(i)
    BY DEF IsFirst
  <1>2. c \in items /\ P(c)
    BY <1>1
  <1>3. i.at <= c.at /\ c.at <= i.at /\ i.at \in Nat /\ c.at \in Nat
    <2> HIDE DEF c
    <2> QED
      BY <1>1, <1>2 DEF Apart
  <1>4. c = i
    <2> HIDE DEF c
    <2> QED
      BY <1>1, <1>2, <1>3 DEF Apart
  <1>5. k \in {j.key : j \in items}
    BY <1>1
  <1>6. WrittenBy(items)[k] = c.value
    BY <1>5 DEF WrittenBy
  <1> QED
    BY <1>4, <1>6

\* An item that comes after all others is inserted.
LEMMA WrittenNext ==
  ASSUME NEW items, Apart(items), NEW i, i.at \in Nat, \A o \in items : o.at < i.at
  PROVE  /\ Apart(items \cup {i})
         /\ WrittenBy(items \cup {i}) = insert(WrittenBy(items), i.key, i.value)
  <1> DEFINE more == items \cup {i}
             keys == {o.key : o \in items}
             W == WrittenBy(items)
  <1>1. Apart(more)
    <2>1. ASSUME NEW o \in items PROVE o.at # i.at
      BY <2>1 DEF Apart
    <2> QED
      BY <2>1 DEF Apart
  <1>2. DOMAIN W = keys /\ DOMAIN WrittenBy(more) = keys \cup {i.key}
    BY DEF WrittenBy
  <1>3. ASSUME NEW k \in keys PROVE WrittenBy(more)[k] = W[k]
    <2>1. PICK f : IsFirst(items, k, f)
      BY FirstExists
    <2>2. f.at < i.at /\ f.at \in Nat
      BY <2>1 DEF IsFirst, Apart
    <2>3. f.at <= i.at
      BY <2>2
    <2>4. IsFirst(more, k, f)
      BY <2>1, <2>3 DEF IsFirst
    <2>5. W[k] = f.value
      BY <2>1, FirstIsWritten
    <2>6. WrittenBy(more)[k] = f.value
      <3> HIDE DEF more
      <3> QED
        BY <1>1, <2>4, FirstIsWritten
    <2> QED
      BY <2>5, <2>6
  <1>4. ASSUME i.key \notin keys PROVE WrittenBy(more)[i.key] = i.value
    <2>1. IsFirst(more, i.key, i)
      BY <1>4 DEF IsFirst
    <2> HIDE DEF more
    <2> QED
      BY <1>1, <2>1, FirstIsWritten
  <1> DEFINE V == insert(W, i.key, i.value)
  <1>5. V = [x \in keys \cup {i.key} |-> IF x \in keys THEN W[x] ELSE i.value]
    <2> HIDE DEF keys, W
    <2> QED
      BY <1>2 DEF insert
  <1>6. WrittenBy(more) = [x \in keys \cup {i.key} |-> WrittenBy(more)[x]]
    <2>1. WrittenBy(more) = [x \in DOMAIN WrittenBy(more) |-> WrittenBy(more)[x]]
      BY DEF WrittenBy
    <2> HIDE DEF more, keys
    <2> QED
      BY <1>2, <2>1
  <1>7. \A x \in keys \cup {i.key} :
          WrittenBy(more)[x] = IF x \in keys THEN W[x] ELSE i.value
    <2> HIDE DEF more, keys, W
    <2> QED
      BY <1>3, <1>4
  <1>8. WrittenBy(more) = V
    <2> HIDE DEF more, keys, W, V
    <2> QED
      BY <1>5, <1>6, <1>7
  <1> QED
    BY <1>1, <1>8

LEMMA NothingWritten == WrittenBy({}) = NoItems
  BY DEF WrittenBy, NoItems

-----------------------------------------------------------------------------
(* The lines of the file, and lines that do not fit the buffer.            *)

Short(l) == l[2] - l[1] + 1 < LIMIT

\* While the stream is good the lines before pos were short; it reaches the
\* end of the file only after the last of them.
LineInv ==
  /\ text \in Seq(STRING) /\ pos \in 1..(Len(text) + 1)
  /\ eofbit \in BOOLEAN /\ failbit \in BOOLEAN
  /\ cpc = "closed" => pos = 1 /\ ~eofbit
  /\ cpc = "done" => eofbit
  /\ eofbit => ShortLines
  /\ ~eofbit /\ ~failbit => \A l \in FileLines : l[1] < pos => Short(l)

\* The line that getline reads, if it is the line from pos on.
LEMMA LineEndFacts ==
  ASSUME LineInv
  PROVE  /\ LineEnd \in pos..(Len(text) + 1) /\ LineLen = LineEnd - pos
         /\ LineEnd <= Len(text) => text[LineEnd] = "\n"
         /\ \A j \in pos..(LineEnd - 1) : text[j] # "\n"
  <1> DEFINE S == {j \in pos..Len(text) : text[j] = "\n"} \cup {Len(text) + 1}
  <1>1. Len(text) \in Nat /\ pos \in Nat /\ pos <= Len(text) + 1
    BY DEF LineInv
  <1>2. S \in SUBSET Nat /\ S # {} /\ LineEnd = Min(S)
    BY <1>1 DEF LineEnd
  <1>3. LineEnd \in S /\ \A j \in S : LineEnd <= j
    <2> HIDE DEF S
    <2> QED
      BY <1>2, MinFacts
  <1>4. LineEnd \in Nat /\ LineEnd \in pos..(Len(text) + 1)
    BY <1>1, <1>3
  <1>5. LineEnd <= Len(text) => text[LineEnd] = "\n"
    BY <1>1, <1>3
  <1>6. ASSUME NEW j \in pos..(LineEnd - 1) PROVE text[j] # "\n"
    BY <1>1, <1>3, <1>4, <1>6
  <1> QED
    BY <1>4, <1>5, <1>6 DEF LineLen

\* The lines that begin before the next character after a line that fits.
LEMMA LinesBefore ==
  ASSUME LineInv, ~eofbit, ~failbit, LineLen < LIMIT,
         NEW l \in FileLines, l[1] < LineEnd + 1
  PROVE  Short(l)
  <1>1. /\ Len(text) \in Nat /\ pos \in Nat \ {0} /\ LIMIT \in Nat
        /\ LineEnd \in pos..(Len(text) + 1) /\ LineLen = LineEnd - pos
        /\ LineEnd <= Len(text) => text[LineEnd] = "\n"
        /\ \A j \in pos..(LineEnd - 1) : text[j] # "\n"
    BY LineEndFacts, ReaderAssumption DEF LineInv
  <1>2. /\ l[1] \in 1..(Len(text) + 1) /\ l[2] \in 0..Len(text)
        /\ \A j \in l[1]..l[2] : text[j] # "\n"
        /\ l[1] = 1 \/ text[l[1] - 1] = "\n"
    BY DEF FileLines, Bounds
  <1>3. CASE l[1] < pos
    BY <1>3 DEF LineInv
  <1>4. CASE l[1] = pos
    <2>1. l[2] < LineEnd
      <3>1. CASE LineEnd <= Len(text)
        BY <1>1, <1>2, <1>4, <3>1
      <3>2. CASE LineEnd > Len(text)
        BY <1>1, <1>2, <3>2
      <3> QED
        BY <1>1, <3>1, <3>2
    <2> QED
      BY <1>1, <1>2, <1>4, <2>1 DEF Short
  <1>5. CASE l[1] > pos
    <2>1. l[1] - 1 \in pos..(LineEnd - 1) /\ text[l[1] - 1] = "\n"
      BY <1>1, <1>2, <1>5
    <2> QED
      BY <1>1, <2>1
  <1> QED
    BY <1>1, <1>2, <1>3, <1>4, <1>5

LEMMA LoadKeepsLines ==
  ASSUME LineInv, LoadStep
  PROVE  LineInv'
  <1>1. Len(text) \in Nat /\ pos \in Nat \ {0} /\ LIMIT \in Nat \ {0}
    BY ReaderAssumption DEF LineInv
  <1>2. CASE Open
    <2>1. /\ cpc = "closed" /\ pos' = 1 /\ eofbit' = eofbit /\ failbit' = failbit /\ ~eofbit
          /\ cpc' \in {"read", "error"}
      BY <1>2 DEF Open, LineInv
    <2>2. text' \in Seq(STRING)
      BY <1>2, ReaderAssumption DEF Open, LineInv
    <2>3. \A l \in FileLines' : ~ (l[1] < 1)
      BY <2>2 DEF FileLines, Bounds
    <2>4. 1 \in 1..(Len(text') + 1)
      BY <2>2
    <2> QED
      BY <2>1, <2>2, <2>3, <2>4 DEF LineInv
  <1>3. CASE GetLine
    <2>1. /\ UNCHANGED <<text, eofbit, failbit, FileLines>> /\ pos' = LineEnd + 1
          /\ cpc' = "store" /\ ~eofbit /\ ~failbit /\ LineLen < LIMIT
          /\ LineEnd <= Len(text)
      BY <1>3 DEF GetLine, Reading, FileLines, Bounds
    <2>2. pos' \in 1..(Len(text) + 1)
      BY <1>1, <2>1, LineEndFacts
    <2>3. \A l \in FileLines : l[1] < LineEnd + 1 => Short(l)
      BY <2>1, LinesBefore
    <2> QED
      BY <2>1, <2>2, <2>3 DEF LineInv, Short
  <1>4. CASE GetLineEof
    <2>1. /\ UNCHANGED <<text, FileLines>> /\ pos' = LineEnd /\ eofbit' = TRUE
          /\ cpc' = "store" /\ ~eofbit /\ ~failbit /\ LineLen < LIMIT
          /\ LineEnd > Len(text)
      BY <1>4 DEF GetLineEof, Reading, FileLines, Bounds
    <2>2. pos' \in 1..(Len(text) + 1) /\ LineEnd = Len(text) + 1
      BY <1>1, <2>1, LineEndFacts
    <2>3. \A l \in FileLines : l[1] < LineEnd + 1
      BY <1>1, <2>2 DEF FileLines, Bounds
    <2>4. \A l \in FileLines : Short(l)
      BY <2>1, <2>3, LinesBefore
    <2>5. ShortLines'
      BY <2>1, <2>4 DEF ShortLines, Short
    <2>6. failbit' \in BOOLEAN
      BY <1>4 DEF GetLineEof
    <2> QED
      BY <2>1, <2>2, <2>5, <2>6 DEF LineInv
  <1>5. CASE GetLineFull
    <2>1. /\ UNCHANGED <<text, eofbit>> /\ pos' = pos + LIMIT - 1 /\ failbit' = TRUE
          /\ cpc' = "store" /\ ~eofbit /\ LineLen >= LIMIT
      BY <1>5 DEF GetLineFull, Reading
    <2>2. pos' \in 1..(Len(text) + 1)
      BY <1>1, <2>1, LineEndFacts
    <2> QED
      BY <2>1, <2>2 DEF LineInv
  <1>6. CASE GetLineFailed \/ Store
    <2>1. /\ UNCHANGED <<text, pos, eofbit, failbit, FileLines, ShortLines>>
          /\ cpc' # "closed" /\ (cpc' = "done" => eofbit)
      BY <1>6 DEF GetLineFailed, Store, FileLines, Bounds, ShortLines
    <2> QED
      BY <2>1 DEF LineInv, Short
  <1> QED
    BY <1>2, <1>3, <1>4, <1>5, <1>6 DEF LoadStep
-----------------------------------------------------------------------------
(* What the map holds.                                                     *)

ItemsBefore(m) == {i \in Items : i.at < m}

\* What Store makes of the map, when the line is s.
Stored(items, s) ==
  IF Len(split(s)) # 2 THEN items
  ELSE insert(items, trim(split(s)[1]), trim(split(s)[2]))

LineStart == pos = 1 \/ text[pos - 1] = "\n"

\* While the stream is good the map holds the items of the lines that were
\* read; the end of the file is seen with the last of them.
LoadInv ==
  /\ LineInv
  /\ ~eofbit /\ ~failbit => LineStart
  /\ cpc = "closed" => mItems = NoItems
  /\ cpc = "read" /\ ~eofbit /\ ~failbit => mItems = WrittenBy(ItemsBefore(pos))
  /\ cpc = "store" /\ ~eofbit /\ ~failbit => Stored(mItems, line) = WrittenBy(ItemsBefore(pos))
  /\ cpc = "store" /\ eofbit => Stored(mItems, line) = Written
  /\ cpc = "done" => mItems = Written

\* A line is known by its start.
LEMMA LinesApart ==
  ASSUME text \in Seq(STRING), NEW l \in FileLines, NEW m \in FileLines, l[1] = m[1]
  PROVE  l = m
  <1>1. ASSUME NEW f \in FileLines
        PROVE  /\ f = <<f[1], f[2]>> /\ f[1] \in 1..(Len(text) + 1) /\ f[2] \in 0..Len(text)
               /\ f[1] <= f[2] + 1 /\ (f[2] = Len(text) \/ text[f[2] + 1] = "\n")
               /\ \A j \in f[1]..f[2] : text[j] # "\n"
    BY DEF FileLines, Bounds
  <1>2. ASSUME NEW f \in FileLines, NEW g \in FileLines, f[1] = g[1]
        PROVE  ~ (f[2] < g[2])
    <2> SUFFICES ASSUME f[2] < g[2] PROVE FALSE
      OBVIOUS
    <2>1. f[2] + 1 \in g[1]..g[2] /\ f[2] # Len(text)
      <3>1. f[1] \in Nat /\ f[2] \in Nat /\ f[1] <= f[2] + 1
        BY <1>1
      <3>2. g[2] \in Nat /\ g[2] <= Len(text)
        BY <1>1
      <3> QED
        BY <1>2, <3>1, <3>2
    <2> QED
      BY <1>1, <2>1
  <1>3. l[2] = m[2]
    <2>1. ~ (l[2] < m[2]) /\ ~ (m[2] < l[2])
      BY <1>2
    <2>2. l[2] \in Nat /\ m[2] \in Nat
      BY <1>1
    <2> QED
      BY <2>1, <2>2
  <1>4. l = <<l[1], l[2]>> /\ m = <<m[1], m[2]>>
    BY <1>1
  <1> QED
    BY <1>3, <1>4

\* A line holds at most one item, which starts where the line starts.
LEMMA ItemFacts ==
  ASSUME text \in Seq(STRING), NEW l \in FileLines, NEW i \in ItemsOf(l)
  PROVE  /\ i.at = l[1] /\ l[1] \in 1..(Len(text) + 1)
         /\ \A o \in ItemsOf(l) : o = i
  <1>1. /\ l = <<l[1], l[2]>> /\ l[1] \in 1..(Len(text) + 1) /\ l[2] \in 0..Len(text)
        /\ l[1] <= l[2] + 1
    BY DEF FileLines, Bounds
  <1>2. l[2] \in (l[1] - 1)..Len(text)
    BY <1>1
  <1>3. PICK x \in 1..(Len(text) + 1) : x = l[1]
    BY <1>1
  <1>4. PICK y \in (x - 1)..Len(text) : y = l[2]
    BY <1>2, <1>3
  <1>5. l = <<x, y>>
    BY <1>1, <1>3, <1>4
  <1>6. PICK t : t = TheItem(x, SubSeq(text, x, y))
    OBVIOUS
  <1>7. ItemsOf(l) = {t} \/ ItemsOf(l) = {}
    BY <1>5, <1>6, ItemOfLine
  <1>8. t.at = x
    BY <1>6 DEF TheItem
  <1> QED
    BY <1>3, <1>7, <1>8

LEMMA ItemsApart ==
  ASSUME text \in Seq(STRING), NEW m
  PROVE  Apart(ItemsBefore(m))
  <1>1. ASSUME NEW i \in Items PROVE \E l \in FileLines : i \in ItemsOf(l)
    BY DEF Items
  <1>2. ASSUME NEW i \in Items PROVE i.at \in Nat
    <2>1. PICK l \in FileLines : i \in ItemsOf(l)
      BY <1>1
    <2>2. i.at = l[1] /\ l[1] \in 1..(Len(text) + 1)
      BY <2>1, ItemFacts
    <2> QED
      BY <2>2
  <1>3. ASSUME NEW i \in Items, NEW j \in Items, i.at = j.at PROVE i = j
    <2>1. PICK l \in FileLines : i \in ItemsOf(l)
      BY <1>1
    <2>2. PICK k \in FileLines : j \in ItemsOf(k)
      BY <1>1
    <2>3. i.at = l[1] /\ \A o \in ItemsOf(l) : o = i
      BY <2>1, ItemFacts
    <2>4. j.at = k[1]
      BY <2>2, ItemFacts
    <2>5. l = k
      BY <1>3, <2>3, <2>4, LinesApart
    <2> QED
      BY <2>2, <2>3, <2>5
  <1> QED
    BY <1>2, <1>3 DEF Apart, ItemsBefore

\* The line that getline reads is a line of the file, and the next one starts
\* after its delimiter.
LEMMA LineIsRead ==
  ASSUME LineInv, LineStart
  PROVE  /\ <<pos, LineEnd - 1>> \in FileLines
         /\ \A l \in FileLines : l[1] < LineEnd + 1 => l[1] < pos \/ l = <<pos, LineEnd - 1>>
  <1>1. /\ LineEnd \in pos..(Len(text) + 1)
        /\ LineEnd <= Len(text) => text[LineEnd] = "\n"
        /\ \A j \in pos..(LineEnd - 1) : text[j] # "\n"
        /\ text \in Seq(STRING) /\ Len(text) \in Nat /\ pos \in 1..(Len(text) + 1)
    BY LineEndFacts DEF LineInv
  <1>2. PICK e : e = LineEnd - 1
    OBVIOUS
  <1>3. e \in Int /\ LineEnd = e + 1 /\ e >= pos - 1 /\ e <= Len(text) /\ pos \in Nat \ {0}
    BY <1>1, <1>2
  <1>4. <<pos, e>> \in FileLines
    <2>1. /\ <<pos, e>> \in (1..(Len(text) + 1)) \X (0..Len(text))
          /\ <<pos, e>>[1] = pos /\ <<pos, e>>[2] = e
      BY <1>1, <1>3
    <2>2. pos <= e + 1 /\ (e = Len(text) \/ text[e + 1] = "\n")
      BY <1>1, <1>3
    <2>3. \A j \in pos..e : text[j] # "\n"
      BY <1>1, <1>2
    <2>4. pos = 1 \/ text[pos - 1] = "\n"
      BY DEF LineStart
    <2> QED
      BY <2>1, <2>2, <2>3, <2>4 DEF FileLines, Bounds
  <1>5. ASSUME NEW l \in FileLines, l[1] < LineEnd + 1, ~ (l[1] < pos)
        PROVE  l = <<pos, e>>
    <2>1. l[1] \in 1..(Len(text) + 1) /\ (l[1] = 1 \/ text[l[1] - 1] = "\n")
      BY DEF FileLines, Bounds
    <2>2. l[1] = pos
      <3> SUFFICES ASSUME l[1] # pos PROVE FALSE
        OBVIOUS
      <3>1. l[1] - 1 \in pos..(LineEnd - 1) /\ l[1] # 1
        BY <1>1, <1>3, <1>5, <2>1
      <3> QED
        BY <1>1, <2>1, <3>1
    <2>3. l[1] = <<pos, e>>[1]
      BY <2>2
    <2> QED
      BY <1>1, <1>4, <2>3, LinesApart
  <1> QED
    BY <1>2, <1>4, <1>5

LEMMA ItemsAfterLine ==
  ASSUME LineInv, LineStart
  PROVE  ItemsBefore(LineEnd + 1) = ItemsBefore(pos) \cup ItemsOf(<<pos, LineEnd - 1>>)
  <1>1. /\ LineEnd \in pos..(Len(text) + 1) /\ text \in Seq(STRING) /\ Len(text) \in Nat
        /\ pos \in 1..(Len(text) + 1)
    BY LineEndFacts DEF LineInv
  <1>2. PICK r : r = <<pos, LineEnd - 1>>
    OBVIOUS
  <1>3. /\ r \in FileLines /\ r[1] = pos
        /\ \A l \in FileLines : l[1] < LineEnd + 1 => l[1] < pos \/ l = r
    BY <1>2, LineIsRead
  <1>4. ASSUME NEW i \in ItemsBefore(LineEnd + 1)
        PROVE  i \in ItemsBefore(pos) \cup ItemsOf(r)
    <2>1. PICK l \in FileLines : i \in ItemsOf(l)
      BY DEF ItemsBefore, Items
    <2>2. i.at = l[1] /\ i \in Items /\ i.at < LineEnd + 1
      BY <1>1, <2>1, ItemFacts DEF ItemsBefore
    <2>3. l[1] < pos \/ l = r
      BY <1>3, <2>2
    <2> QED
      BY <2>1, <2>2, <2>3 DEF ItemsBefore
  <1>5. ASSUME NEW i \in ItemsBefore(pos) PROVE i \in ItemsBefore(LineEnd + 1)
    <2>1. i \in Items /\ i.at < pos
      BY DEF ItemsBefore
    <2>2. PICK l \in FileLines : i \in ItemsOf(l)
      BY <2>1 DEF Items
    <2>3. i.at \in Nat
      <3>1. i.at = l[1] /\ l[1] \in 1..(Len(text) + 1)
        BY <1>1, <2>2, ItemFacts
      <3> QED
        BY <3>1
    <2>4. i.at < LineEnd + 1
      BY <1>1, <2>1, <2>3
    <2> QED
      BY <2>1, <2>4 DEF ItemsBefore
  <1>6. ASSUME NEW i \in ItemsOf(r) PROVE i \in ItemsBefore(LineEnd + 1)
    <2>1. i.at = pos
      BY <1>1, <1>3, ItemFacts
    <2>2. i \in Items
      BY <1>3 DEF Items
    <2>3. pos < LineEnd + 1
      BY <1>1
    <2> QED
      BY <2>1, <2>2, <2>3 DEF ItemsBefore
  <1> QED
    BY <1>2, <1>4, <1>5, <1>6

\* Storing the line that was read goes from its start to the next line's.
LEMMA LineIsStored ==
  ASSUME LineInv, LineStart
  PROVE  Stored(WrittenBy(ItemsBefore(pos)), SubSeq(text, pos, LineEnd - 1))
           = WrittenBy(ItemsBefore(LineEnd + 1))
  <1>1. /\ LineEnd \in pos..(Len(text) + 1) /\ text \in Seq(STRING) /\ Len(text) \in Nat
        /\ pos \in 1..(Len(text) + 1)
    BY LineEndFacts DEF LineInv
  <1>2. PICK y \in (pos - 1)..Len(text) : y = LineEnd - 1
    BY <1>1
  <1>3. PICK s : s = SubSeq(text, pos, y)
    OBVIOUS
  <1>4. s \in Seq(STRING)
    BY <1>1, <1>3, PartFacts
  <1>5. PICK B : B = ItemsBefore(pos)
    OBVIOUS
  <1>6. ItemsBefore(LineEnd + 1) = B \cup ItemsOf(<<pos, y>>)
    BY <1>2, <1>5, ItemsAfterLine
  <1>7. CASE TwoRounds(s)
    <2>1. PICK i : i = TheItem(pos, s)
      OBVIOUS
    <2>2. ItemsOf(<<pos, y>>) = {i}
      BY <1>1, <1>3, <1>7, <2>1, ItemOfLine
    <2>3. /\ i.at = pos /\ i.key = trim(Token(s, 1))
          /\ i.value = trim(Token(s, Rest(s, 1)))
      BY <2>1 DEF TheItem
    <2>4. Apart(B) /\ \A o \in B : o.at < pos
      BY <1>1, <1>5, ItemsApart DEF ItemsBefore
    <2>5. pos \in Nat
      BY <1>1
    <2>6. i.at \in Nat /\ \A o \in B : o.at < i.at
      BY <2>3, <2>4, <2>5
    <2>7. WrittenBy(B \cup {i}) = insert(WrittenBy(B), i.key, i.value)
      BY <2>4, <2>6, WrittenNext
    <2>8. /\ Len(split(s)) = 2 /\ split(s)[1] = Token(s, 1)
          /\ split(s)[2] = Token(s, Rest(s, 1))
      BY <1>4, <1>7, SplitTwo
    <2>9. Stored(WrittenBy(B), s) = insert(WrittenBy(B), i.key, i.value)
      BY <2>3, <2>8 DEF Stored
    <2> QED
      BY <1>2, <1>3, <1>5, <1>6, <2>2, <2>7, <2>9
  <1>8. CASE ~ TwoRounds(s)
    <2>1. ItemsOf(<<pos, y>>) = {}
      BY <1>1, <1>3, <1>8, ItemOfLine
    <2>2. Len(split(s)) # 2
      BY <1>4, <1>8, SplitTwo
    <2>3. Stored(WrittenBy(B), s) = WrittenBy(B)
      BY <2>2 DEF Stored
    <2>4. ItemsBefore(LineEnd + 1) = B
      BY <1>6, <2>1
    <2> QED
      BY <1>2, <1>3, <1>5, <2>3, <2>4
  <1> QED
    BY <1>7, <1>8

LEMMA NoItemsBefore == text \in Seq(STRING) => ItemsBefore(1) = {}
  <1> SUFFICES ASSUME text \in Seq(STRING) PROVE ItemsBefore(1) = {}
    OBVIOUS
  <1>1. ASSUME NEW i \in Items PROVE ~ (i.at < 1)
    <2>1. PICK l \in FileLines : i \in ItemsOf(l)
      BY DEF Items
    <2>2. i.at = l[1] /\ l[1] \in 1..(Len(text) + 1)
      BY <2>1, ItemFacts
    <2> QED
      BY <2>2
  <1> QED
    BY <1>1 DEF ItemsBefore

LEMMA AllItemsBefore ==
  ASSUME text \in Seq(STRING), NEW m \in Nat, m > Len(text) + 1
  PROVE  ItemsBefore(m) = Items
  <1>1. ASSUME NEW i \in Items PROVE i.at < m
    <2>1. PICK l \in FileLines : i \in ItemsOf(l)
      BY DEF Items
    <2>2. i.at = l[1] /\ l[1] \in 1..(Len(text) + 1)
      BY <2>1, ItemFacts
    <2> QED
      BY <2>2
  <1> QED
    BY <1>1 DEF ItemsBefore

LEMMA SameItems ==
  ASSUME text' = text
  PROVE  Items' = Items /\ Written' = Written
  <1>1. Items' = Items
    BY DEF Items, ItemsOf, Word, Pieces, FileLines, Bounds
  <1> QED
    BY <1>1 DEF Written

LEMMA LoadKeepsItems ==
  ASSUME LoadInv, LoadStep
  PROVE  LoadInv'
  <1>1. LineInv /\ LineInv' /\ text \in Seq(STRING) /\ Len(text) \in Nat
    BY LoadKeepsLines DEF LoadInv, LineInv
  <1>2. CASE Open
    <2>1. cpc = "closed" /\ pos = 1 /\ pos' = 1 /\ mItems' = NoItems /\ cpc' \in {"read", "error"}
      BY <1>2 DEF Open, LoadInv, LineInv
    <2>2. LineStart'
      BY <2>1 DEF LineStart
    <2>3. (ItemsBefore(1) = {})'
      <3>1. (text \in Seq(STRING))'
        BY <1>1 DEF LineInv
      <3> QED
        BY <3>1, NoItemsBefore, PTL
    <2>4. ItemsBefore(pos)' = {}
      BY <2>1, <2>3 DEF ItemsBefore
    <2>5. mItems' = WrittenBy(ItemsBefore(pos)')
      BY <2>1, <2>4, NothingWritten
    <2> QED
      BY <1>1, <2>1, <2>2, <2>5 DEF LoadInv
  <1>3. CASE GetLine
    <2>1. /\ cpc = "read" /\ ~eofbit /\ ~failbit /\ cpc' = "store" /\ LineEnd <= Len(text)
          /\ UNCHANGED <<text, eofbit, failbit, mItems>>
          /\ line' = SubSeq(text, pos, LineEnd - 1) /\ pos' = LineEnd + 1
      BY <1>3 DEF GetLine, Reading
    <2>2. LineStart /\ mItems = WrittenBy(ItemsBefore(pos))
      BY <2>1 DEF LoadInv
    <2>3. LineStart'
      <3>1. LineEnd \in pos..(Len(text) + 1) /\ text[LineEnd] = "\n" /\ pos \in Nat
        BY <1>1, <2>1, LineEndFacts DEF LineInv
      <3>2. pos' - 1 = LineEnd
        BY <1>1, <2>1, <3>1
      <3> QED
        BY <2>1, <3>1, <3>2 DEF LineStart
    <2>4. ItemsBefore(pos)' = ItemsBefore(LineEnd + 1)
      BY <2>1, SameItems DEF ItemsBefore
    <2>5. Stored(mItems', line') = WrittenBy(ItemsBefore(pos)')
      BY <1>1, <2>1, <2>2, <2>4, LineIsStored
    <2> QED
      BY <1>1, <2>1, <2>3, <2>5 DEF LoadInv
  <1>4. CASE GetLineEof
    <2>1. /\ cpc = "read" /\ ~eofbit /\ ~failbit /\ cpc' = "store" /\ LineEnd > Len(text)
          /\ UNCHANGED <<text, mItems>> /\ eofbit' = TRUE
          /\ line' = SubSeq(text, pos, LineEnd - 1)
      BY <1>4 DEF GetLineEof, Reading
    <2>2. LineStart /\ mItems = WrittenBy(ItemsBefore(pos))
      BY <2>1 DEF LoadInv
    <2>3. ItemsBefore(LineEnd + 1) = Items
      <3>1. LineEnd \in pos..(Len(text) + 1) /\ pos \in Nat
        BY <1>1, LineEndFacts DEF LineInv
      <3>2. LineEnd + 1 \in Nat /\ LineEnd + 1 > Len(text) + 1
        BY <1>1, <2>1, <3>1
      <3> QED
        BY <1>1, <3>2, AllItemsBefore
    <2>4. Stored(mItems', line') = Written
      BY <1>1, <2>1, <2>2, <2>3, LineIsStored DEF Written
    <2>5. Written' = Written
      BY <2>1, SameItems
    <2> QED
      BY <1>1, <2>1, <2>4, <2>5 DEF LoadInv
  <1>5. CASE GetLineFull \/ GetLineFailed
    <2>1. ~eofbit' /\ failbit' /\ cpc' = "store"
      BY <1>5 DEF GetLineFull, GetLineFailed, Reading
    <2> QED
      BY <1>1, <2>1 DEF LoadInv
  <1>6. CASE Store
    <2>1. /\ cpc = "store" /\ cpc' = (IF eofbit THEN "done" ELSE "read")
          /\ UNCHANGED <<text, pos, eofbit, failbit>>
      BY <1>6 DEF Store
    <2>2. mItems' = Stored(mItems, line)
      BY <1>6 DEF Store, Stored
    <2>3. /\ Written' = Written /\ ItemsBefore(pos)' = ItemsBefore(pos)
          /\ LineStart' = LineStart
      BY <2>1, SameItems DEF ItemsBefore, LineStart
    <2>4. CASE eofbit
      <3>1. cpc' = "done" /\ eofbit' = eofbit /\ mItems' = Written
        BY <2>1, <2>2, <2>4 DEF LoadInv
      <3> QED
        BY <1>1, <2>3, <2>4, <3>1 DEF LoadInv
    <2>5. CASE ~eofbit
      <3>1. cpc' = "read" /\ eofbit' = eofbit /\ failbit' = failbit
        BY <2>1, <2>5
      <3>2. ~failbit => mItems' = WrittenBy(ItemsBefore(pos)) /\ LineStart
        BY <2>1, <2>2, <2>5 DEF LoadInv
      <3>3. WrittenBy(ItemsBefore(pos))' = WrittenBy(ItemsBefore(pos))
        BY <2>3
      <3> QED
        BY <1>1, <2>3, <2>5, <3>1, <3>2, <3>3 DEF LoadInv
    <2> QED
      BY <2>4, <2>5
  <1> QED
    BY <1>2, <1>3, <1>4, <1>5, <1>6 DEF LoadStep

LEMMA LoadInvCorrect == LoadInv => LoadsWhatIsWritten
  BY DEF LoadInv, LineInv, LoadsWhatIsWritten

-----------------------------------------------------------------------------
(* Load gets to the end of a file whose lines fit.                         *)

\* What the loop has yet to do: an upper bound on its steps.
LoadLeft ==
  IF eofbit THEN IF cpc = "store" THEN 1 ELSE 0
  ELSE 2 * (Len(text) + 1 - pos) + (IF cpc = "store" THEN 3 ELSE 2)

\* Only a long line makes the stream fail before the end of the file.
StreamInv ==
  /\ LoadInv
  /\ cpc = "read" => ~eofbit
  /\ cpc = "closed" => ~failbit
  /\ failbit /\ ~eofbit => ~ShortLines

LEMMA LoadKeepsStream ==
  ASSUME StreamInv, LoadStep
  PROVE  StreamInv'
  <1>1. LoadInv /\ LoadInv' /\ LineInv
    BY LoadKeepsItems DEF StreamInv, LoadInv
  <1>2. CASE Open
    BY <1>1, <1>2 DEF Open, StreamInv, LoadInv, LineInv
  <1>3. CASE GetLine \/ GetLineEof \/ GetLineFailed \/ Store
    <2>1. /\ text' = text /\ cpc' # "closed"
          /\ cpc' = "read" => ~eofbit'
          /\ failbit' /\ ~eofbit' => failbit /\ ~eofbit
      BY <1>3 DEF GetLine, GetLineEof, GetLineFailed, Store, Reading
    <2>2. ShortLines' = ShortLines
      BY <2>1 DEF ShortLines, FileLines, Bounds
    <2> QED
      BY <1>1, <2>1, <2>2 DEF StreamInv
  <1>4. CASE GetLineFull
    <2>1. /\ text' = text /\ cpc' = "store" /\ ~eofbit /\ ~failbit /\ LineLen >= LIMIT
      BY <1>4 DEF GetLineFull, Reading
    <2>2. LineStart
      BY <2>1 DEF StreamInv, LoadInv
    <2>3. PICK l : l = <<pos, LineEnd - 1>>
      OBVIOUS
    <2>4. l \in FileLines /\ l[1] = pos /\ l[2] = LineEnd - 1
      BY <1>1, <2>2, <2>3, LineIsRead
    <2>5. /\ LineEnd \in pos..(Len(text) + 1) /\ LineLen = LineEnd - pos
          /\ pos \in Nat /\ Len(text) \in Nat /\ LIMIT \in Nat
      BY <1>1, LineEndFacts, ReaderAssumption DEF LineInv
    <2>6. ~ (l[2] - l[1] + 1 < LIMIT)
      BY <2>1, <2>4, <2>5
    <2>7. ~ ShortLines
      BY <2>4, <2>6 DEF ShortLines
    <2>8. ShortLines' = ShortLines
      BY <2>1 DEF ShortLines, FileLines, Bounds
    <2> QED
      BY <1>1, <2>1, <2>7, <2>8 DEF StreamInv
  <1> QED
    BY <1>2, <1>3, <1>4 DEF LoadStep

\* Every step after the opening brings the end nearer.
LEMMA LoadStepAdvances ==
  ASSUME StreamInv, LoadStep, cpc # "closed", ShortLines
  PROVE  LoadLeft \in Nat /\ LoadLeft' \in Nat /\ LoadLeft' < LoadLeft
  <1>1. LineInv /\ Len(text) \in Nat /\ pos \in 1..(Len(text) + 1)
    BY DEF StreamInv, LoadInv, LineInv
  <1>2. LineEnd \in pos..(Len(text) + 1)
    BY <1>1, LineEndFacts
  <1>3. failbit => eofbit
    BY DEF StreamInv
  <1>4. CASE GetLine
    <2>1. /\ cpc = "read" /\ ~eofbit /\ ~eofbit' /\ cpc' = "store" /\ text' = text
          /\ pos' = LineEnd + 1 /\ LineEnd <= Len(text)
      BY <1>4 DEF GetLine, Reading
    <2> QED
      BY <1>1, <1>2, <2>1 DEF LoadLeft
  <1>5. CASE GetLineEof
    <2>1. cpc = "read" /\ ~eofbit /\ eofbit' /\ cpc' = "store"
      BY <1>5 DEF GetLineEof, Reading
    <2>2. LoadLeft' = 1 /\ LoadLeft = 2 * (Len(text) + 1 - pos) + 2
      BY <2>1 DEF LoadLeft
    <2> QED
      BY <1>1, <2>2
  <1>6. CASE GetLineFull
    <2>1. /\ text' = text /\ cpc' = "store" /\ ~eofbit' /\ failbit'
      BY <1>6 DEF GetLineFull, Reading
    <2>2. ShortLines' = ShortLines
      BY <2>1 DEF ShortLines, FileLines, Bounds
    <2> QED
      BY <2>1, <2>2, LoadKeepsStream DEF StreamInv
  <1>7. CASE GetLineFailed
    BY <1>3, <1>7 DEF GetLineFailed, Reading
  <1>8. CASE Store
    <2>1. /\ cpc = "store" /\ eofbit' = eofbit /\ text' = text /\ pos' = pos
          /\ cpc' = IF eofbit THEN "done" ELSE "read"
      BY <1>8 DEF Store
    <2>2. CASE eofbit
      BY <2>1, <2>2 DEF LoadLeft
    <2>3. CASE ~eofbit
      BY <1>1, <2>1, <2>3 DEF LoadLeft
    <2> QED
      BY <2>2, <2>3
  <1>9. ~ Open
    BY DEF Open
  <1> QED
    BY <1>4, <1>5, <1>6, <1>7, <1>8, <1>9 DEF LoadStep
=============================================================================
