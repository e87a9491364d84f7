----------------------------- MODULE MainProofs -----------------------------
(***************************************************************************)
(* main and the processes it starts.  The item list holds what the file     *)
(* says, once and in order, for any file whose lines fit; the title never   *)
(* reaches memory behind the area main measured, for any arguments none of  *)
(* which is empty and any environment; and the signal handler takes each    *)
(* process for what it is, for any number of workers and of signals.        *)
(***************************************************************************)
EXTENDS Startup, ProcessCycle, TLAPS, FiniteSetTheorems, SequenceTheorems, WellFoundedInduction

-----------------------------------------------------------------------------
(* First and last places.                                                   *)

Lowest(P) == CHOOSE i \in P : \A j \in P : i <= j
Highest(P) == CHOOSE i \in P : \A j \in P : j <= i
Places(t, c) == {i \in DOMAIN t : t[i] = c}
Ink(t, set) == {i \in DOMAIN t : t[i] \notin set}

\* A set of places that is not empty has a first one.
LEMMA LowestOf ==
    ASSUME NEW S \in SUBSET Nat, S # {}
    PROVE  Lowest(S) \in S /\ \A j \in S : Lowest(S) <= j
<1> DEFINE R == OpToRel(<, Nat)
<1>1. IsWellFoundedOn(R, Nat)
    BY NatLessThanWellFounded, Zenon
<1>2. \A x, y \in Nat : y < x => <<y, x>> \in R
    BY DEF OpToRel
<1> HIDE DEF R
<1>3. PICK m \in S : \A j \in S : ~(<<j, m>> \in R)
    BY <1>1, WFMin
<1>4. \A j \in S : m <= j
  <2> SUFFICES ASSUME NEW j \in S, ~(m <= j) PROVE FALSE
    OBVIOUS
  <2>1. j \in Nat /\ m \in Nat
    OBVIOUS
  <2>2. j < m
    BY <2>1
  <2>3. <<j, m>> \in R
    BY <1>2, <2>1, <2>2
  <2> QED
    BY <1>3, <2>3
<1>5. \E i \in S : \A j \in S : i <= j
    BY <1>4
<1> QED
    BY <1>5, Zenon DEF Lowest

\* A set of places up to n that is not empty has a last one.
LEMMA HighestOf ==
    ASSUME NEW n \in Nat, NEW S \in SUBSET (1..n), S # {}
    PROVE  Highest(S) \in S /\ \A j \in S : j <= Highest(S)
<1> DEFINE T == {k \in Nat : k <= n /\ n - k \in S}
<1>1. T \in SUBSET Nat
    OBVIOUS
<1>2. PICK i \in S : TRUE
    OBVIOUS
<1>3. n - i \in T
    BY <1>2
<1>4. PICK k \in T : \A j \in T : k <= j
    <2> HIDE DEF T
    <2> QED
      BY <1>1, <1>3, LowestOf
<1>5. n - k \in S /\ \A j \in S : j <= n - k
    <2>1. n - k \in S /\ k \in Nat
      BY <1>4
    <2> SUFFICES ASSUME NEW j \in S PROVE j <= n - k
      BY <2>1
    <2>2. n - j \in T
      OBVIOUS
    <2> QED
      BY <1>4, <2>1, <2>2
<1>6. \E m \in S : \A j \in S : j <= m
    BY <1>5
<1> QED
    BY <1>6, Zenon DEF Highest

\* Length, places and first character of a text.
LEMMA TextShape ==
    ASSUME NEW t \in Text
    PROVE  /\ Len(t) \in Nat /\ DOMAIN t = 1..Len(t)
           /\ \A i \in 1..Len(t) : t[i] \in STRING
           /\ t # <<>> => Len(t) >= 1 /\ Head(t) = t[1]
BY LenProperties, ElementOfSeq, EmptySeq DEF Text

\* A stretch of a text.
LEMMA Stretch ==
    ASSUME NEW t \in Text, NEW a \in Nat \ {0}, NEW b \in Nat, b <= Len(t)
    PROVE  /\ SubSeq(t, a, b) \in Text
           /\ Len(SubSeq(t, a, b)) = IF a <= b THEN b - a + 1 ELSE 0
           /\ \A i \in 1..(b - a + 1) : SubSeq(t, a, b)[i] = t[a + i - 1]
<1>1. \A i \in a..b : t[i] \in STRING
    BY TextShape
<1>2. a \in Int /\ b \in Int
    OBVIOUS
<1> QED
    BY <1>1, <1>2, SubSeqProperties DEF Text

\* The text with nothing in it.
LEMMA EmptyText == <<>> \in Text /\ Len(<<>>) = 0 /\ \A t \in Text : Len(t) = 0 => t = <<>>
BY EmptySeq DEF Text

\* What FirstThat looks for is at the lowest of its places: the "=" of a line,
LEMMA FirstEquals ==
    ASSUME NEW t \in Text
    PROVE  FirstThat(t, LAMBDA c : c = "=")
             = IF Places(t, "=") = {} THEN 0 ELSE Lowest(Places(t, "="))
BY DEF FirstThat, Places, Lowest

\* the end of a line,
LEMMA FirstNl ==
    ASSUME NEW t \in Text
    PROVE  FirstThat(t, LAMBDA c : c = "nl")
             = IF Places(t, "nl") = {} THEN 0 ELSE Lowest(Places(t, "nl"))
BY DEF FirstThat, Places, Lowest

\* the first character that is not blank.
LEMMA FirstInk ==
    ASSUME NEW t \in Text
    PROVE  FirstThat(t, LAMBDA c : c # "sp")
             = IF Ink(t, {"sp"}) = {} THEN 0 ELSE Lowest(Ink(t, {"sp"}))
<1> DEFINE places == {i \in DOMAIN t : t[i] # "sp"}
<1>1. FirstThat(t, LAMBDA c : c # "sp") = IF places = {} THEN 0 ELSE Lowest(places)
    BY DEF FirstThat, Lowest
<1>2. places = Ink(t, {"sp"})
    BY DEF Ink
<1> HIDE DEF places
<1> QED
    BY <1>1, <1>2

\* Where a text stops when the blanks at its end are cut off.
LEMMA TrimInk ==
    ASSUME NEW t \in Text, NEW set
    PROVE  TrimEnd(t, set)
             = IF Ink(t, set) = {} THEN <<>> ELSE SubSeq(t, 1, Highest(Ink(t, set)))
BY DEF TrimEnd, Ink, Highest

\* Up to k is what TrimEnd leaves.
LEMMA TrimIs ==
    ASSUME NEW t \in Text, NEW set, NEW k \in 0..Len(t),
           \A i \in 1..Len(t) : i > k => t[i] \in set, k > 0 => t[k] \notin set
    PROVE  TrimEnd(t, set) = SubSeq(t, 1, k)
<1>1. Len(t) \in Nat /\ DOMAIN t = 1..Len(t)
    BY TextShape
<1>2. CASE k = 0
  <2>1. Ink(t, set) = {}
    BY <1>1, <1>2 DEF Ink
  <2>2. SubSeq(t, 1, k) = <<>>
    BY <1>2, SubSeqEmpty
  <2> QED
    BY <2>1, <2>2, TrimInk
<1>3. CASE k # 0
  <2>1. k \in Ink(t, set) /\ Ink(t, set) \in SUBSET (1..Len(t))
    BY <1>1, <1>3 DEF Ink
  <2>2. \A i \in Ink(t, set) : i <= k
    BY <1>1 DEF Ink
  <2>3. Highest(Ink(t, set)) \in Ink(t, set) /\ k <= Highest(Ink(t, set))
    BY <1>1, <2>1, HighestOf
  <2>4. Highest(Ink(t, set)) = k
    BY <1>1, <2>1, <2>2, <2>3
  <2> QED
    BY <2>1, <2>4, TrimInk
<1> QED
    BY <1>2, <1>3

\* TrimEnd cuts off what is blank at the end, and no more.
LEMMA Trimmed ==
    ASSUME NEW t \in Text, NEW set
    PROVE  \E k \in 0..Len(t) : /\ \A i \in 1..Len(t) : i > k => t[i] \in set
                                /\ k > 0 => t[k] \notin set
<1>1. Len(t) \in Nat /\ DOMAIN t = 1..Len(t)
    BY TextShape
<1>2. CASE Ink(t, set) = {}
  <2>1. \A i \in 1..Len(t) : t[i] \in set
    BY <1>1, <1>2 DEF Ink
  <2>2. 0 \in 0..Len(t)
    BY <1>1
  <2> QED
    BY <2>1, <2>2
<1>3. CASE Ink(t, set) # {}
  <2>1. Ink(t, set) \in SUBSET (1..Len(t))
    BY <1>1 DEF Ink
  <2>2. PICK k \in Ink(t, set) : \A j \in Ink(t, set) : j <= k
    BY <1>1, <1>3, <2>1, HighestOf
  <2>3. k \in 0..Len(t) /\ t[k] \notin set
    BY <1>1, <2>2 DEF Ink
  <2>4. \A i \in 1..Len(t) : i > k => t[i] \in set
    BY <1>1, <2>2, <2>3 DEF Ink
  <2> QED
    BY <2>3, <2>4
<1> QED
    BY <1>2, <1>3

\* Ltrim, a recursion over the text, cuts off what is blank at its beginning.
LEMMA LtrimIs ==
    ASSUME NEW t \in Text, NEW k \in 1..Len(t), t[k] # "sp",
           \A i \in 1..Len(t) : i < k => t[i] = "sp"
    PROVE  Ltrim[t] = SubSeq(t, k, Len(t))
<1>1. Len(t) \in Nat /\ DOMAIN t = 1..Len(t)
    BY TextShape
<1>2. k \in Ink(t, {"sp"}) /\ Ink(t, {"sp"}) \in SUBSET Nat
    BY <1>1 DEF Ink
<1>3. \A i \in Ink(t, {"sp"}) : k <= i
    BY <1>1 DEF Ink
<1>4. Lowest(Ink(t, {"sp"})) \in Ink(t, {"sp"}) /\ Lowest(Ink(t, {"sp"})) <= k
    BY <1>2, LowestOf
<1>5. Lowest(Ink(t, {"sp"})) = k
    BY <1>2, <1>3, <1>4
<1>6. FirstThat(t, LAMBDA c : c # "sp") = k
    BY <1>2, <1>5, FirstInk
<1> QED
    BY <1>6 DEF Ltrim, From

\* Ltrim has nothing to cut off an empty text.
LEMMA LtrimNone == Ltrim[<<>>] = <<>>
<1>1. Ink(<<>>, {"sp"}) = {}
    BY DEF Ink
<1>2. FirstThat(<<>>, LAMBDA c : c # "sp") = 0
    BY <1>1, FirstInk, EmptyText
<1> QED
    BY <1>2, EmptyText DEF Ltrim

\* What a text has between its first and its last character that is not blank.
LEMMA CoreIs ==
    ASSUME NEW t \in Text, NEW a \in 1..Len(t), NEW b \in 1..Len(t),
           t[a] # "sp", t[b] # "sp",
           \A i \in 1..Len(t) : i < a \/ i > b => t[i] = "sp"
    PROVE  Core[t] = SubSeq(t, a, b)
<1>1. Len(t) \in Nat /\ DOMAIN t = 1..Len(t)
    BY TextShape
<1> DEFINE ink == {i \in DOMAIN t : t[i] # "sp"}
<1>2. a \in ink /\ b \in ink /\ ink \in SUBSET Nat /\ ink \in SUBSET (1..Len(t))
    BY <1>1
<1>3. \A i \in ink : a <= i /\ i <= b
    BY <1>1
<1>4. Core[t] = IF ink = {} THEN <<>> ELSE SubSeq(t, Lowest(ink), Highest(ink))
    BY DEF Core, Lowest, Highest
<1> HIDE DEF ink
<1>5. Lowest(ink) \in ink /\ Lowest(ink) <= a
    BY <1>2, LowestOf
<1>6. Highest(ink) \in ink /\ b <= Highest(ink)
    BY <1>1, <1>2, HighestOf
<1>7. Lowest(ink) = a
  <2>1. a <= Lowest(ink) /\ Lowest(ink) \in Nat /\ a \in Nat
    BY <1>2, <1>3, <1>5
  <2> QED
    BY <1>5, <2>1
<1>8. Highest(ink) = b
  <2>1. Highest(ink) <= b /\ Highest(ink) \in Nat /\ b \in Nat
    BY <1>2, <1>3, <1>6
  <2> QED
    BY <1>6, <2>1
<1> QED
    BY <1>2, <1>4, <1>7, <1>8

\* A text of blanks has no core.
LEMMA CoreNone ==
    ASSUME NEW t \in Text, \A i \in 1..Len(t) : t[i] = "sp"
    PROVE  Core[t] = <<>>
<1>1. DOMAIN t = 1..Len(t)
    BY TextShape
<1>2. {i \in DOMAIN t : t[i] # "sp"} = {}
    BY <1>1
<1> QED
    BY <1>2 DEF Core

-----------------------------------------------------------------------------
(* What a buffer adds to the list.                                          *)

\* Trimming both ends, one after the other, leaves the core.
LEMMA TrimsToCore ==
    ASSUME NEW t \in Text
    PROVE  Rtrim[t] \in Text /\ Ltrim[Rtrim[t]] = Core[t]
<1>1. Len(t) \in Nat
    BY TextShape
<1>2. PICK k \in 0..Len(t) : /\ \A i \in 1..Len(t) : i > k => t[i] \in {"sp"}
                             /\ k > 0 => t[k] \notin {"sp"}
    BY Trimmed
<1> DEFINE r == SubSeq(t, 1, k)
<1>3. Rtrim[t] = r
    BY <1>2, TrimIs DEF Rtrim
<1>4. /\ r \in Text /\ Len(r) = k
      /\ \A i \in 1..k : r[i] = t[i]
  <2>1. 1 \in Nat \ {0} /\ k \in Nat /\ k <= Len(t)
    BY <1>1
  <2>2. /\ SubSeq(t, 1, k) \in Text
        /\ Len(SubSeq(t, 1, k)) = IF 1 <= k THEN k - 1 + 1 ELSE 0
        /\ \A i \in 1..(k - 1 + 1) : SubSeq(t, 1, k)[i] = t[1 + i - 1]
    BY <2>1, Stretch
  <2> HIDE DEF r
  <2>3. \A i \in 1..k : SubSeq(t, 1, k)[i] = t[i]
    BY <2>1, <2>2
  <2> QED
    BY <2>1, <2>2, <2>3 DEF r
<1>5. CASE k = 0
  <2>1. r = <<>>
    BY <1>4, <1>5, EmptyText
  <2>2. \A i \in 1..Len(t) : t[i] = "sp"
    BY <1>1, <1>2, <1>5
  <2> QED
    BY <1>3, <2>1, <2>2, CoreNone, LtrimNone, EmptyText
<1>6. CASE k # 0
  <2>1. k \in 1..Len(t) /\ k \in Nat /\ DOMAIN t = 1..Len(t)
    BY <1>1, <1>6, TextShape
  <2>2. k \in Ink(t, {"sp"}) /\ Ink(t, {"sp"}) \in SUBSET Nat
    BY <1>2, <2>1 DEF Ink
  <2>3. PICK a \in Ink(t, {"sp"}) : \A j \in Ink(t, {"sp"}) : a <= j
    BY <2>2, LowestOf
  <2>4. a \in 1..Len(t) /\ a <= k /\ t[a] # "sp"
    BY <2>1, <2>2, <2>3 DEF Ink
  <2>5. \A i \in 1..Len(t) : i < a => t[i] = "sp"
    <3> SUFFICES ASSUME NEW i \in 1..Len(t), i < a, t[i] # "sp" PROVE FALSE
      OBVIOUS
    <3>1. i \in Ink(t, {"sp"})
      BY <2>1 DEF Ink
    <3>2. a <= i
      BY <2>3, <3>1
    <3> QED
      BY <1>1, <2>4, <3>2
  <2>6. Core[t] = SubSeq(t, a, k)
    <3>1. \A i \in 1..Len(t) : i < a \/ i > k => t[i] = "sp"
      BY <1>2, <2>5
    <3>2. t[k] # "sp"
      BY <1>2, <2>1, <1>6
    <3> QED
      BY <2>1, <2>4, <3>1, <3>2, CoreIs
  <2>7. Ltrim[r] = SubSeq(r, a, k)
    <3>1. a \in 1..Len(r) /\ r[a] = t[a]
      BY <1>1, <1>4, <2>4
    <3>2. \A i \in 1..Len(r) : i < a => r[i] = "sp"
      <4> SUFFICES ASSUME NEW i \in 1..Len(r), i < a PROVE r[i] = "sp"
        OBVIOUS
      <4>1. i \in 1..k /\ i \in 1..Len(t)
        BY <1>1, <1>4, <2>1
      <4> QED
        BY <1>4, <2>5, <4>1
    <3> HIDE DEF r
    <3> QED
      BY <1>4, <2>4, <3>1, <3>2, LtrimIs
  <2>8. SubSeq(r, a, k) = SubSeq(t, a, k)
    <3>1. 1 \in 1..Len(t) /\ a \in 1..(k - 1 + 1) /\ k \in 1..(k - 1 + 1)
      BY <1>1, <2>1, <2>4
    <3>2. SubSeq(SubSeq(t, 1, k), a, k) = SubSeq(t, 1 + a - 1, 1 + k - 1)
      BY <2>1, <3>1, SubSeqOfSubSeq DEF Text
    <3>3. 1 + a - 1 = a /\ 1 + k - 1 = k
      BY <1>1, <2>4, <2>1
    <3> QED
      BY <3>2, <3>3
  <2> HIDE DEF r
  <2> QED
    BY <1>3, <1>4, <2>6, <2>7, <2>8
<1> QED
    BY <1>5, <1>6

\* A text that begins with no blank has nothing to lose at its beginning.
LEMMA TrimIsCore ==
    ASSUME NEW t \in Text, t = <<>> \/ Head(t) # "sp"
    PROVE  Rtrim[t] = Core[t]
<1>1. Len(t) \in Nat
    BY TextShape
<1>2. PICK k \in 0..Len(t) : /\ \A i \in 1..Len(t) : i > k => t[i] \in {"sp"}
                             /\ k > 0 => t[k] \notin {"sp"}
    BY Trimmed
<1>3. Rtrim[t] = SubSeq(t, 1, k)
    BY <1>2, TrimIs DEF Rtrim
<1>4. CASE t = <<>>
  <2>1. Len(t) = 0 /\ k = 0
    BY <1>4, EmptyText
  <2>2. SubSeq(t, 1, k) = <<>>
    BY <2>1, SubSeqEmpty
  <2>3. \A i \in 1..Len(t) : t[i] = "sp"
    BY <2>1
  <2> QED
    BY <1>3, <2>2, <2>3, CoreNone
<1>5. CASE t # <<>>
  <2>1. Len(t) >= 1 /\ t[1] # "sp"
    BY <1>5, TextShape
  <2>2. k \in 1..Len(t) /\ 1 \in 1..Len(t)
    BY <1>1, <1>2, <2>1
  <2>3. t[k] # "sp" /\ \A i \in 1..Len(t) : i < 1 \/ i > k => t[i] = "sp"
    BY <1>1, <1>2, <2>2
  <2> QED
    BY <1>3, <2>1, <2>2, <2>3, CoreIs
<1> QED
    BY <1>4, <1>5

\* A buffer is a line, with or without its end.
Holds(buffer, line) ==
    /\ buffer # <<>> /\ Len(line) <= Len(buffer)
    /\ \A i \in 1..Len(line) : buffer[i] = line[i] /\ line[i] # "nl"
    /\ \A i \in 1..Len(buffer) : i > Len(line) => buffer[i] = "nl"

\* The first "=" of a line is at its first place of one.
LEMMA FirstOfLine ==
    ASSUME NEW line \in Text
    PROVE  LET e == Equals[line] IN
           /\ e = IF Places(line, "=") = {} THEN 0 ELSE Lowest(Places(line, "="))
           /\ e # 0 => e \in 1..Len(line) /\ line[e] = "="
<1> DEFINE P == Places(line, "=")
<1>1. Equals[line] = IF P = {} THEN 0 ELSE Lowest(P)
    BY FirstEquals DEF Equals
<1>2. Len(line) \in Nat /\ DOMAIN line = 1..Len(line)
    BY TextShape
<1>3. P \in SUBSET Nat /\ \A i \in P : i \in 1..Len(line) /\ line[i] = "="
    BY <1>2 DEF Places
<1> HIDE DEF P
<1>4. P # {} => Lowest(P) \in P
    BY <1>3, LowestOf
<1> QED
    BY <1>1, <1>3, <1>4 DEF P

\* The line as Load has it, from the buffer.
LEMMA LineOfBuffer ==
    ASSUME NEW line \in Text, NEW buffer \in Text, Holds(buffer, line)
    PROVE  \E k \in 0..Len(line) :
             LET text == SubSeq(line, 1, k) IN
             /\ TrimEnd(buffer, {"nl", "cr", "sp"}) = text
             /\ TrimEnd(line, {"cr", "sp"}) = text
             /\ text \in Text /\ Len(text) = k /\ \A i \in 1..k : text[i] = line[i]
             /\ \A i \in 1..Len(line) : i > k => line[i] # "="
<1>1. Len(line) \in Nat /\ Len(buffer) \in Nat /\ Len(line) <= Len(buffer)
    BY TextShape DEF Holds
<1>2. PICK k \in 0..Len(line) : /\ \A i \in 1..Len(line) : i > k => line[i] \in {"cr", "sp"}
                                /\ k > 0 => line[k] \notin {"cr", "sp"}
    BY Trimmed
<1>3. k \in Nat /\ k <= Len(line) /\ k <= Len(buffer) /\ k \in 0..Len(buffer)
    BY <1>1
<1>4. TrimEnd(line, {"cr", "sp"}) = SubSeq(line, 1, k)
    BY <1>2, TrimIs
<1>5. TrimEnd(buffer, {"nl", "cr", "sp"}) = SubSeq(buffer, 1, k)
  <2>1. ASSUME NEW i \in 1..Len(buffer), i > k PROVE buffer[i] \in {"nl", "cr", "sp"}
    <3>1. CASE i <= Len(line)
      <4>1. i \in 1..Len(line)
        BY <1>1, <3>1
      <4>2. buffer[i] = line[i] /\ line[i] \in {"cr", "sp"}
        BY <1>2, <2>1, <4>1 DEF Holds
      <4> QED
        BY <4>2
    <3>2. CASE ~(i <= Len(line))
      <4>1. buffer[i] = "nl"
        BY <1>1, <3>2 DEF Holds
      <4> QED
        BY <4>1
    <3> QED
      BY <3>1, <3>2
  <2>2. ASSUME k > 0 PROVE buffer[k] \notin {"nl", "cr", "sp"}
    <3>1. k \in 1..Len(line)
      BY <1>3, <2>2
    <3>2. buffer[k] = line[k] /\ line[k] # "nl"
      BY <3>1 DEF Holds
    <3> QED
      BY <1>2, <2>2, <3>2
  <2> QED
    BY <1>3, <2>1, <2>2, TrimIs
<1>6. ASSUME NEW t \in {line, buffer}
      PROVE  /\ SubSeq(t, 1, k) \in Text /\ Len(SubSeq(t, 1, k)) = k
             /\ \A i \in 1..k : SubSeq(t, 1, k)[i] = t[i]
  <2>1. t \in Text /\ 1 \in Nat \ {0} /\ k <= Len(t)
    BY <1>3
  <2>2. /\ SubSeq(t, 1, k) \in Text
        /\ Len(SubSeq(t, 1, k)) = IF 1 <= k THEN k - 1 + 1 ELSE 0
        /\ \A i \in 1..(k - 1 + 1) : SubSeq(t, 1, k)[i] = t[1 + i - 1]
    BY <1>3, <2>1, Stretch
  <2>3. Len(SubSeq(t, 1, k)) = k
    BY <1>3, <2>2
  <2>4. \A i \in 1..k : SubSeq(t, 1, k)[i] = t[i]
    BY <1>3, <2>2
  <2> QED
    BY <2>2, <2>3, <2>4
<1>7. SubSeq(buffer, 1, k) = SubSeq(line, 1, k)
  <2> DEFINE b == SubSeq(buffer, 1, k)
             l == SubSeq(line, 1, k)
  <2>1. /\ b \in Seq(STRING) /\ Len(b) = k /\ \A i \in 1..k : b[i] = buffer[i]
        /\ l \in Seq(STRING) /\ Len(l) = k /\ \A i \in 1..k : l[i] = line[i]
    BY <1>6 DEF Text
  <2>2. \A i \in 1..k : buffer[i] = line[i]
    <3>1. \A i \in 1..k : i \in 1..Len(line)
      BY <1>3
    <3> QED
      BY <3>1 DEF Holds
  <2> HIDE DEF b, l
  <2>3. b = l
    BY <2>1, <2>2, SeqEqual
  <2> QED
    BY <2>3 DEF b, l
<1>8. \A i \in 1..Len(line) : i > k => line[i] # "="
    BY <1>2
<1> QED
    BY <1>4, <1>5, <1>6, <1>7, <1>8

\* A line that fits makes the item that the file means by it, or none.
LEMMA BufferItems ==
    ASSUME NEW line \in Text, NEW buffer \in Text, Holds(buffer, line),
           IsItem(line) => Equals[line] <= ItemNameSize
    PROVE  ItemsOf[buffer] = IF IsItem(line) THEN <<Meant(line)>> ELSE <<>>
<1>1. PICK k \in 0..Len(line) :
             LET text == SubSeq(line, 1, k) IN
             /\ TrimEnd(buffer, {"nl", "cr", "sp"}) = text
             /\ TrimEnd(line, {"cr", "sp"}) = text
             /\ text \in Text /\ Len(text) = k /\ \A i \in 1..k : text[i] = line[i]
             /\ \A i \in 1..Len(line) : i > k => line[i] # "="
    BY LineOfBuffer
<1> DEFINE text == SubSeq(line, 1, k)
           e == Equals[line]
<1>2. /\ TrimEnd(buffer, {"nl", "cr", "sp"}) = text
      /\ TrimEnd(line, {"cr", "sp"}) = text
      /\ text \in Text /\ Len(text) = k /\ \A i \in 1..k : text[i] = line[i]
      /\ \A i \in 1..Len(line) : i > k => line[i] # "="
    BY <1>1
<1>3. /\ Len(line) \in Nat /\ Len(buffer) \in Nat /\ k \in Nat /\ k <= Len(line)
      /\ DOMAIN line = 1..Len(line) /\ DOMAIN text = 1..k
    BY <1>2, TextShape
<1>4. /\ e = IF Places(line, "=") = {} THEN 0 ELSE Lowest(Places(line, "="))
      /\ e # 0 => e \in 1..Len(line) /\ line[e] = "="
    BY FirstOfLine
<1> HIDE DEF text, e
<1>5. Places(text, "=") = Places(line, "=")
    BY <1>2, <1>3 DEF Places
<1>6. FirstThat(text, LAMBDA c : c = "=") = e
    BY <1>2, <1>4, <1>5, FirstEquals
<1>7. e # 0 => e \in 1..k
    BY <1>2, <1>3, <1>4
<1>8. ItemsOf[buffer] = IF \/ Head(buffer) \in Comment \/ text = <<>> \/ Head(text) = "["
                           \/ e = 0
                        THEN <<>> ELSE <<Item[text]>>
    BY <1>2, <1>6 DEF ItemsOf
<1>9. CASE e = 0
    BY <1>8, <1>9 DEF IsItem, e
<1>10. CASE e # 0
  <2>1. /\ k >= 1 /\ Len(line) >= 1 /\ text # <<>> /\ line # <<>> /\ Len(buffer) >= 1
        /\ 1 \in 1..k /\ 1 \in 1..Len(line) /\ buffer # <<>>
    BY <1>2, <1>3, <1>7, <1>10, EmptyText DEF Holds
  <2>2. Head(text) = line[1] /\ Head(line) = line[1] /\ Head(buffer) = line[1]
    <3>1. Head(text) = text[1] /\ Head(line) = line[1] /\ Head(buffer) = buffer[1]
      BY <1>2, <2>1, TextShape
    <3>2. text[1] = line[1] /\ buffer[1] = line[1]
      BY <1>2, <2>1 DEF Holds
    <3> QED
      BY <3>1, <3>2
  <2>3. IsItem(line) <=> line[1] \notin Comment /\ line[1] # "["
    BY <1>10, <2>2 DEF IsItem, e
  <2>4. CASE ~IsItem(line)
    BY <1>8, <2>2, <2>3, <2>4
  <2>5. CASE IsItem(line)
    <3>1. ItemsOf[buffer] = <<Item[text]>>
      BY <1>8, <1>10, <2>1, <2>2, <2>3, <2>5
    <3> DEFINE name == Before(text, e)
               content == After(text, e)
    <3>2. e \in Nat /\ e >= 1 /\ e <= k /\ e <= ItemNameSize /\ ItemNameSize \in Nat
      BY <1>3, <1>7, <1>10, <2>5, ConfigAssumption DEF e
    <3>3. /\ name \in Text /\ Len(name) = e - 1
          /\ e > 1 => name[1] = line[1]
      <4>1. 1 \in Nat \ {0} /\ e - 1 \in Nat /\ e - 1 <= Len(text)
        BY <1>2, <3>2
      <4>2. /\ SubSeq(text, 1, e - 1) \in Text
            /\ Len(SubSeq(text, 1, e - 1)) = IF 1 <= e - 1 THEN (e - 1) - 1 + 1 ELSE 0
            /\ \A i \in 1..((e - 1) - 1 + 1) : SubSeq(text, 1, e - 1)[i] = text[1 + i - 1]
        BY <1>2, <4>1, Stretch
      <4>3. Len(SubSeq(text, 1, e - 1)) = e - 1
        BY <3>2, <4>2
      <4>4. e > 1 => SubSeq(text, 1, e - 1)[1] = text[1]
        <5> SUFFICES ASSUME e > 1 PROVE SubSeq(text, 1, e - 1)[1] = text[1]
          OBVIOUS
        <5>1. 1 \in 1..((e - 1) - 1 + 1) /\ 1 + 1 - 1 = 1
          BY <3>2
        <5>2. SubSeq(text, 1, e - 1)[1] = text[1 + 1 - 1]
          BY <4>2, <5>1
        <5> QED
          BY <5>1, <5>2
      <4> QED
        BY <1>2, <2>1, <4>2, <4>3, <4>4 DEF Before
    <3>4. content \in Text
      <4>1. e + 1 \in Nat \ {0} /\ Len(text) \in Nat /\ Len(text) <= Len(text)
        BY <1>2, <1>3, <3>2
      <4>2. SubSeq(text, e + 1, Len(text)) \in Text
        BY <1>2, <4>1, Stretch
      <4> QED
        BY <4>2 DEF After
    <3>5. Rtrim[name] = Core[name]
      <4>1. line[1] # "sp"
        BY <2>3, <2>5 DEF Comment
      <4>2. name = <<>> \/ Head(name) # "sp"
        <5> HIDE DEF name
        <5>1. CASE e = 1
          <6>1. Len(name) = 0
            BY <3>3, <5>1
          <6> QED
            BY <3>3, <6>1, EmptyText
        <5>2. CASE e > 1
          BY <3>3, <4>1, <5>2, TextShape
        <5> QED
          BY <3>2, <5>1, <5>2
      <4> HIDE DEF name
      <4> QED
        BY <3>3, <4>2, TrimIsCore
    <3>6. Ltrim[Rtrim[content]] = Core[content]
      <4> HIDE DEF content
      <4> QED
        BY <3>4, TrimsToCore
    <3>7. Len(name) < ItemNameSize
      <4> HIDE DEF name
      <4> QED
        BY <3>2, <3>3
    <3>8. Item[text] = <<Rtrim[name], Ltrim[Rtrim[content]]>>
      BY <1>2, <1>6, <3>7 DEF Item
    <3>9. Meant(line) = <<Core[name], Core[content]>>
      BY <1>2 DEF Meant, e
    <3> HIDE DEF name, content
    <3> QED
      BY <2>5, <3>1, <3>5, <3>6, <3>8, <3>9
  <2> QED
    BY <2>4, <2>5
<1> QED
    BY <1>9, <1>10

-----------------------------------------------------------------------------
(* Load.                                                                   *)

\* How much of the file was read.
Gone == Len(file) - Len(rest)

Entries == {Meant(LineAt(i)) : i \in Items}

\* What is left begins a line, and what is gone is in the list.
Reading ==
    /\ file \in Text /\ rest \in Text /\ eof \in BOOLEAN
    /\ Len(rest) <= Len(file)
    /\ \A i \in 1..Len(rest) : rest[i] = file[Gone + i]
    /\ load = "true" => eof
    /\ Fits => /\ rest # <<>> => Begins(Gone + 1)
               /\ eof => rest = <<>>
               /\ m_ConfigItemList \in Seq(Entries)
               /\ Listed(Gone)

\* What is gone and what is left are the file.
LEMMA GoneNat ==
    ASSUME Reading
    PROVE  /\ Gone \in Nat /\ Gone + Len(rest) = Len(file)
           /\ Len(rest) \in Nat /\ Len(file) \in Nat
BY TextShape DEF Reading, Gone

\* The line that is read next.
LEMMA LineAtGone ==
    ASSUME Reading
    PROVE  From(file, Gone + 1) = rest
<1>1. /\ Gone \in Nat /\ Gone + Len(rest) = Len(file)
      /\ Len(rest) \in Nat /\ Len(file) \in Nat
    BY GoneNat
<1> DEFINE f == SubSeq(file, Gone + 1, Len(file))
           g == Gone
<1>2. file \in Text /\ rest \in Text /\ \A i \in 1..Len(rest) : rest[i] = file[g + i]
    BY DEF Reading
<1> HIDE DEF g
<1>3. g \in Nat /\ g + Len(rest) = Len(file) /\ f = SubSeq(file, g + 1, Len(file))
    BY <1>1 DEF g
<1> HIDE DEF f
<1>4. /\ f \in Text /\ Len(f) = IF g + 1 <= Len(file) THEN Len(file) - (g + 1) + 1 ELSE 0
      /\ \A i \in 1..(Len(file) - (g + 1) + 1) : f[i] = file[(g + 1) + i - 1]
  <2>1. g + 1 \in Nat \ {0} /\ Len(file) <= Len(file)
    BY <1>1, <1>3
  <2> QED
    BY <1>1, <1>2, <1>3, <2>1, Stretch
<1>5. Len(f) = Len(rest)
    BY <1>1, <1>3, <1>4
<1>6. ASSUME NEW i \in 1..Len(f) PROVE f[i] = rest[i]
  <2>1. i \in 1..(Len(file) - (g + 1) + 1) /\ (g + 1) + i - 1 = g + i /\ i \in 1..Len(rest)
    BY <1>1, <1>3, <1>5
  <2>2. f[i] = file[(g + 1) + i - 1]
    BY <1>4, <2>1
  <2> QED
    BY <1>2, <2>1, <2>2
<1>7. f = rest
  <2>1. f \in Seq(STRING) /\ rest \in Seq(STRING)
    BY <1>2, <1>4 DEF Text
  <2> QED
    BY <1>5, <1>6, <2>1, SeqEqual
<1> QED
    BY <1>7 DEF From, f

\* What fgets leaves in the buffer, and what it leaves of the file.
LEMMA NextBuffer ==
    ASSUME Reading, Fits, ReadLine
    PROVE  \E n \in 1..Len(rest) :
             LET line == LineAt(Gone + 1) IN
             /\ line \in Text /\ lines' \in Text /\ Holds(lines', line)
             /\ rest' = After(rest, n)
             /\ eof' \in BOOLEAN /\ (eof' => n = Len(rest))
             /\ n < Len(rest) => rest[n] = "nl"
             /\ \A i \in 1..(n - 1) : rest[i] # "nl"
<1> DEFINE end == FirstThat(rest, LAMBDA c : c = "nl")
           whole == IF end = 0 THEN Len(rest) ELSE end
           n == IF whole < LinesSize THEN whole ELSE LinesSize - 1
           p == Gone + 1
           line == LineAt(p)
           P == Places(rest, "nl")
<1>1. /\ rest # <<>> /\ lines' = SubSeq(rest, 1, n) /\ rest' = After(rest, n)
      /\ eof' = (end = 0 /\ Len(rest) < LinesSize - 1)
    BY DEF ReadLine
<1>2. end = IF P = {} THEN 0 ELSE Lowest(P)
    BY FirstNl DEF Reading
<1>3. line = IF end = 0 THEN rest ELSE Before(rest, end)
    BY LineAtGone DEF LineAt, FirstLine, Reading
<1>4. Len(line) < LinesSize - 1
  <2>1. Begins(p)
    BY <1>1 DEF Reading
  <2> HIDE DEF p
  <2>2. p \in DOMAIN file
    BY <2>1 DEF Begins
  <2> QED
    BY <2>1, <2>2 DEF Fits
<1> HIDE DEF end, p, line, P, n
<1>5. /\ rest \in Text /\ Len(rest) \in Nat /\ Len(rest) >= 1 /\ DOMAIN rest = 1..Len(rest)
      /\ LinesSize \in Nat /\ LinesSize > 1
    BY <1>1, TextShape, ConfigAssumption DEF Reading
<1>6. P \in SUBSET Nat /\ \A i \in 1..Len(rest) : i \in P <=> rest[i] = "nl"
    BY <1>5 DEF P, Places
<1>7. \A i \in P : i \in 1..Len(rest)
    BY <1>5 DEF P, Places
<1>8. CASE P = {}
  <2>1. end = 0 /\ line = rest
    BY <1>2, <1>3, <1>8
  <2>2. n = Len(rest)
    BY <1>4, <1>5, <2>1 DEF n
  <2>3. lines' = rest
    BY <1>1, <1>5, <2>2, SubSeqFull DEF Text
  <2>4. \A i \in 1..Len(rest) : rest[i] # "nl"
    BY <1>6, <1>8
  <2>5. Holds(lines', line)
    <3>1. \A i \in 1..Len(rest) : ~(i > Len(rest))
      BY <1>5
    <3>2. Holds(rest, rest)
      BY <1>1, <1>5, <2>4, <3>1 DEF Holds
    <3> QED
      BY <2>1, <2>3, <3>2
  <2>6. n \in 1..Len(rest) /\ ~(n < Len(rest))
    BY <1>5, <2>2
  <2>7. \A i \in 1..(n - 1) : rest[i] # "nl"
    <3>1. \A i \in 1..(n - 1) : i \in 1..Len(rest)
      BY <1>5, <2>2
    <3> QED
      BY <2>4, <3>1
  <2>8. line \in Text /\ lines' \in Text /\ eof' \in BOOLEAN
    BY <1>1, <1>5, <2>1, <2>3
  <2> QED
    BY <1>1, <2>2, <2>5, <2>6, <2>7, <2>8 DEF line, p
<1>9. CASE P # {}
  <2>1. end \in P /\ \A i \in P : end <= i
    BY <1>2, <1>6, <1>9, LowestOf
  <2>2. end \in 1..Len(rest) /\ end # 0 /\ end \in Nat /\ rest[end] = "nl"
    BY <1>6, <1>7, <2>1
  <2>3. /\ line \in Text /\ Len(line) = end - 1
        /\ \A i \in 1..(end - 1) : line[i] = rest[i]
    <3>1. 1 \in Nat \ {0} /\ end - 1 \in Nat /\ end - 1 <= Len(rest)
      BY <1>5, <2>2
    <3>2. line = SubSeq(rest, 1, end - 1)
      BY <1>3, <2>2 DEF Before
    <3>3. /\ line \in Text /\ Len(line) = IF 1 <= end - 1 THEN (end - 1) - 1 + 1 ELSE 0
          /\ \A i \in 1..((end - 1) - 1 + 1) : line[i] = rest[1 + i - 1]
      BY <1>5, <3>1, <3>2, Stretch
    <3>4. Len(line) = end - 1
      BY <2>2, <3>3
    <3>5. ASSUME NEW i \in 1..(end - 1) PROVE line[i] = rest[i]
      <4>1. i \in 1..((end - 1) - 1 + 1) /\ 1 + i - 1 = i
        BY <2>2
      <4>2. line[i] = rest[1 + i - 1]
        BY <3>3, <4>1
      <4> QED
        BY <4>1, <4>2
    <3> QED
      BY <3>3, <3>4, <3>5
  <2>4. n = end
    BY <1>4, <1>5, <2>2, <2>3 DEF n
  <2>5. /\ lines' \in Text /\ Len(lines') = end
        /\ \A i \in 1..end : lines'[i] = rest[i]
    <3>1. 1 \in Nat \ {0} /\ end <= Len(rest)
      BY <2>2
    <3>2. lines' = SubSeq(rest, 1, end)
      BY <1>1, <2>4
    <3> DEFINE b == lines'
    <3>3. b = SubSeq(rest, 1, end)
      BY <3>2
    <3> HIDE DEF b
    <3>4. /\ b \in Text /\ Len(b) = IF 1 <= end THEN end - 1 + 1 ELSE 0
          /\ \A i \in 1..(end - 1 + 1) : b[i] = rest[1 + i - 1]
      BY <1>5, <2>2, <3>1, <3>3, Stretch
    <3>5. Len(b) = end
      BY <2>2, <3>4
    <3>6. ASSUME NEW i \in 1..end PROVE b[i] = rest[i]
      <4>1. i \in 1..(end - 1 + 1) /\ 1 + i - 1 = i
        BY <2>2
      <4>2. b[i] = rest[1 + i - 1]
        BY <3>4, <4>1
      <4> QED
        BY <4>1, <4>2
    <3> QED
      BY <3>4, <3>5, <3>6 DEF b
  <2>6. \A i \in 1..(end - 1) : rest[i] # "nl"
    <3> SUFFICES ASSUME NEW i \in 1..(end - 1), rest[i] = "nl" PROVE FALSE
      OBVIOUS
    <3>1. i \in 1..Len(rest) /\ i < end
      BY <2>2, <1>5
    <3> QED
      BY <1>6, <2>1, <3>1
  <2>7. Holds(lines', line)
    <3> DEFINE b == lines'
    <3>1. b \in Text /\ Len(b) = end /\ \A i \in 1..end : b[i] = rest[i]
      BY <2>5
    <3> HIDE DEF b
    <3>2. b # <<>> /\ Len(line) <= Len(b)
      BY <2>2, <2>3, <3>1, EmptyText
    <3>3. ASSUME NEW i \in 1..Len(line) PROVE b[i] = line[i] /\ line[i] # "nl"
      <4>1. i \in 1..(end - 1) /\ i \in 1..end
        BY <2>2, <2>3
      <4> QED
        BY <2>3, <2>6, <3>1, <4>1
    <3>4. ASSUME NEW i \in 1..Len(b), i > Len(line) PROVE b[i] = "nl"
      <4>1. i = end
        BY <2>2, <2>3, <3>1, <3>4
      <4> QED
        BY <2>2, <3>1, <4>1
    <3>5. Holds(b, line)
      BY <3>2, <3>3, <3>4 DEF Holds
    <3> QED
      BY <3>5 DEF b
  <2>8. /\ n \in 1..Len(rest) /\ eof' \in BOOLEAN /\ (eof' => n = Len(rest))
        /\ n < Len(rest) => rest[n] = "nl"
    BY <1>1, <2>2, <2>4
  <2> QED
    BY <1>1, <2>3, <2>4, <2>5, <2>6, <2>7, <2>8 DEF line, p
<1> QED
    BY <1>8, <1>9

\* What the file says does not change.
LEMMA SameFile ==
    ASSUME file' = file
    PROVE  /\ Fits' = Fits /\ Items' = Items /\ Entries' = Entries
           /\ \A i : Begins(i)' = Begins(i)
           /\ \A i : LineAt(i)' = LineAt(i)
           /\ \A n : ItemsUpTo(n)' = ItemsUpTo(n)
<1>1. \A i : Begins(i)' = Begins(i)
    BY DEF Begins
<1>2. \A i : LineAt(i)' = LineAt(i)
    BY DEF LineAt
<1>3. Fits' = Fits
    BY DEF Fits, Begins, LineAt, IsItem
<1>4. Items' = Items
    BY DEF Items, Begins, LineAt, IsItem
<1>5. \A n : ItemsUpTo(n)' = ItemsUpTo(n)
    BY <1>4 DEF ItemsUpTo
<1>6. Entries' = Entries
    BY <1>4 DEF Entries, Meant, LineAt
<1> QED
    BY <1>1, <1>2, <1>3, <1>4, <1>5, <1>6

\* The items begin at places of the file.
LEMMA ItemPlaces ==
    ASSUME Reading
    PROVE  /\ Items \in SUBSET (1..Len(file))
           /\ \A n : ItemsUpTo(n) \subseteq Items /\ IsFiniteSet(ItemsUpTo(n))
                     /\ Cardinality(ItemsUpTo(n)) \in Nat
<1>1. Len(file) \in Nat /\ DOMAIN file = 1..Len(file)
    BY TextShape DEF Reading
<1>2. Items \in SUBSET (1..Len(file))
    BY <1>1 DEF Items, Begins
<1>3. IsFiniteSet(Items)
  <2>1. IsFiniteSet(1..Len(file))
    BY <1>1, FS_Interval
  <2> QED
    BY <1>2, <2>1, FS_Subset
<1>4. ASSUME NEW n
      PROVE  /\ ItemsUpTo(n) \subseteq Items /\ IsFiniteSet(ItemsUpTo(n))
             /\ Cardinality(ItemsUpTo(n)) \in Nat
  <2>1. ItemsUpTo(n) \in SUBSET Items
    BY DEF ItemsUpTo
  <2>2. IsFiniteSet(ItemsUpTo(n))
    BY <1>3, <2>1, FS_Subset
  <2> QED
    BY <2>1, <2>2, FS_CardinalityType
<1> QED
    BY <1>2, <1>4

\* Of the places that were read, only the first may begin an item.
LEMMA NextItems ==
    ASSUME Reading, Fits, rest # <<>>, NEW n \in 1..Len(rest),
           \A i \in 1..(n - 1) : rest[i] # "nl"
    PROVE  ItemsUpTo(Gone + n)
             = ItemsUpTo(Gone) \cup (IF IsItem(LineAt(Gone + 1)) THEN {Gone + 1} ELSE {})
<1> DEFINE g == Gone
           p == g + 1
<1>1. /\ g \in Nat /\ g + Len(rest) = Len(file)
      /\ Len(rest) \in Nat /\ Len(file) \in Nat
    BY GoneNat
<1>2. \A i \in 1..Len(rest) : rest[i] = file[g + i]
    BY DEF Reading
<1>3. Begins(p)
    BY DEF Reading
<1>4. Items \in SUBSET (1..Len(file))
    BY ItemPlaces
<1> HIDE DEF g
<1>5. p \in Items <=> IsItem(LineAt(p))
  <2> HIDE DEF p
  <2>1. p \in DOMAIN file
    BY <1>3 DEF Begins
  <2> QED
    BY <1>3, <2>1 DEF Items
<1>6. ASSUME NEW i \in Items, i > p, i <= g + n PROVE FALSE
  <2>1. i \in Nat /\ i - 1 - g \in 1..(n - 1) /\ i - 1 - g \in 1..Len(rest)
        /\ g + (i - 1 - g) = i - 1 /\ i # 1
    BY <1>1, <1>4, <1>6
  <2>2. file[i - 1] = "nl"
    BY <2>1 DEF Items, Begins
  <2>3. rest[i - 1 - g] = file[g + (i - 1 - g)]
    BY <1>2, <2>1
  <2>4. rest[i - 1 - g] = "nl"
    BY <2>1, <2>2, <2>3
  <2> QED
    BY <2>1, <2>4
<1>7. ASSUME NEW i \in ItemsUpTo(g + n)
      PROVE  i \in ItemsUpTo(g) \/ (IsItem(LineAt(p)) /\ i = p)
  <2>1. i \in Items /\ i \in Nat /\ i <= g + n
    BY <1>4 DEF ItemsUpTo
  <2>2. i <= g \/ i = p \/ i > p
    BY <1>1, <2>1
  <2>3. CASE i <= g
    BY <2>1, <2>3 DEF ItemsUpTo
  <2>4. CASE i = p
    BY <1>5, <2>1, <2>4
  <2>5. CASE i > p
    BY <1>6, <2>1, <2>5
  <2> QED
    BY <2>2, <2>3, <2>4, <2>5
<1>8. ASSUME NEW i \in ItemsUpTo(g) PROVE i \in ItemsUpTo(g + n)
  <2>1. i \in Items /\ i \in Nat /\ i <= g
    BY <1>4 DEF ItemsUpTo
  <2>2. i <= g + n
    BY <1>1, <2>1
  <2> QED
    BY <2>1, <2>2 DEF ItemsUpTo
<1>9. IsItem(LineAt(p)) => p \in ItemsUpTo(g + n)
  <2>1. p <= g + n
    BY <1>1
  <2> QED
    BY <1>5, <2>1 DEF ItemsUpTo
<1>10. ItemsUpTo(g + n) = ItemsUpTo(g) \cup (IF IsItem(LineAt(p)) THEN {p} ELSE {})
    BY <1>7, <1>8, <1>9
<1> QED
    BY <1>10 DEF g

\* The list after a line.
LEMMA ListGrows ==
    ASSUME Reading, Fits, rest # <<>>, file' = file, NEW n \in 1..Len(rest),
           \A i \in 1..(n - 1) : rest[i] # "nl",
           m_ConfigItemList' = m_ConfigItemList
               \o (IF IsItem(LineAt(Gone + 1)) THEN <<Meant(LineAt(Gone + 1))>> ELSE <<>>)
    PROVE  /\ m_ConfigItemList' \in Seq(Entries)
           /\ Len(m_ConfigItemList') = Cardinality(ItemsUpTo(Gone + n))
           /\ \A i \in ItemsUpTo(Gone + n) :
                 m_ConfigItemList'[Cardinality(ItemsUpTo(i))] = Meant(LineAt(i))
<1> DEFINE g == Gone
           p == g + 1
           old == m_ConfigItemList
           new == m_ConfigItemList'
           C(i) == Cardinality(ItemsUpTo(i))
<1>1. g \in Nat /\ p # g /\ Len(rest) \in Nat
    BY GoneNat
<1>2. /\ old \in Seq(Entries) /\ Len(old) = C(g)
      /\ \A i \in ItemsUpTo(g) : old[C(i)] = Meant(LineAt(i))
    BY DEF Reading, Listed
<1>3. /\ Items \in SUBSET (1..Len(file))
      /\ \A i : ItemsUpTo(i) \subseteq Items /\ IsFiniteSet(ItemsUpTo(i)) /\ C(i) \in Nat
    BY ItemPlaces
<1>4. ItemsUpTo(g + n) = ItemsUpTo(g) \cup (IF IsItem(LineAt(p)) THEN {p} ELSE {})
    BY NextItems
<1>5. new = old \o (IF IsItem(LineAt(p)) THEN <<Meant(LineAt(p))>> ELSE <<>>)
    OBVIOUS
<1>6. Begins(p)
    BY DEF Reading
<1>7. p \in DOMAIN file
    BY <1>6 DEF Begins
<1> HIDE DEF g, old, new
\* An item up to g is one of the first C(g).
<1>8. ASSUME NEW i \in ItemsUpTo(g) PROVE C(i) \in 1..C(g)
  <2>1. i \in Items /\ i <= g /\ i \in Nat
    BY <1>3 DEF ItemsUpTo
  <2>2. ItemsUpTo(i) \in SUBSET ItemsUpTo(g)
    <3> SUFFICES ASSUME NEW j \in ItemsUpTo(i) PROVE j \in ItemsUpTo(g)
      OBVIOUS
    <3>1. j \in Items /\ j <= i /\ j \in Nat
      BY <1>3 DEF ItemsUpTo
    <3>2. j <= g
      BY <1>1, <2>1, <3>1
    <3> QED
      BY <3>1, <3>2 DEF ItemsUpTo
  <2>3. C(i) <= C(g)
    BY <1>3, <2>2, FS_Subset
  <2>4. i \in ItemsUpTo(i)
    BY <2>1 DEF ItemsUpTo
  <2>5. C(i) # 0
    BY <1>3, <2>4, FS_EmptySet
  <2>6. C(i) \in Nat /\ C(g) \in Nat
    BY <1>3
  <2> HIDE DEF C
  <2> QED
    BY <2>3, <2>5, <2>6
<1>9. CASE ~IsItem(LineAt(p))
  <2>1. ItemsUpTo(g + n) = ItemsUpTo(g)
    BY <1>4, <1>9
  <2>2. new = old
    BY <1>2, <1>5, <1>9, ConcatEmptySeq
  <2> QED
    BY <1>2, <2>1, <2>2 DEF g, new
<1>10. CASE IsItem(LineAt(p))
  <2>1. p \in Items
    BY <1>6, <1>7, <1>10 DEF Items
  <2> DEFINE m == Meant(LineAt(p))
  <2>2. m \in Entries
    BY <2>1 DEF Entries
  <2>3. p \notin ItemsUpTo(g)
    BY <1>1 DEF ItemsUpTo
  <2>4. ItemsUpTo(g + n) = ItemsUpTo(g) \cup {p}
    BY <1>4, <1>10
  <2>5. C(g + n) = C(g) + 1
    BY <1>3, <2>3, <2>4, FS_AddElement
  <2>6. new = Append(old, m)
    BY <1>2, <1>5, <1>10, <2>2, AppendIsConcat
  <2> HIDE DEF m
  <2>7. /\ new \in Seq(Entries) /\ Len(new) = Len(old) + 1
        /\ \A i \in 1..Len(old) : new[i] = old[i]
        /\ new[Len(old) + 1] = m
    BY <1>2, <2>2, <2>6, AppendProperties
  <2>8. Len(new) = C(g + n)
    BY <1>2, <2>5, <2>7
  <2>9. ASSUME NEW i \in ItemsUpTo(g + n) PROVE new[C(i)] = Meant(LineAt(i))
    <3>1. CASE i \in ItemsUpTo(g)
      <4>1. C(i) \in 1..Len(old)
        BY <1>2, <1>8, <3>1
      <4>2. old[C(i)] = Meant(LineAt(i))
        BY <1>2, <3>1
      <4> HIDE DEF C
      <4> QED
        BY <2>7, <4>1, <4>2
    <3>2. CASE i = p
      <4>1. ItemsUpTo(p) = ItemsUpTo(g) \cup {p}
        <5>1. \A j \in Items : j <= p <=> j <= g \/ j = p
          BY <1>1, <1>3
        <5>2. p <= p
          BY <1>1
        <5> HIDE DEF p
        <5> QED
          BY <2>1, <5>1, <5>2 DEF ItemsUpTo
      <4>2. C(i) = Len(old) + 1
        BY <1>2, <2>4, <2>5, <3>2, <4>1
      <4> HIDE DEF C
      <4> QED
        BY <2>7, <3>2, <4>2 DEF m
    <3> QED
      BY <2>4, <3>1, <3>2
  <2> QED
    BY <2>7, <2>8, <2>9 DEF g, new
<1> QED
    BY <1>9, <1>10

\* A stretch of the rest, and what is left behind it.
LEMMA RestLeft ==
    ASSUME Reading, file' = file, NEW n \in 1..Len(rest), rest' = After(rest, n)
    PROVE  /\ rest' \in Text /\ Len(rest') = Len(rest) - n /\ Gone' = Gone + n
           /\ \A i \in 1..Len(rest') : rest'[i] = file[(Gone + n) + i]
           /\ rest' # <<>> => n < Len(rest)
<1> DEFINE g == Gone
           r == rest'
<1>1. /\ g \in Nat /\ g + Len(rest) = Len(file)
      /\ Len(rest) \in Nat /\ Len(file) \in Nat
    BY GoneNat
<1>2. rest \in Text /\ \A i \in 1..Len(rest) : rest[i] = file[g + i]
    BY DEF Reading
<1>3. r = SubSeq(rest, n + 1, Len(rest))
    BY DEF After
<1>4. Gone' = Len(file) - Len(r)
    BY DEF Gone
<1> HIDE DEF g, r
<1>5. /\ r \in Text /\ Len(r) = IF n + 1 <= Len(rest) THEN Len(rest) - (n + 1) + 1 ELSE 0
      /\ \A i \in 1..(Len(rest) - (n + 1) + 1) : r[i] = rest[(n + 1) + i - 1]
  <2>1. n + 1 \in Nat \ {0} /\ Len(rest) <= Len(rest)
    BY <1>1
  <2> QED
    BY <1>1, <1>2, <1>3, <2>1, Stretch
<1>6. Len(r) = Len(rest) - n
    BY <1>1, <1>5
<1>7. Gone' = g + n
    BY <1>1, <1>4, <1>6
<1>8. ASSUME NEW i \in 1..Len(r) PROVE r[i] = file[(g + n) + i]
  <2>1. /\ i \in 1..(Len(rest) - (n + 1) + 1) /\ (n + 1) + i - 1 = n + i
        /\ n + i \in 1..Len(rest) /\ g + (n + i) = (g + n) + i
    BY <1>1, <1>6
  <2>2. r[i] = rest[n + i]
    BY <1>5, <2>1
  <2> QED
    BY <1>2, <2>1, <2>2
<1>9. r # <<>> => n < Len(rest)
  <2>1. Len(r) = 0 => r = <<>>
    BY <1>5, EmptyText
  <2> QED
    BY <1>1, <1>6, <2>1
<1> QED
    BY <1>5, <1>6, <1>7, <1>8, <1>9 DEF g, r

\* How many characters a turn takes, whether or not the lines fit.
LEMMA LineTaken ==
    ASSUME Reading, ReadLine
    PROVE  \E n \in 1..Len(rest) : rest' = After(rest, n) /\ eof' \in BOOLEAN
<1> DEFINE end == FirstThat(rest, LAMBDA c : c = "nl")
           whole == IF end = 0 THEN Len(rest) ELSE end
           n == IF whole < LinesSize THEN whole ELSE LinesSize - 1
           P == Places(rest, "nl")
<1>1. /\ rest # <<>> /\ rest' = After(rest, n)
      /\ eof' = (end = 0 /\ Len(rest) < LinesSize - 1)
    BY DEF ReadLine
<1>2. end = IF P = {} THEN 0 ELSE Lowest(P)
    BY FirstNl DEF Reading
<1>3. /\ Len(rest) \in Nat /\ Len(rest) >= 1 /\ DOMAIN rest = 1..Len(rest)
      /\ LinesSize \in Nat /\ LinesSize > 1
    BY <1>1, TextShape, ConfigAssumption DEF Reading
<1>4. P \in SUBSET Nat /\ \A i \in P : i \in 1..Len(rest)
    BY <1>3 DEF Places
<1> HIDE DEF end, P, n
<1>5. end = 0 \/ end \in 1..Len(rest)
    BY <1>2, <1>4, LowestOf
<1>6. whole \in 1..Len(rest)
    BY <1>3, <1>5
<1>7. n \in 1..Len(rest)
    BY <1>3, <1>6 DEF n
<1>8. eof' \in BOOLEAN
    BY <1>1
<1> QED
    BY <1>1, <1>7, <1>8

\* A line that is read keeps what is gone in the list.
LEMMA ReadLineKeeps == ASSUME Reading, ReadLine PROVE Reading'
<1>1. file' = file /\ load' = load /\ load = "loop" /\ rest # <<>>
    BY DEF ReadLine
<1>2. PICK n \in 1..Len(rest) : rest' = After(rest, n) /\ eof' \in BOOLEAN
    BY LineTaken
<1>3. /\ rest' \in Text /\ Len(rest') = Len(rest) - n /\ Gone' = Gone + n
      /\ \A i \in 1..Len(rest') : rest'[i] = file[(Gone + n) + i]
    BY <1>1, <1>2, RestLeft
<1>4. Len(rest') <= Len(file')
    BY <1>1, <1>3, GoneNat
<1>5. \A i \in 1..Len(rest') : rest'[i] = file'[Gone' + i]
    BY <1>1, <1>3
<1>6. ASSUME Fits'
      PROVE  /\ rest' # <<>> => Begins(Gone + 1)'
             /\ eof' => rest' = <<>>
             /\ m_ConfigItemList' \in Seq(Entries)'
             /\ Listed(Gone)'
  <2>1. Fits
    BY <1>1, <1>6, SameFile
  <2>2. PICK m \in 1..Len(rest) :
             LET line == LineAt(Gone + 1) IN
             /\ line \in Text /\ lines' \in Text /\ Holds(lines', line)
             /\ rest' = After(rest, m)
             /\ eof' \in BOOLEAN /\ (eof' => m = Len(rest))
             /\ m < Len(rest) => rest[m] = "nl"
             /\ \A i \in 1..(m - 1) : rest[i] # "nl"
    BY <2>1, NextBuffer
  <2> DEFINE p == Gone + 1
             line == LineAt(p)
  <2>3. /\ line \in Text /\ lines' \in Text /\ Holds(lines', line)
        /\ rest' = After(rest, m) /\ (eof' => m = Len(rest))
        /\ m < Len(rest) => rest[m] = "nl"
        /\ \A i \in 1..(m - 1) : rest[i] # "nl"
    BY <2>2
  <2>4. /\ rest' \in Text /\ Len(rest') = Len(rest) - m /\ Gone' = Gone + m
        /\ rest' # <<>> => m < Len(rest)
    BY <1>1, <2>3, RestLeft
  <2>5. Begins(p)
    BY <1>1, <2>1 DEF Reading
  <2>6. IsItem(line) => Equals[line] <= ItemNameSize
    <3> HIDE DEF p
    <3>1. p \in DOMAIN file
      BY <2>5 DEF Begins
    <3> QED
      BY <2>1, <2>5, <3>1 DEF Fits
  <2>7. m_ConfigItemList' = m_ConfigItemList
                              \o (IF IsItem(line) THEN <<Meant(line)>> ELSE <<>>)
    <3>1. m_ConfigItemList' = m_ConfigItemList \o ItemsOf[lines']
      BY DEF ReadLine
    <3> HIDE DEF line
    <3> DEFINE b == lines'
    <3>2. b \in Text /\ Holds(b, line)
      BY <2>3
    <3> HIDE DEF b
    <3>3. ItemsOf[b] = IF IsItem(line) THEN <<Meant(line)>> ELSE <<>>
      BY <2>3, <2>6, <3>2, BufferItems
    <3> QED
      BY <3>1, <3>3 DEF b
  <2>8. /\ m_ConfigItemList' \in Seq(Entries)
        /\ Len(m_ConfigItemList') = Cardinality(ItemsUpTo(Gone + m))
        /\ \A i \in ItemsUpTo(Gone + m) :
              m_ConfigItemList'[Cardinality(ItemsUpTo(i))] = Meant(LineAt(i))
    BY <1>1, <2>1, <2>3, <2>7, ListGrows
  <2>9. Listed(Gone)'
    <3>1. /\ Len(m_ConfigItemList') = Cardinality(ItemsUpTo(Gone'))
          /\ \A i \in ItemsUpTo(Gone') :
                m_ConfigItemList'[Cardinality(ItemsUpTo(i))] = Meant(LineAt(i))
      BY <2>4, <2>8
    <3>2. /\ \A i : ItemsUpTo(i)' = ItemsUpTo(i) /\ LineAt(i)' = LineAt(i)
      BY <1>1, SameFile
    <3> QED
      BY <3>1, <3>2 DEF Listed, Meant
  <2>10. ASSUME rest' # <<>> PROVE Begins(Gone + 1)'
    <3>1. /\ Gone \in Nat /\ Gone + Len(rest) = Len(file)
          /\ Len(rest) \in Nat /\ Len(file) \in Nat /\ DOMAIN file = 1..Len(file)
      BY GoneNat, TextShape DEF Reading
    <3>2. m < Len(rest) /\ rest[m] = "nl" /\ rest[m] = file[Gone + m]
      BY <2>3, <2>4, <2>10 DEF Reading
    <3> DEFINE q == Gone' + 1
    <3>3. q \in DOMAIN file /\ file[q - 1] = "nl"
      <4>1. q \in 1..Len(file) /\ q - 1 = Gone + m
        BY <2>4, <3>1, <3>2
      <4> QED
        BY <3>1, <3>2, <4>1
    <3> HIDE DEF q
    <3>4. Begins(q)
      BY <3>3 DEF Begins
    <3> QED
      BY <1>1, <3>3 DEF Begins, q
  <2>11. eof' => rest' = <<>>
    <3>1. m = Len(rest) => Len(rest') = 0
      BY <2>4, GoneNat
    <3> QED
      BY <2>3, <2>4, <3>1, EmptyText
  <2>12. Entries' = Entries
    BY <1>1, SameFile
  <2> QED
    BY <2>8, <2>9, <2>10, <2>11, <2>12
<1>7. file' \in Text /\ (load' = "true" => eof')
    BY <1>1 DEF Reading
<1> QED
    BY <1>2, <1>3, <1>4, <1>5, <1>6, <1>7 DEF Reading

\* The turns that read nothing, and what main does after Load, change nothing of it.
LEMMA OtherTurnsKeep ==
    ASSUME Reading, Open \/ ReadNothing \/ Close \/ UNCHANGED loading
    PROVE  Reading'
<1>1. /\ file' = file /\ rest' = rest /\ m_ConfigItemList' = m_ConfigItemList
      /\ eof' \in BOOLEAN /\ (eof' => eof \/ rest = <<>>) /\ (load' = "true" => eof')
  <2>1. eof \in BOOLEAN /\ (load = "true" => eof)
    BY DEF Reading
  <2>2. CASE Open
    BY <2>1, <2>2 DEF Open
  <2>3. CASE ReadNothing
    BY <2>1, <2>3 DEF ReadNothing
  <2>4. CASE Close
    BY <2>1, <2>4, Zenon DEF Close
  <2>5. CASE UNCHANGED loading
    BY <2>1, <2>5 DEF loading
  <2> QED
    BY <2>2, <2>3, <2>4, <2>5
<1>2. Gone' = Gone
    BY <1>1 DEF Gone
<1>3. /\ Fits' = Fits /\ Entries' = Entries /\ Begins(Gone + 1)' = Begins(Gone + 1)
  <2>1. Begins(Gone + 1)' = Begins(Gone + 1)
    BY <1>1, <1>2 DEF Begins
  <2> QED
    BY <1>1, <2>1, SameFile
<1>4. Listed(Gone)' = Listed(Gone)
  <2>1. \A i : ItemsUpTo(i)' = ItemsUpTo(i) /\ LineAt(i)' = LineAt(i)
    BY <1>1, SameFile
  <2>2. ItemsUpTo(Gone)' = ItemsUpTo(Gone)
    BY <1>1, <1>2 DEF ItemsUpTo, Items, Begins, IsItem, LineAt
  <2> QED
    BY <1>1, <2>1, <2>2 DEF Listed, Meant
<1> QED
    BY <1>1, <1>2, <1>3, <1>4 DEF Reading

\* Nothing is gone at the start.
LEMMA InitReading == InitConfig => Reading
<1> SUFFICES ASSUME InitConfig PROVE Reading
    OBVIOUS
<1>1. /\ file \in Text /\ rest = file /\ eof = FALSE /\ m_ConfigItemList = <<>>
      /\ load = "idle"
    BY ConfigAssumption DEF InitConfig, Text
<1>2. Len(file) \in Nat /\ DOMAIN file = 1..Len(file) /\ (file # <<>> => Len(file) >= 1)
    BY <1>1, TextShape
<1>3. Gone = 0
    BY <1>1, <1>2 DEF Gone
<1>4. ItemsUpTo(0) = {}
    BY <1>2 DEF ItemsUpTo, Items, Begins
<1>5. Listed(0)
    BY <1>1, <1>4, FS_EmptySet, EmptyText DEF Listed
<1>6. rest # <<>> => Begins(1)
    BY <1>1, <1>2 DEF Begins
<1>7. m_ConfigItemList \in Seq(Entries)
    BY <1>1, EmptySeq
<1>8. Gone + 1 = 1 /\ \A i \in 1..Len(rest) : Gone + i = i
    BY <1>3
<1>9. /\ Len(rest) <= Len(file)
      /\ \A i \in 1..Len(rest) : rest[i] = file[Gone + i]
    BY <1>1, <1>2, <1>8
<1>10. load = "true" => eof
    BY <1>1
<1>11. Listed(Gone) /\ (rest # <<>> => Begins(Gone + 1)) /\ (eof => rest = <<>>)
    BY <1>1, <1>3, <1>5, <1>6, <1>8
<1> QED
    BY <1>1, <1>7, <1>9, <1>10, <1>11 DEF Reading

\* At the end of the file all of it is gone.
LEMMA AllListed == ASSUME Reading PROVE ItemsOfFile
<1> SUFFICES ASSUME load = "true", Fits PROVE Listed(Len(file))
    BY DEF ItemsOfFile
<1>1. rest = <<>> /\ Listed(Gone)
    BY DEF Reading
<1>2. Gone = Len(file)
    BY <1>1, GoneNat, EmptyText
<1> QED
    BY <1>1, <1>2

\* Load: whatever the file holds, when its lines and names fit, each of its items is in the
\* list once, in the order of the file (zhy_conf.cpp:35-81).
THEOREM ItemsListed == Spec => []ItemsOfFile
<1>1. Init => Reading
    BY InitReading DEF Init
<1>2. Reading /\ [Next]_vars => Reading'
  <2> SUFFICES ASSUME Reading, [Next]_vars PROVE Reading'
    OBVIOUS
  <2>1. CASE LoadStep
    BY <2>1, ReadLineKeeps, OtherTurnsKeep DEF LoadStep, Load
  <2>2. CASE UNCHANGED loading
    BY <2>2, OtherTurnsKeep
  <2> QED
    BY <2>1, <2>2 DEF Next, vars, LogInitFaults, zhy_init_setproctitle, SetTitle,
                      zhy_setproctitle, free_resource
<1>3. Reading => ItemsOfFile
    BY AllListed
<1> QED
    BY <1>1, <1>2, <1>3, PTL DEF Spec

-----------------------------------------------------------------------------
(* Sums, which FoldLeft makes by recursion over the places summed.          *)

\* A set of numbers that has 0 and with each number the next has them all.
LEMMA SetInduction ==
    ASSUME NEW S \in SUBSET Nat, 0 \in S, \A n \in S : n + 1 \in S
    PROVE  \A n \in Nat : n \in S
<1> DEFINE R == OpToRel(<, Nat)
<1>1. IsWellFoundedOn(R, Nat)
    BY NatLessThanWellFounded, Zenon
<1>2. ASSUME NEW T \in SUBSET Nat, T # {}
      PROVE  \E x \in T : \A y \in T : ~(<<y, x>> \in R)
    <2> HIDE DEF R
    <2> QED
        BY <1>1, <1>2, WFMin
<1>3. \A x, y \in Nat : y < x => <<y, x>> \in R
    BY DEF OpToRel
<1> HIDE DEF R
<1>4. ASSUME Nat \ S # {} PROVE FALSE
    <2>1. PICK x \in Nat \ S : \A y \in Nat \ S : ~(<<y, x>> \in R)
        BY <1>2, <1>4
    <2>2. x # 0 /\ x - 1 \in Nat /\ x - 1 < x
        BY <2>1
    <2>3. x - 1 \in S
        BY <1>3, <2>1, <2>2
    <2> QED
        BY <2>1, <2>2, <2>3
<1> QED
    BY <1>4

\* A set of places up to n that is not empty has its largest as Max.
LEMMA MaxOf ==
    ASSUME NEW n \in Nat, NEW S \in SUBSET (1..n), S # {}
    PROVE  Max(S) \in S /\ \A j \in S : j <= Max(S)
<1>1. Highest(S) \in S /\ \A j \in S : j <= Highest(S)
    BY HighestOf
<1>2. \A i \in S : i \in Nat
    OBVIOUS
<1>3. \E x \in S : \A y \in S : x >= y
    BY <1>1, <1>2
<1>4. Max(S) \in S /\ \A y \in S : Max(S) >= y
    BY <1>3, Zenon DEF Max
<1>5. ASSUME NEW j \in S PROVE j <= Max(S)
    BY <1>2, <1>4
<1> QED
    BY <1>4, <1>5

\* h[S] is the sum of w over the places S.
Sums(w, h) ==
    /\ h \in [SUBSET (1..Len(w)) -> Nat]
    /\ \A S \in SUBSET (1..Len(w)) :
          h[S] = IF S = {} THEN 0 ELSE h[S \ {Max(S)}] + w[Max(S)]

\* There is a function that sums over any set of places as FoldLeft does.
LEMMA SumsExist ==
    ASSUME NEW w \in Seq(Nat)
    PROVE  \E h : Sums(w, h)
<1>1. PICK n \in Nat : n = Len(w)
    BY LenProperties
<1> DEFINE Upto(k, h) == \A S \in SUBSET (1..k) :
                            h[S] = IF S = {} THEN 0 ELSE h[S \ {Max(S)}] + w[Max(S)]
           Has(k) == \E h \in [SUBSET (1..k) -> Nat] : Upto(k, h)
           T == {k \in Nat : k <= n => Has(k)}
<1>2. 0 \in T
  <2> DEFINE h == [S \in SUBSET (1..0) |-> 0]
  <2>1. \A S \in SUBSET (1..0) : S = {}
    OBVIOUS
  <2>2. h \in [SUBSET (1..0) -> Nat] /\ Upto(0, h)
    BY <2>1
  <2> HIDE DEF h, Upto
  <2>3. Has(0)
    BY <2>2
  <2> HIDE DEF Has
  <2> QED
    BY <2>3
<1>3. ASSUME NEW k \in T PROVE k + 1 \in T
  <2> SUFFICES ASSUME k + 1 <= n PROVE Has(k + 1)
    <3> HIDE DEF Has
    <3> QED
      BY k \in Nat
  <2>1. k \in Nat /\ k <= n /\ k + 1 \in 1..n
    BY k \in Nat
  <2>2. PICK h \in [SUBSET (1..k) -> Nat] : Upto(k, h)
    BY <1>3, <2>1
  <2>3. w[k + 1] \in Nat
    BY <1>1, <2>1, ElementOfSeq
  <2> DEFINE g == [S \in SUBSET (1..(k + 1)) |->
                     IF k + 1 \in S THEN h[S \ {k + 1}] + w[k + 1] ELSE h[S]]
  <2>4. ASSUME NEW S \in SUBSET (1..(k + 1))
        PROVE  /\ k + 1 \in S => S \ {k + 1} \in SUBSET (1..k)
               /\ k + 1 \notin S => S \in SUBSET (1..k)
    <3>1. \A i \in 1..(k + 1) : i # k + 1 => i \in 1..k
      BY <2>1
    <3> QED
      BY <3>1
  <2>5. g \in [SUBSET (1..(k + 1)) -> Nat]
    <3> SUFFICES ASSUME NEW S \in SUBSET (1..(k + 1))
                 PROVE  (IF k + 1 \in S THEN h[S \ {k + 1}] + w[k + 1] ELSE h[S]) \in Nat
      OBVIOUS
    <3>1. CASE k + 1 \in S
      <4>1. h[S \ {k + 1}] \in Nat
        BY <2>2, <2>4, <3>1
      <4> QED
        BY <2>3, <3>1, <4>1
    <3>2. CASE k + 1 \notin S
      BY <2>2, <2>4, <3>2
    <3> QED
      BY <3>1, <3>2
  <2>6. ASSUME NEW S \in SUBSET (1..k) PROVE g[S] = h[S]
    <3>1. S \in SUBSET (1..(k + 1)) /\ k + 1 \notin S
      BY <2>1
    <3> QED
      BY <3>1
  <2>7. ASSUME NEW S \in SUBSET (1..(k + 1))
        PROVE  g[S] = IF S = {} THEN 0 ELSE g[S \ {Max(S)}] + w[Max(S)]
    <3>1. CASE k + 1 \in S
      <4>1. Max(S) \in S /\ k + 1 <= Max(S)
        <5>1. k + 1 \in Nat /\ S # {}
          BY <2>1, <3>1
        <5>2. Max(S) \in S /\ \A j \in S : j <= Max(S)
          BY <5>1, MaxOf
        <5> QED
          BY <3>1, <5>2
      <4>2. Max(S) = k + 1
        <5>1. Max(S) \in 1..(k + 1)
          BY <4>1
        <5> QED
          BY <2>1, <4>1, <5>1
      <4>3. g[S] = h[S \ {k + 1}] + w[k + 1]
        BY <3>1
      <4>4. g[S \ {k + 1}] = h[S \ {k + 1}]
        BY <2>4, <2>6, <3>1
      <4> HIDE DEF g
      <4> QED
        BY <3>1, <4>2, <4>3, <4>4
    <3>2. CASE k + 1 \notin S
      <4>1. S \in SUBSET (1..k) /\ S \ {Max(S)} \in SUBSET (1..k)
        BY <2>4, <3>2
      <4>2. g[S] = h[S] /\ g[S \ {Max(S)}] = h[S \ {Max(S)}]
        BY <2>6, <4>1
      <4>3. h[S] = IF S = {} THEN 0 ELSE h[S \ {Max(S)}] + w[Max(S)]
        BY <2>2, <4>1
      <4> HIDE DEF g
      <4> QED
        BY <4>2, <4>3
    <3> QED
      BY <3>1, <3>2
  <2> HIDE DEF g
  <2>8. Upto(k + 1, g)
    BY <2>7
  <2> HIDE DEF Upto
  <2> QED
    BY <2>5, <2>8
<1>4. n \in T
  <2> HIDE DEF T
  <2>1. T \in SUBSET Nat
    BY DEF T
  <2> QED
    BY <1>2, <1>3, <2>1, SetInduction
<1>5. Has(n)
  <2> HIDE DEF Has
  <2> QED
    BY <1>4
<1> QED
    BY <1>1, <1>5 DEF Sums

\* A sum over the first places grows by one place at a time.
LEMMA NextSum ==
    ASSUME NEW n \in Nat
    PROVE  \A k \in 0..(n - 1) :
             /\ 1..(k + 1) \in SUBSET (1..n) /\ 1..(k + 1) # {} /\ k + 1 \in 1..n
             /\ Max(1..(k + 1)) = k + 1 /\ (1..(k + 1)) \ {k + 1} = 1..k
<1> TAKE k \in 0..(n - 1)
<1> DEFINE S == 1..(k + 1)
<1>1. S \in SUBSET (1..n) /\ k + 1 \in S /\ k + 1 \in 1..n /\ S \ {k + 1} = 1..k
    OBVIOUS
<1>2. \A i \in S : i \in Nat /\ i <= k + 1
    OBVIOUS
<1> HIDE DEF S
<1>3. Max(S) \in S /\ \A j \in S : j <= Max(S)
    BY <1>1, MaxOf
<1>4. Max(S) = k + 1
  <2>1. k + 1 <= Max(S) /\ Max(S) \in Nat /\ Max(S) <= k + 1 /\ k + 1 \in Nat
    BY <1>1, <1>2, <1>3
  <2> QED
    BY <2>1
<1> QED
    BY <1>1, <1>4 DEF S

\* What grows like the sum is the sum.
LEMMA SumIs ==
    ASSUME NEW w \in Seq(Nat), NEW h, Sums(w, h), NEW f, f[{}] = 0,
           \A k \in 0..(Len(w) - 1) :
              f[1..k] \in Nat => f[1..(k + 1)] = f[1..k] + w[k + 1]
    PROVE  f[1..Len(w)] = h[1..Len(w)] /\ h[1..Len(w)] \in Nat
<1>1. PICK n \in Nat : n = Len(w)
    BY LenProperties
<1> DEFINE T == {k \in Nat : k <= n => f[1..k] = h[1..k]}
<1>2. \A S \in SUBSET (1..n) : h[S] \in Nat
    BY <1>1 DEF Sums
<1>3. 0 \in T
  <2>1. 1..0 = {}
    OBVIOUS
  <2>2. {} \in SUBSET (1..Len(w))
    OBVIOUS
  <2>3. h[{}] = 0
    BY <2>2 DEF Sums
  <2> QED
    BY <2>1, <2>3
<1>4. ASSUME NEW k \in T PROVE k + 1 \in T
  <2> SUFFICES ASSUME k \in Nat, k + 1 <= n PROVE f[1..(k + 1)] = h[1..(k + 1)]
    BY <1>4
  <2>1. k \in 0..(n - 1) /\ f[1..k] = h[1..k]
    BY <1>4
  <2>2. 1..k \in SUBSET (1..n)
    OBVIOUS
  <2> DEFINE S == 1..(k + 1)
  <2>3. /\ S \in SUBSET (1..n) /\ S # {} /\ k + 1 \in 1..n
        /\ Max(S) = k + 1 /\ S \ {k + 1} = 1..k
    BY <2>1, NextSum
  <2>4. S \in SUBSET (1..Len(w))
    BY <1>1, <2>3
  <2> HIDE DEF S
  <2>5. h[S] = h[S \ {Max(S)}] + w[Max(S)]
    BY <2>3, <2>4 DEF Sums
  <2>6. h[1..(k + 1)] = h[1..k] + w[k + 1]
    BY <2>3, <2>5 DEF S
  <2>7. f[1..k] \in Nat
    BY <1>2, <2>1, <2>2
  <2>8. f[1..(k + 1)] = f[1..k] + w[k + 1]
    BY <1>1, <2>1, <2>7
  <2> QED
    BY <2>1, <2>6, <2>8
<1>5. n \in T
  <2> HIDE DEF T
  <2>1. T \in SUBSET Nat
    BY DEF T
  <2> QED
    BY <1>3, <1>4, <2>1, SetInduction
<1>6. 1..n \in SUBSET (1..n)
    OBVIOUS
<1> QED
    BY <1>1, <1>2, <1>5, <1>6

-----------------------------------------------------------------------------
(* The area of argv and environ.                                            *)

\* Bytes is the sum of the lengths, each with its end.
LEMMA BytesSum ==
    ASSUME NEW s \in Seq(Nat), NEW w \in Seq(Nat), Len(w) = Len(s),
           \A i \in 1..Len(s) : w[i] = s[i] + 1, NEW h, Sums(w, h)
    PROVE  Bytes(s) = h[1..Len(s)] /\ Bytes(s) \in Nat
<1>1. PICK n \in Nat : n = Len(s) /\ n = Len(w) /\ DOMAIN s = 1..n
    BY LenProperties
<1> DEFINE Def(f) == [S \in SUBSET DOMAIN s |->
                        IF S = {} THEN 0 ELSE f[S \ {Max(S)}] + s[Max(S)] + 1]
           fold == CHOOSE f : f = Def(f)
<1>2. Bytes(s) = fold[DOMAIN s]
    BY DEF Bytes, FoldLeft, MapThenFoldSet
<1>3. \A S \in SUBSET (1..n) : h[S] \in Nat
    BY <1>1 DEF Sums
<1>4. \A i \in 1..n : s[i] \in Nat
    BY <1>1, ElementOfSeq
<1>5. \A S \in SUBSET (1..n) : S # {} => Max(S) \in 1..n
    BY MaxOf
<1>6. h = Def(h)
  <2>1. ASSUME NEW S \in SUBSET (1..n)
        PROVE  h[S] = IF S = {} THEN 0 ELSE h[S \ {Max(S)}] + s[Max(S)] + 1
    <3>1. h[S] = IF S = {} THEN 0 ELSE h[S \ {Max(S)}] + w[Max(S)]
      BY <1>1 DEF Sums
    <3>2. CASE S # {}
      <4>1. PICK m \in 1..n : m = Max(S)
        BY <1>5, <3>2
      <4>2. w[m] = s[m] + 1 /\ s[m] \in Nat /\ h[S \ {m}] \in Nat
        BY <1>1, <1>3, <1>4
      <4>3. h[S] = h[S \ {m}] + w[m]
        BY <3>1, <3>2, <4>1
      <4>4. h[S] = h[S \ {m}] + s[m] + 1
        <5>1. PICK x \in Nat : x = h[S \ {m}]
          BY <4>2
        <5>2. x + (s[m] + 1) = x + s[m] + 1
          BY <4>2
        <5> QED
          BY <4>2, <4>3, <5>1, <5>2
      <4> QED
        BY <3>2, <4>1, <4>4
    <3> QED
      BY <3>1, <3>2
  <2>2. h = [S \in SUBSET (1..n) |-> h[S]]
    BY <1>1 DEF Sums
  <2> QED
    BY <1>1, <2>1, <2>2
<1>7. fold = Def(fold)
  <2> HIDE DEF Def
  <2> QED
    BY <1>6, Zenon
<1> HIDE DEF fold
<1>8. \A S \in SUBSET (1..n) :
         fold[S] = IF S = {} THEN 0 ELSE fold[S \ {Max(S)}] + s[Max(S)] + 1
    BY <1>1, <1>7
<1>9. fold[{}] = 0
    BY <1>8
<1>10. ASSUME NEW k \in 0..(n - 1), fold[1..k] \in Nat
       PROVE  fold[1..(k + 1)] = fold[1..k] + w[k + 1]
  <2> DEFINE S == 1..(k + 1)
  <2>1. /\ S \in SUBSET (1..n) /\ S # {} /\ k + 1 \in 1..n
        /\ Max(S) = k + 1 /\ S \ {k + 1} = 1..k
    BY <1>1, NextSum
  <2> HIDE DEF S
  <2>2. fold[S] = fold[1..k] + s[k + 1] + 1
    BY <1>8, <2>1
  <2>3. w[k + 1] = s[k + 1] + 1 /\ s[k + 1] \in Nat
    BY <1>1, <1>4, <2>1
  <2> QED
    BY <1>10, <2>2, <2>3 DEF S
<1>11. fold[1..Len(w)] = h[1..Len(w)] /\ h[1..Len(w)] \in Nat
    BY <1>1, <1>9, <1>10, SumIs
<1> QED
    BY <1>1, <1>2, <1>11

\* What was measured of arguments none of which is empty.
LEMMA NeedSum ==
    ASSUME NEW w \in Seq(Nat), Len(w) = Len(argv), argv \in Seq(Nat),
           \A i \in 1..Len(argv) : argv[i] > 0 /\ w[i] = argv[i] - 1, NEW h, Sums(w, h)
    PROVE  g_argvneedmem = h[1..Len(argv)] /\ g_argvneedmem \in Nat
<1>1. PICK n \in Nat : n = Len(argv) /\ n = Len(w) /\ DOMAIN argv = 1..n /\ DOMAIN w = 1..n
    BY LenProperties
<1> DEFINE behind == argv \o env \o <<ExecName>>
           need == [i \in DOMAIN argv |-> IF argv[i] > 0 THEN argv[i] - 1 ELSE behind[i + 1]]
           Def(f) == [S \in SUBSET DOMAIN w |->
                        IF S = {} THEN 0 ELSE f[S \ {Max(S)}] + w[Max(S)]]
           fold == CHOOSE f : f = Def(f)
<1>2. need = w
  <2>1. w = [i \in 1..n |-> w[i]]
    BY <1>1, LenProperties
  <2>2. \A i \in 1..n : need[i] = w[i]
    BY <1>1
  <2> QED
    BY <1>1, <2>1, <2>2
<1>3. g_argvneedmem = FoldLeft(LAMBDA sum, x : sum + x, 0, need)
    BY DEF g_argvneedmem
<1> HIDE DEF need
<1>4. g_argvneedmem = FoldLeft(LAMBDA sum, x : sum + x, 0, w)
    BY <1>2, <1>3
<1>5. g_argvneedmem = fold[DOMAIN w]
    BY <1>4 DEF FoldLeft, MapThenFoldSet
<1>6. h = Def(h)
  <2>1. h = [S \in SUBSET (1..n) |-> h[S]]
    BY <1>1 DEF Sums
  <2>2. \A S \in SUBSET (1..n) : h[S] = IF S = {} THEN 0 ELSE h[S \ {Max(S)}] + w[Max(S)]
    BY <1>1 DEF Sums
  <2> QED
    BY <1>1, <2>1, <2>2
<1>7. fold = Def(fold)
  <2> HIDE DEF Def
  <2> QED
    BY <1>6, Zenon
<1> HIDE DEF fold
<1>8. \A S \in SUBSET (1..n) :
         fold[S] = IF S = {} THEN 0 ELSE fold[S \ {Max(S)}] + w[Max(S)]
    BY <1>1, <1>7
<1>9. fold[{}] = 0
    BY <1>8
<1>10. ASSUME NEW k \in 0..(n - 1)
       PROVE  fold[1..(k + 1)] = fold[1..k] + w[k + 1]
  <2> DEFINE S == 1..(k + 1)
  <2>1. /\ S \in SUBSET (1..n) /\ S # {} /\ k + 1 \in 1..n
        /\ Max(S) = k + 1 /\ S \ {k + 1} = 1..k
    BY <1>1, NextSum
  <2> HIDE DEF S
  <2>2. fold[S] = fold[1..k] + w[k + 1]
    BY <1>8, <2>1
  <2> QED
    BY <2>2 DEF S
<1>11. fold[1..Len(w)] = h[1..Len(w)] /\ h[1..Len(w)] \in Nat
    BY <1>1, <1>9, <1>10, SumIs
<1> QED
    BY <1>1, <1>5, <1>11

\* A sum of less is not more.
LEMMA LessSum ==
    ASSUME NEW v \in Seq(Nat), NEW w \in Seq(Nat), Len(v) = Len(w),
           \A i \in 1..Len(w) : v[i] <= w[i], NEW f, Sums(v, f), NEW h, Sums(w, h)
    PROVE  f[1..Len(w)] <= h[1..Len(w)]
<1>1. PICK n \in Nat : n = Len(w) /\ n = Len(v)
    BY LenProperties
<1> DEFINE T == {k \in Nat : k <= n => f[1..k] <= h[1..k]}
<1>2. \A S \in SUBSET (1..n) :
         /\ f[S] \in Nat /\ h[S] \in Nat
         /\ f[S] = IF S = {} THEN 0 ELSE f[S \ {Max(S)}] + v[Max(S)]
         /\ h[S] = IF S = {} THEN 0 ELSE h[S \ {Max(S)}] + w[Max(S)]
    BY <1>1 DEF Sums
<1>3. 0 \in T
  <2>1. 1..0 = {} /\ {} \in SUBSET (1..n)
    OBVIOUS
  <2>2. f[{}] = 0 /\ h[{}] = 0
    BY <1>2, <2>1
  <2> QED
    BY <2>1, <2>2
<1>4. ASSUME NEW k \in T PROVE k + 1 \in T
  <2> SUFFICES ASSUME k \in Nat, k + 1 <= n PROVE f[1..(k + 1)] <= h[1..(k + 1)]
    BY <1>4
  <2>1. k \in 0..(n - 1) /\ f[1..k] <= h[1..k] /\ 1..k \in SUBSET (1..n)
    BY <1>4
  <2> DEFINE S == 1..(k + 1)
  <2>2. /\ S \in SUBSET (1..n) /\ S # {} /\ k + 1 \in 1..n
        /\ Max(S) = k + 1 /\ S \ {k + 1} = 1..k
    BY <2>1, NextSum
  <2> HIDE DEF S
  <2>3. f[S] = f[1..k] + v[k + 1] /\ h[S] = h[1..k] + w[k + 1]
    BY <1>2, <2>2
  <2>4. v[k + 1] \in Nat /\ w[k + 1] \in Nat /\ v[k + 1] <= w[k + 1]
    BY <1>1, <2>2, ElementOfSeq
  <2>5. f[1..k] \in Nat /\ h[1..k] \in Nat
    BY <1>2, <2>1
  <2>6. f[S] <= h[S]
    BY <2>1, <2>3, <2>4, <2>5
  <2> QED
    BY <2>6 DEF S
<1>5. n \in T
  <2> HIDE DEF T
  <2>1. T \in SUBSET Nat
    BY DEF T
  <2> QED
    BY <1>3, <1>4, <2>1, SetInduction
<1> QED
    BY <1>1, <1>5

\* The numbers of a sequence, each one larger or one smaller.
LEMMA Shifted ==
    ASSUME NEW s \in Seq(Nat)
    PROVE  /\ [i \in 1..Len(s) |-> s[i] + 1] \in Seq(Nat)
           /\ Len([i \in 1..Len(s) |-> s[i] + 1]) = Len(s)
           /\ (\A i \in 1..Len(s) : s[i] > 0) =>
                 /\ [i \in 1..Len(s) |-> s[i] - 1] \in Seq(Nat)
                 /\ Len([i \in 1..Len(s) |-> s[i] - 1]) = Len(s)
<1>1. PICK n \in Nat : n = Len(s)
    BY LenProperties
<1>2. \A i \in 1..n : s[i] \in Nat
    BY <1>1, ElementOfSeq
<1>3. [i \in 1..n |-> s[i] + 1] \in [1..n -> Nat]
    BY <1>2
<1>4. (\A i \in 1..n : s[i] > 0) => [i \in 1..n |-> s[i] - 1] \in [1..n -> Nat]
    BY <1>2
<1>5. \A f \in [1..n -> Nat] : f \in Seq(Nat) /\ Len(f) = n
  <2> TAKE f \in [1..n -> Nat]
  <2>1. f \in Seq(Nat)
    BY SeqDef
  <2>2. DOMAIN f = 1..n
    OBVIOUS
  <2> QED
    BY <2>1, <2>2, LenProperties
<1> QED
    BY <1>1, <1>3, <1>4, <1>5

\* Bytes is a number.
LEMMA BytesNat == ASSUME NEW s \in Seq(Nat) PROVE Bytes(s) \in Nat
<1> DEFINE w == [i \in 1..Len(s) |-> s[i] + 1]
<1>1. w \in Seq(Nat) /\ Len(w) = Len(s)
    BY Shifted
<1>2. \A i \in 1..Len(s) : w[i] = s[i] + 1
    OBVIOUS
<1> HIDE DEF w
<1>3. PICK h : Sums(w, h)
    BY <1>1, SumsExist
<1> QED
    BY <1>1, <1>2, <1>3, BytesSum

\* Of arguments none of which is empty no more is measured than there is.
LEMMA NeedFits ==
    ASSUME argv \in Seq(Nat), env \in Seq(Nat), \A i \in DOMAIN argv : argv[i] > 0
    PROVE  g_argvneedmem + g_envneedmem <= AreaSize
<1> DEFINE v == [i \in 1..Len(argv) |-> argv[i] - 1]
           w == [i \in 1..Len(argv) |-> argv[i] + 1]
<1>1. DOMAIN argv = 1..Len(argv) /\ \A i \in 1..Len(argv) : argv[i] > 0
    BY LenProperties
<1>2. /\ v \in Seq(Nat) /\ Len(v) = Len(argv) /\ w \in Seq(Nat) /\ Len(w) = Len(argv)
    BY <1>1, Shifted
<1>3. \A i \in 1..Len(argv) : v[i] = argv[i] - 1 /\ w[i] = argv[i] + 1
    OBVIOUS
<1> HIDE DEF v, w
<1>4. PICK f : Sums(v, f)
    BY <1>2, SumsExist
<1>5. PICK h : Sums(w, h)
    BY <1>2, SumsExist
<1>6. \A i \in 1..Len(w) : v[i] <= w[i]
  <2>1. \A i \in 1..Len(argv) : argv[i] \in Nat
    BY ElementOfSeq
  <2> QED
    BY <1>2, <1>3, <2>1
<1>7. f[1..Len(w)] <= h[1..Len(w)]
    BY <1>2, <1>4, <1>5, <1>6, LessSum
<1>8. g_argvneedmem = f[1..Len(argv)] /\ g_argvneedmem \in Nat
    BY <1>1, <1>2, <1>3, <1>4, NeedSum
<1>9. Bytes(argv) = h[1..Len(argv)] /\ Bytes(argv) \in Nat
    BY <1>2, <1>3, <1>5, BytesSum
<1>10. Bytes(env) \in Nat
    BY BytesNat
<1>11. g_argvneedmem <= Bytes(argv)
    BY <1>2, <1>7, <1>8, <1>9
<1> QED
    BY <1>8, <1>9, <1>10, <1>11 DEF AreaSize, g_envneedmem

\* environ is on the heap while the process runs, and titles stay within the area.
Moved ==
    /\ argv \in Seq(Nat) /\ env \in Seq(Nat)
    /\ main = "running" => environ = [i \in DOMAIN env |-> "heap"] /\ gp_envmem = "live"
    /\ (\A i \in DOMAIN argv : argv[i] > 0) => written <= AreaSize

\* As long as the process runs its environment reads as before, for any arguments and any
\* environment; nothing behind the area is written to, unless an argument is empty
\* (zhy_setproctitle.cpp:12-42).
THEOREM MemorySpared == Spec => []TitleSparesMemory
<1>1. Init => Moved
  <2> SUFFICES ASSUME Init PROVE Moved
    OBVIOUS
  <2>1. argv \in Seq(Nat) /\ env \in Seq(Nat) /\ main = "load" /\ written = 0
    BY StartupAssumption DEF Init
  <2>2. Bytes(argv) \in Nat /\ Bytes(env) \in Nat
    BY <2>1, BytesNat
  <2>3. 0 <= AreaSize
    BY <2>2 DEF AreaSize
  <2> QED
    BY <2>1, <2>3 DEF Moved
<1>2. Moved /\ [Next]_vars => Moved'
  <2> SUFFICES ASSUME Moved, [Next]_vars PROVE Moved'
    OBVIOUS
  <2>1. argv' = argv /\ env' = env
    BY DEF Next, vars, LoadStep, LogInitFaults, zhy_init_setproctitle, SetTitle,
           zhy_setproctitle, free_resource, strings
  <2>2. AreaSize' = AreaSize
    BY <2>1 DEF AreaSize
  <2>3. CASE SetTitle
    <3>1. written' = g_argvneedmem + g_envneedmem /\ UNCHANGED <<main, environ, gp_envmem>>
      BY <2>3 DEF SetTitle, zhy_setproctitle
    <3>2. (\A i \in DOMAIN argv : argv[i] > 0) => written' <= AreaSize
      BY <3>1, NeedFits DEF Moved
    <3> QED
      BY <2>1, <2>2, <3>1, <3>2 DEF Moved
  <2>4. CASE zhy_init_setproctitle
    BY <2>1, <2>2, <2>4 DEF Moved, zhy_init_setproctitle
  <2>5. CASE free_resource \/ LogInitFaults
    BY <2>1, <2>2, <2>5 DEF Moved, free_resource, LogInitFaults
  <2>6. CASE LoadStep \/ UNCHANGED vars
    BY <2>1, <2>2, <2>6 DEF Moved, LoadStep, vars
  <2> QED
    BY <2>3, <2>4, <2>5, <2>6 DEF Next
<1>3. Moved => TitleSparesMemory
    BY DEF Moved, TitleSparesMemory
<1> QED
    BY <1>1, <1>2, <1>3, PTL DEF Spec

-----------------------------------------------------------------------------
(* The processes main goes on to start.                                     *)

\* The master has its signals blocked while it forks, a worker until it is marked; and
\* zhy_process is right in every process that a signal can get through to.
Masked ==
    /\ master = "spawn" => blocked[Master]
    /\ \A w \in Workers : phase[w] = "forked" => blocked[w]

Marked ==
    /\ kind[Master] = "master"
    /\ \A w \in Workers : phase[w] \in {"marked", "setup", "loop"} => kind[w] = "worker"

CycleInv == TypeOK /\ Masked /\ Marked /\ HandlerKnowsProcess

\* The three signals, as a set.
LEMMA SignalSet == Signals = {"HUP", "TERM", "CHLD"}
BY DEF Signals, Table

\* There is no worker at the start.
LEMMA InitCycleInv == InitCycle => CycleInv
BY CycleAssumption DEF InitCycle, CycleInv, TypeOK, Masked, Marked,
       HandlerKnowsProcess, Procs, Kinds

\* A signal gets through only to a process whose zhy_process is right.
LEMMA DeliveredToKnown ==
    ASSUME CycleInv, NEW p \in Procs, NEW s \in Signals, Delivered(p, s)
    PROVE  kind[p] = (IF p = Master THEN "master" ELSE "worker")
BY DEF CycleInv, TypeOK, Masked, Marked, Delivered, Alive, Procs

\* What running the handler adds to the history.
LEMMA RanKnown ==
    ASSUME CycleInv, NEW p \in Procs, NEW s \in Signals,
           Delivered(p, s), Ran(p)
    PROVE  HandlerKnowsProcess' /\ ran' \subseteq Procs \X Kinds
<1>1. kind[p] = (IF p = Master THEN "master" ELSE "worker")
    BY DeliveredToKnown
<1>2. ran' = ran \cup {<<p, kind[p]>>}
    BY DEF Ran
<1>3. kind[p] \in Kinds
    BY DEF CycleInv, TypeOK
<1>4. HandlerKnowsProcess'
    BY <1>1, <1>2 DEF CycleInv, HandlerKnowsProcess
<1>5. ran' \subseteq Procs \X Kinds
    BY <1>2, <1>3 DEF CycleInv, TypeOK
<1> QED
    BY <1>4, <1>5

\* The end of a process, by a signal or by itself, leaves the invariant's parts alone.
LEMMA EndKeeps ==
    ASSUME CycleInv, NEW p \in Procs, EndsBySignal(p),
           UNCHANGED <<kind, blocked>>
    PROVE  /\ Masked' /\ Marked'
           /\ master' \in {"start", "block", "spawn", "suspend", "sleep", "killed"}
           /\ phase' \in [Workers -> {"none", "failed", "forked", "marked", "setup", "loop",
                                      "zombie"}]
           /\ pending' \in [Procs -> SUBSET Signals]
           /\ byProcess' \in [Procs -> SUBSET Signals]
           /\ \A q \in Procs : byProcess'[q] \subseteq pending'[q]
<1> USE SignalSet, CycleAssumption DEF CycleInv, TypeOK, Masked, Marked,
                      Procs
<1>1. CASE p = Master
    BY <1>1 DEF EndsBySignal
<1>2. CASE p # Master
    BY <1>2 DEF EndsBySignal, Dies, Alive
<1> QED
    BY <1>1, <1>2

\* Every step of the master, of a worker and of the kernel keeps the invariant.
LEMMA StepCycle ==
    ASSUME CycleInv, [NextCycle]_cycle
    PROVE  CycleInv'
<1> USE SignalSet, CycleAssumption DEF CycleInv, TypeOK, Masked, Marked,
                      Procs, Kinds
<1>1. CASE zhy_init_signals
    BY <1>1 DEF zhy_init_signals, Table, HandlerKnowsProcess
<1>2. CASE MasterBlocks
    BY <1>2 DEF MasterBlocks, HandlerKnowsProcess
<1>3. ASSUME NEW w \in Workers, Fork(w) PROVE CycleInv'
    BY <1>3 DEF Fork, HandlerKnowsProcess
<1>4. ASSUME NEW w \in Workers, ForkFails(w) PROVE CycleInv'
    BY <1>4 DEF ForkFails, HandlerKnowsProcess
<1>5. CASE MasterSuspends
    BY <1>5 DEF MasterSuspends, HandlerKnowsProcess
<1>6. ASSUME NEW w \in Workers, WorkerMarks(w) PROVE CycleInv'
    BY <1>6 DEF WorkerMarks, HandlerKnowsProcess
<1>7. ASSUME NEW w \in Workers, WorkerUnblocks(w) PROVE CycleInv'
    BY <1>7 DEF WorkerUnblocks, HandlerKnowsProcess
<1>8. ASSUME NEW w \in Workers, WorkerStarts(w) PROVE CycleInv'
    BY <1>8 DEF WorkerStarts, HandlerKnowsProcess
<1>9. ASSUME NEW w \in Workers, WorkerExits(w) PROVE CycleInv'
    BY <1>9, EndKeeps DEF WorkerExits, EndsBySignal, HandlerKnowsProcess
<1>10. ASSUME NEW p \in Procs, NEW s \in Signals, Send(p, s) PROVE CycleInv'
    BY <1>10 DEF Send, HandlerKnowsProcess
<1>11. ASSUME NEW p \in Procs, NEW s \in Signals, zhy_signal_handler(p, s)
       PROVE  CycleInv'
  <2>1. HandlerKnowsProcess' /\ ran' \subseteq Procs \X Kinds
    BY <1>11, RanKnown DEF zhy_signal_handler
  <2>2. TypeOK'
    BY <1>11, <2>1 DEF zhy_signal_handler
  <2>3. Masked' /\ Marked'
    BY <1>11 DEF zhy_signal_handler
  <2> QED
    BY <2>1, <2>2, <2>3
<1>12. ASSUME NEW p \in Procs, NEW s \in Signals, HandlerFaults(p, s)
       PROVE  CycleInv'
    BY <1>12, RanKnown, EndKeeps DEF HandlerFaults
<1>13. ASSUME NEW p \in Procs, NEW s \in Signals, DefaultEnds(p, s)
       PROVE  CycleInv'
    BY <1>13, EndKeeps DEF DefaultEnds, HandlerKnowsProcess
<1>14. ASSUME NEW p \in Procs, DefaultIgnores(p) PROVE CycleInv'
    BY <1>14 DEF DefaultIgnores, HandlerKnowsProcess
<1>15. CASE UNCHANGED cycle
    BY <1>15 DEF cycle, HandlerKnowsProcess
<1> QED
    BY <1>1, <1>2, <1>3, <1>4, <1>5, <1>6, <1>7, <1>8, <1>9, <1>10, <1>11, <1>12, <1>13,
       <1>14, <1>15 DEF NextCycle

\* In every reachable state the variables have their types, and the handler has never run
\* in a process that it took for one of the other kind.
THEOREM HandlersKnow == CycleSpec => []ProcessesConsistent
<1>1. CycleInv => ProcessesConsistent
    BY DEF CycleInv, ProcessesConsistent
<1>2. InitCycle => CycleInv
    BY InitCycleInv
<1>3. CycleInv /\ [NextCycle]_cycle => CycleInv'
    BY StepCycle
<1> QED
    BY <1>1, <1>2, <1>3, PTL DEF CycleSpec
=============================================================================
