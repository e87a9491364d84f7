------------------------------ MODULE LogProofs ------------------------------
(***************************************************************************)
(* What a line of the log is, for every size of the buffer, every format    *)
(* and every argument.                                                      *)
(***************************************************************************)
EXTENDS Log, TLAPS, FiniteSetTheorems, SequenceTheorems, WellFoundedInduction

-----------------------------------------------------------------------------
(* Cutting a text at last.                                                  *)

LEMMA SizeNat == Size \in Nat /\ Size >= 2
<1>1. Size \in Nat /\ Len(Prefix) \in Nat /\ Len(Prefix) < Size - 1
    BY LogAssumption, LenProperties DEF Size
<1> QED
    BY <1>1

LEMMA LeastOf ==
    ASSUME NEW a \in Int, NEW b \in Int
    PROVE  Least(a, b) \in {a, b} /\ Least(a, b) <= a /\ Least(a, b) <= b
BY DEF Least

\* Cut(text) is what there is of text up to last.
LEMMA CutShape ==
    ASSUME NEW S, NEW t \in Seq(S)
    PROVE  /\ Cut(t) \in Seq(S) /\ Len(Cut(t)) = Least(Len(t), Size)
           /\ \A i \in 1..Least(Len(t), Size) : Cut(t)[i] = t[i]
<1> DEFINE n == Least(Len(t), Size)
<1>1. n \in 0..Len(t) /\ Len(t) \in Nat
    BY SizeNat, LenProperties, LeastOf
<1> HIDE DEF n
<1>2. \A i \in 1..n : t[i] \in S
    BY <1>1, ElementOfSeq
<1>3. /\ SubSeq(t, 1, n) \in Seq(S)
      /\ Len(SubSeq(t, 1, n)) = IF 1 <= n THEN n - 1 + 1 ELSE 0
      /\ \A i \in 1..(n - 1 + 1) : SubSeq(t, 1, n)[i] = t[1 + i - 1]
    BY <1>1, <1>2, SubSeqProperties
<1>4. Len(SubSeq(t, 1, n)) = n
    BY <1>1, <1>3
<1>5. \A i \in 1..n : SubSeq(t, 1, n)[i] = t[i]
    BY <1>1, <1>3
<1> QED
    BY <1>3, <1>4, <1>5 DEF Cut, n

\* A text that fits is not cut.
LEMMA CutWhole ==
    ASSUME NEW S, NEW t \in Seq(S), Len(t) <= Size
    PROVE  Cut(t) = t
<1>1. Least(Len(t), Size) = Len(t)
    BY SizeNat, LenProperties DEF Least
<1> QED
    BY <1>1, SubSeqFull DEF Cut

\* What is cut once, is not cut otherwise for what comes behind it.
LEMMA CutConcat ==
    ASSUME NEW S, NEW a \in Seq(S), NEW b \in Seq(S)
    PROVE  Cut(Cut(a) \o b) = Cut(a \o b)
<1>1. CASE Len(a) <= Size
    BY <1>1, CutWhole
<1>2. CASE ~(Len(a) <= Size)
  <2>1. Len(a) \in Nat /\ Len(b) \in Nat /\ Size \in Nat /\ Len(a) > Size
    BY <1>2, SizeNat, LenProperties
  <2>2. /\ Cut(a) \in Seq(S) /\ Len(Cut(a)) = Size
        /\ \A i \in 1..Size : Cut(a)[i] = a[i]
    BY <2>1, CutShape DEF Least
  <2> DEFINE ca == Cut(a)
             l == ca \o b
             r == a \o b
  <2>3. ca \in Seq(S) /\ Len(ca) = Size /\ \A i \in 1..Size : ca[i] = a[i]
    BY <2>2
  <2> HIDE DEF ca
  <2>4. /\ l \in Seq(S) /\ Len(l) = Size + Len(b)
        /\ \A i \in 1..(Size + Len(b)) : l[i] = IF i <= Size THEN ca[i] ELSE b[i - Size]
    BY <2>3, ConcatProperties
  <2>5. /\ r \in Seq(S) /\ Len(r) = Len(a) + Len(b)
        /\ \A i \in 1..(Len(a) + Len(b)) : r[i] = IF i <= Len(a) THEN a[i] ELSE b[i - Len(a)]
    BY ConcatProperties
  <2> HIDE DEF l, r
  <2>6. \A i \in 1..Size : l[i] = r[i]
    <3> SUFFICES ASSUME NEW i \in 1..Size PROVE l[i] = r[i]
      OBVIOUS
    <3>1. i <= Size /\ i <= Len(a) /\ i \in 1..(Size + Len(b)) /\ i \in 1..(Len(a) + Len(b))
      BY <2>1
    <3>2. l[i] = ca[i] /\ r[i] = a[i]
      BY <2>4, <2>5, <3>1
    <3> QED
      BY <2>3, <3>2
  <2>7. Least(Len(l), Size) = Size /\ Least(Len(r), Size) = Size
    BY <2>1, <2>4, <2>5 DEF Least
  <2>8. /\ Cut(l) \in Seq(S) /\ Len(Cut(l)) = Size /\ \A i \in 1..Size : Cut(l)[i] = l[i]
        /\ Cut(r) \in Seq(S) /\ Len(Cut(r)) = Size /\ \A i \in 1..Size : Cut(r)[i] = r[i]
    BY <2>4, <2>5, <2>7, CutShape
  <2>9. Cut(l) = Cut(r)
    BY <2>6, <2>8, SeqEqual
  <2> QED
    BY <2>9 DEF l, r, ca
<1> QED
    BY <1>1, <1>2

\* Behind a text that reaches last nothing is added.
LEMMA CutFull ==
    ASSUME NEW S, NEW a \in Seq(S), NEW b \in Seq(S), Len(a) >= Size
    PROVE  Cut(a \o b) = Cut(a)
<1>1. Len(a) \in Nat /\ Len(b) \in Nat /\ Size \in Nat
    BY SizeNat, LenProperties
<1> DEFINE r == a \o b
<1>2. /\ r \in Seq(S) /\ Len(r) = Len(a) + Len(b)
      /\ \A i \in 1..(Len(a) + Len(b)) : r[i] = IF i <= Len(a) THEN a[i] ELSE b[i - Len(a)]
    BY ConcatProperties
<1> HIDE DEF r
<1>3. \A i \in 1..Size : r[i] = a[i]
    BY <1>1, <1>2
<1>4. Least(Len(r), Size) = Size /\ Least(Len(a), Size) = Size
    BY <1>1, <1>2 DEF Least
<1>5. /\ Cut(r) \in Seq(S) /\ Len(Cut(r)) = Size /\ \A i \in 1..Size : Cut(r)[i] = r[i]
      /\ Cut(a) \in Seq(S) /\ Len(Cut(a)) = Size /\ \A i \in 1..Size : Cut(a)[i] = a[i]
    BY <1>2, <1>4, CutShape
<1>6. Cut(r) = Cut(a)
    BY <1>3, <1>5, SeqEqual
<1> QED
    BY <1>6 DEF r

-----------------------------------------------------------------------------
(* What is printed is a text of these characters: strings, and digits.  The *)
(* provers do not know that a literal is a member of STRING.                *)

Written == {"%", ".", "-", "0", " ", "a", NL, NUL}
DigitChars == UNION {ToSet(Digits(n, b)) : n \in Nat, b \in {10, 16}}
Chars == STRING \cup Written \cup DigitChars

LEMMA Strings == STRING \subseteq Chars
BY Zenon DEF Chars

LEMMA Texts == \A t \in Seq(STRING) : t \in Seq(Chars)
BY SeqMonotonic, Strings

LEMMA DigitsText ==
    ASSUME NEW n \in Nat, NEW b \in {10, 16}
    PROVE  Digits(n, b) \in Seq(Chars)
<1> DEFINE K == {k \in 0..(ZHY_INT64_LEN - 1) : k = 0 \/ b^k <= n}
           d == Digits(n, b)
<1>1. Cardinality(K) \in Nat
  <2>1. IsFiniteSet(0..(ZHY_INT64_LEN - 1))
    BY LogAssumption, FS_Interval
  <2>2. IsFiniteSet(K)
    BY <2>1, FS_Subset
  <2> QED
    BY <2>2, FS_CardinalityType
<1>2. PICK len \in Nat : len = Cardinality(K)
    BY <1>1
<1>3. d = [i \in 1..len |-> HexDigits[((n \div b^(len - i)) % b) + 1]]
    BY <1>2 DEF Digits
<1>4. DOMAIN d = 1..len
    BY <1>3
<1>5. \A i \in 1..len : d[i] \in ToSet(d)
    BY <1>4 DEF ToSet
<1>6. d = [i \in 1..len |-> d[i]]
    BY <1>3
<1> HIDE DEF d
<1>7. \A i \in 1..len : d[i] \in Chars
  <2>1. ToSet(d) \subseteq DigitChars
    BY DEF DigitChars, d
  <2>2. DigitChars \subseteq Chars
    BY Zenon DEF Chars
  <2> QED
    BY <1>5, <2>1, <2>2
<1>8. d \in [1..len -> Chars]
    BY <1>6, <1>7
<1>9. d \in Seq(Chars)
    BY <1>2, <1>8, SeqDef
<1> QED
    BY <1>9 DEF d

\* A number set to the right of its field: fill, then the number.
LEMMA RightAlignedShape ==
    ASSUME NEW S, NEW t \in Seq(S), NEW fill \in S, NEW width \in Nat
    PROVE  LET pad == IF width > Len(t) THEN width - Len(t) ELSE 0 IN
           /\ pad \in Nat
           /\ RightAligned(t, width, fill) \in Seq(S)
           /\ Len(RightAligned(t, width, fill)) = pad + Len(t)
           /\ \A i \in 1..(pad + Len(t)) :
                RightAligned(t, width, fill)[i] = IF i <= pad THEN fill ELSE t[i - pad]
<1>1. Len(t) \in Nat
    BY LenProperties
<1>2. PICK pad \in Nat : pad = IF width > Len(t) THEN width - Len(t) ELSE 0
    BY <1>1
<1> DEFINE r == [i \in 1..(pad + Len(t)) |-> IF i <= pad THEN fill ELSE t[i - pad]]
<1>3. RightAligned(t, width, fill) = r
    BY <1>2 DEF RightAligned
<1>4. ASSUME NEW i \in 1..(pad + Len(t)) PROVE (IF i <= pad THEN fill ELSE t[i - pad]) \in S
  <2>1. CASE i <= pad
    BY <2>1
  <2>2. CASE ~(i <= pad)
    <3>1. i - pad \in 1..Len(t)
      BY <1>1, <2>2
    <3> QED
      BY <2>2, <3>1, ElementOfSeq
  <2> QED
    BY <2>1, <2>2
<1>5. r \in [1..(pad + Len(t)) -> S]
    BY <1>4
<1>6. pad + Len(t) \in Nat
    BY <1>1
<1>7. r \in Seq(S)
    BY <1>5, <1>6, SeqDef
<1>8. Len(r) = pad + Len(t)
    BY <1>5, <1>6
<1>9. \A i \in 1..(pad + Len(t)) : r[i] = IF i <= pad THEN fill ELSE t[i - pad]
    OBVIOUS
<1> QED
    BY <1>2, <1>3, <1>7, <1>8, <1>9

-----------------------------------------------------------------------------
(* One conversion.                                                          *)

\* The fill and the digits, each with a look at last, are the number in its field, cut.
LEMMA NumberExact ==
    ASSUME NEW S, NEW out \in Seq(S), NEW digits \in Seq(S), NEW fill \in S,
           NEW width \in Nat, Len(out) <= Size
    PROVE  zhy_sprintf_num(out, digits, fill, width)
               = Cut(out \o RightAligned(digits, width, fill))
<1>1. PICK n \in Nat, d \in Nat, z \in Nat : n = Len(out) /\ d = Len(digits) /\ z = Size
    BY SizeNat, LenProperties
<1>2. PICK missing \in Nat : missing = IF width > Len(digits) THEN width - Len(digits) ELSE 0
  <2>1. (IF width > d THEN width - d ELSE 0) \in Nat
    OBVIOUS
  <2> QED
    BY <1>1, <2>1
<1>3. n <= z
    BY <1>1
<1>4. PICK p \in Nat : p = Least(missing, z - n)
  <2>1. Least(missing, z - n) \in Nat
    BY <1>3 DEF Least
  <2> QED
    BY <2>1
<1>5. p <= missing /\ p <= z - n /\ p \in {missing, z - n}
    BY <1>1, <1>2, <1>3, <1>4, LeastOf
<1> DEFINE pads == [i \in 1..p |-> fill]
           padded == out \o pads
<1>6. pads \in Seq(S) /\ Len(pads) = p /\ \A i \in 1..p : pads[i] = fill
  <2>1. pads \in [1..p -> S]
    OBVIOUS
  <2> QED
    BY <2>1, SeqDef
<1> HIDE DEF pads
<1>7. /\ padded \in Seq(S) /\ Len(padded) = n + p
      /\ \A i \in 1..(n + p) : padded[i] = IF i <= n THEN out[i] ELSE pads[i - n]
    BY <1>1, <1>6, ConcatProperties
<1> HIDE DEF padded
<1>8. PICK q \in Nat : q = Least(d, z - (n + p))
  <2>1. Least(d, z - (n + p)) \in Nat
    BY <1>3, <1>5 DEF Least
  <2> QED
    BY <2>1
<1>9. q <= d /\ q <= z - (n + p) /\ q \in {d, z - (n + p)}
    BY <1>1, <1>8, LeastOf
<1> DEFINE cut == SubSeq(digits, 1, q)
           res == padded \o cut
<1>10. cut \in Seq(S) /\ Len(cut) = q /\ \A i \in 1..q : cut[i] = digits[i]
  <2>1. \A i \in 1..q : digits[i] \in S
    BY <1>1, <1>9, ElementOfSeq
  <2>2. /\ cut \in Seq(S) /\ Len(cut) = (IF 1 <= q THEN q - 1 + 1 ELSE 0)
        /\ \A i \in 1..(q - 1 + 1) : cut[i] = digits[1 + i - 1]
    BY <2>1, SubSeqProperties
  <2> HIDE DEF cut
  <2> QED
    BY <2>2
<1>11. zhy_sprintf_num(out, digits, fill, width) = res
  <2>1. missing = IF width > Len(digits) THEN width - Len(digits) ELSE 0
    BY <1>2
  <2>2. padded = out \o [i \in 1..Least(missing, Size - Len(out)) |-> fill]
    BY <1>1, <1>4 DEF padded, pads
  <2>3. res = padded \o SubSeq(digits, 1, Least(Len(digits), Size - Len(padded)))
    BY <1>1, <1>7, <1>8
  <2> QED
    BY <2>1, <2>2, <2>3 DEF zhy_sprintf_num
<1> HIDE DEF cut
<1>12. /\ res \in Seq(S) /\ Len(res) = n + p + q
       /\ \A i \in 1..(n + p + q) : res[i] = IF i <= n + p THEN padded[i] ELSE cut[i - (n + p)]
  <2>1. /\ res \in Seq(S) /\ Len(res) = Len(padded) + Len(cut)
        /\ \A i \in 1..(Len(padded) + Len(cut)) :
             res[i] = IF i <= Len(padded) THEN padded[i] ELSE cut[i - Len(padded)]
    BY <1>7, <1>10, ConcatProperties
  <2> HIDE DEF res
  <2> QED
    BY <1>7, <1>10, <2>1
<1> HIDE DEF res
<1> DEFINE r == RightAligned(digits, width, fill)
           all == out \o r
<1>13. /\ r \in Seq(S) /\ Len(r) = missing + d
       /\ \A i \in 1..(missing + d) : r[i] = IF i <= missing THEN fill ELSE digits[i - missing]
    BY <1>1, <1>2, RightAlignedShape
<1> HIDE DEF r
<1>14. /\ all \in Seq(S) /\ Len(all) = n + missing + d
       /\ \A i \in 1..(n + missing + d) : all[i] = IF i <= n THEN out[i] ELSE r[i - n]
  <2>1. n + missing + d = n + (missing + d)
    OBVIOUS
  <2>2. /\ all \in Seq(S) /\ Len(all) = Len(out) + Len(r)
        /\ \A i \in 1..(Len(out) + Len(r)) :
             all[i] = IF i <= Len(out) THEN out[i] ELSE r[i - Len(out)]
    BY <1>13, ConcatProperties
  <2> HIDE DEF all
  <2> QED
    BY <1>1, <1>13, <2>1, <2>2
<1> HIDE DEF all
<1>15. /\ Cut(all) \in Seq(S) /\ Len(Cut(all)) = n + p + q
       /\ \A i \in 1..(n + p + q) : Cut(all)[i] = all[i]
  <2>1. Least(n + missing + d, z) = n + p + q
    BY <1>3, <1>5, <1>9 DEF Least
  <2> QED
    BY <1>1, <1>14, <2>1, CutShape
<1>16. ASSUME NEW i \in 1..(n + p + q) PROVE res[i] = Cut(all)[i]
  <2>1. i \in 1..(n + missing + d)
    BY <1>5, <1>9
  <2>2. CASE i <= n
    BY <1>7, <1>12, <1>14, <1>15, <2>1, <2>2
  <2>3. CASE i > n /\ i <= n + p
    <3>1. i - n \in 1..p /\ i - n \in 1..(missing + d) /\ i - n <= missing /\ ~(i <= n)
      BY <1>5, <2>3
    <3>2. res[i] = fill
      BY <1>6, <1>7, <1>12, <2>3, <3>1
    <3>3. all[i] = fill
      BY <1>13, <1>14, <2>1, <3>1
    <3> QED
      BY <1>15, <3>2, <3>3
  <2>4. CASE i > n + p
    <3>1. i - (n + p) \in 1..q /\ ~(i <= n) /\ ~(i <= n + p)
      BY <2>4
    <3>2. p = missing
      BY <1>5, <1>9, <3>1
    <3>3. i - n \in 1..(missing + d) /\ ~(i - n <= missing) /\ (i - n) - missing = i - (n + p)
      BY <2>1, <2>4, <3>2
    <3>4. res[i] = digits[i - (n + p)]
      BY <1>10, <1>12, <3>1
    <3>5. all[i] = digits[i - (n + p)]
      BY <1>13, <1>14, <2>1, <3>1, <3>3
    <3> QED
      BY <1>15, <3>4, <3>5
  <2> QED
    BY <2>2, <2>3, <2>4
<1>17. res = Cut(all)
    BY <1>12, <1>15, <1>16, SeqEqual
<1> QED
    BY <1>11, <1>17 DEF all, r

\* The parts of a format that is no text, and those of any format.
Plain == [kind : {"char"}, c : Chars] \cup [kind : {"str"}] \cup CallPart
Part == Plain \cup [kind : {"raw"}]

LEMMA PlainFields ==
    ASSUME NEW p \in Plain
    PROVE  /\ p.kind \in Kinds
           /\ p.kind = "char" => p.c \in Chars
           /\ p.kind \in {"int", "float"} =>
                p.zero \in BOOLEAN /\ p.width \in Nat /\ p.base \in {10, 16} /\ p.decimals \in Nat
<1>1. CASE p \in [kind : {"char"}, c : Chars]
    BY <1>1 DEF Kinds
<1>2. CASE p \in [kind : {"str"}]
    BY <1>2 DEF Kinds
<1>3. CASE p \in CallPart
  <2>1. p.c \in Chars
    BY <1>3, Strings DEF CallPart
  <2> QED
    BY <1>3, <2>1 DEF CallPart
<1> QED
    BY <1>1, <1>2, <1>3 DEF Plain

\* The arguments of a call, with texts of these characters.
Given == [type : {"int"}, neg : BOOLEAN, ud : Nat] \cup [type : {"str"}, text : Seq(Chars)]
         \cup [type : {"float"}, neg : BOOLEAN, ud : Nat, frac : Nat]
         \cup [type : {"null"}]

LEMMA ArgumentGiven == Argument \subseteq Given
<1> SUFFICES ASSUME NEW a \in [type : {"str"}, text : Seq(STRING)]
             PROVE  a \in [type : {"str"}, text : Seq(Chars)]
    BY DEF Argument, Given
<1> QED
    BY Texts

LEMMA ArgumentFields ==
    ASSUME NEW a \in Given
    PROVE  /\ a.type = "int" => a.neg \in BOOLEAN /\ a.ud \in Nat
           /\ a.type = "str" => a.text \in Seq(Chars)
           /\ a.type = "float" => a.neg \in BOOLEAN /\ a.ud \in Nat /\ a.frac \in Nat
<1>1. CASE a \in [type : {"int"}, neg : BOOLEAN, ud : Nat]
    BY <1>1
<1>2. CASE a \in [type : {"str"}, text : Seq(Chars)]
    BY <1>2
<1>3. CASE a \in [type : {"float"}, neg : BOOLEAN, ud : Nat, frac : Nat]
    BY <1>3
<1>4. CASE a \in [type : {"null"}]
    BY <1>4
<1> QED
    BY <1>1, <1>2, <1>3, <1>4 DEF Given

LEMMA Literals ==
    /\ "%" \in Chars /\ "." \in Chars /\ "-" \in Chars /\ "0" \in Chars /\ " " \in Chars
    /\ "a" \in Chars /\ NL \in Chars /\ NUL \in Chars
<1>1. Written \subseteq Chars
    BY Zenon DEF Chars
<1>2. /\ "%" \in Written /\ "." \in Written /\ "-" \in Written /\ "0" \in Written
      /\ " " \in Written /\ "a" \in Written /\ NL \in Written /\ NUL \in Written
    BY DEF Written
<1> QED
    BY <1>1, <1>2

LEMMA OneChar == ASSUME NEW S, NEW x \in S PROVE <<x>> \in Seq(S) /\ Len(<<x>>) = 1
OBVIOUS

LEMMA NoChar == ASSUME NEW S PROVE <<>> \in Seq(S)
BY EmptySeq

LEMMA FillChar == ASSUME NEW p PROVE Fill(p) \in Chars
BY Literals DEF Fill

\* The numbers of a float.
LEMMA FloatNumbers ==
    ASSUME NEW p \in Plain, NEW f \in Given, f.type = "float"
    PROVE  IntegerPart(p, f) \in Nat /\ Fraction(p, f) \in Nat
BY ArgumentFields DEF IntegerPart, Fraction

Whole(p, f) == RightAligned(Digits(IntegerPart(p, f), 10), p.width, Fill(p))
Decimals(p, f) == RightAligned(Digits(Fraction(p, f), 10), p.decimals, "0")

LEMMA FloatPieces ==
    ASSUME NEW p \in Plain, p.kind = "float", NEW f \in Given, f.type = "float"
    PROVE  /\ Digits(IntegerPart(p, f), 10) \in Seq(Chars)
           /\ Digits(Fraction(p, f), 10) \in Seq(Chars)
           /\ Whole(p, f) \in Seq(Chars) /\ Decimals(p, f) \in Seq(Chars)
<1>1. /\ Digits(IntegerPart(p, f), 10) \in Seq(Chars)
      /\ Digits(Fraction(p, f), 10) \in Seq(Chars)
    BY FloatNumbers, DigitsText
<1>2. p.width \in Nat /\ p.decimals \in Nat /\ Fill(p) \in Chars /\ "0" \in Chars
    BY PlainFields, FillChar, Literals
<1>3. Whole(p, f) \in Seq(Chars)
    BY <1>1, <1>2, RightAlignedShape DEF Whole
<1>4. Decimals(p, f) \in Seq(Chars)
    BY <1>1, <1>2, RightAlignedShape DEF Decimals
<1> QED
    BY <1>1, <1>3, <1>4

\* What a part stands for is a text, when its argument is of its kind.
LEMMA PieceText ==
    ASSUME NEW p \in Plain, NEW a, Takes(p) => a \in Given /\ a.type = p.kind
    PROVE  BareText(p, a) \in Seq(Chars)
<1>1. p.kind \in Kinds
    BY PlainFields
<1>2. CASE p.kind = "char"
  <2>1. p.c \in Chars
    BY <1>2, PlainFields
  <2> QED
    BY <1>2, <2>1 DEF BareText
<1>3. CASE p.kind = "percent"
    BY <1>3, Literals, OneChar DEF BareText
<1>4. CASE p.kind = "int"
  <2>1. a \in Given /\ a.type = "int"
    BY <1>4 DEF Takes
  <2>2. a.ud \in Nat /\ p.base \in {10, 16} /\ p.width \in Nat
    BY <1>4, <2>1, ArgumentFields, PlainFields
  <2>3. Digits(a.ud, p.base) \in Seq(Chars)
    BY <2>2, DigitsText
  <2>4. RightAligned(Digits(a.ud, p.base), p.width, Fill(p)) \in Seq(Chars)
    BY <2>2, <2>3, FillChar, RightAlignedShape
  <2> QED
    BY <1>4, <2>4 DEF BareText
<1>5. CASE p.kind = "str"
  <2>1. a \in Given /\ a.type = "str"
    BY <1>5 DEF Takes
  <2> QED
    BY <1>5, <2>1, ArgumentFields DEF BareText
<1>6. CASE p.kind = "float"
  <2>1. a \in Given /\ a.type = "float"
    BY <1>6 DEF Takes
  <2>2. Whole(p, a) \in Seq(Chars) /\ Decimals(p, a) \in Seq(Chars)
    BY <1>6, <2>1, FloatPieces
  <2> DEFINE sign == IF a.neg THEN <<"-">> ELSE <<>>
             point == IF p.decimals = 0 THEN <<>> ELSE <<".">> \o Decimals(p, a)
  <2>3. sign \in Seq(Chars)
    BY Literals, OneChar, NoChar
  <2>4. point \in Seq(Chars)
    <3>1. <<".">> \in Seq(Chars)
      BY Literals, OneChar
    <3>2. <<".">> \o Decimals(p, a) \in Seq(Chars)
      BY <2>2, <3>1, ConcatProperties
    <3> QED
      BY <3>2, NoChar
  <2>5. BareText(p, a) = sign \o Whole(p, a) \o point
    BY <1>6 DEF BareText, Whole, Decimals
  <2> HIDE DEF sign, point
  <2> QED
    BY <2>2, <2>3, <2>4, <2>5, ConcatProperties
<1> QED
    BY <1>1, <1>2, <1>3, <1>4, <1>5, <1>6 DEF Kinds

LEMMA CutText ==
    ASSUME NEW t \in Seq(Chars)
    PROVE  Cut(t) \in Seq(Chars) /\ Len(Cut(t)) \in Nat /\ Len(Cut(t)) <= Size
BY SizeNat, LenProperties, CutShape, LeastOf

LEMMA Joined ==
    ASSUME NEW a \in Seq(Chars), NEW b \in Seq(Chars)
    PROVE  /\ a \o b \in Seq(Chars) /\ a \o <<>> = a
BY ConcatProperties, ConcatEmptySeq

LEMMA Regrouped ==
    ASSUME NEW a \in Seq(Chars), NEW b \in Seq(Chars), NEW d \in Seq(Chars)
    PROVE  (a \o b) \o d = a \o (b \o d)
BY ConcatAssociative

LEMMA NumberText ==
    ASSUME NEW out \in Seq(Chars), NEW digits \in Seq(Chars), NEW fill \in Chars,
           NEW width \in Nat, Len(out) <= Size
    PROVE  zhy_sprintf_num(out, digits, fill, width)
               = Cut(out \o RightAligned(digits, width, fill))
BY NumberExact

\* A character for which there is room.
LEMMA CharExact ==
    ASSUME NEW out \in Seq(Chars), Len(out) < Size, NEW c \in Chars
    PROVE  /\ Append(out, c) = out \o <<c>> /\ Append(out, c) = Cut(out \o <<c>>)
           /\ Append(out, c) \in Seq(Chars) /\ Len(Append(out, c)) <= Size
<1>1. Append(out, c) = out \o <<c>>
    BY AppendIsConcat
<1>2. Append(out, c) \in Seq(Chars) /\ Len(Append(out, c)) = Len(out) + 1
    BY AppendProperties
<1>3. Len(Append(out, c)) <= Size
    BY <1>2, SizeNat, LenProperties
<1>4. Cut(Append(out, c)) = Append(out, c)
    BY <1>2, <1>3, CutWhole
<1> QED
    BY <1>1, <1>2, <1>3, <1>4

\* A float: the point, when there is room for it, and the decimals behind it.
LEMMA FloatExact ==
    ASSUME NEW p \in Plain, p.kind = "float", NEW f \in Given, f.type = "float",
           NEW out \in Seq(Chars), Len(out) < Size
    PROVE  LET signed == IF f.neg THEN Append(out, "-") ELSE out
               whole == zhy_sprintf_num(signed, Digits(IntegerPart(p, f), 10),
                                        Fill(p), p.width) IN
           /\ whole \in Seq(Chars) /\ Len(whole) <= Size
           /\ p.decimals = 0 => whole = Cut(out \o BareText(p, f))
           /\ p.decimals # 0 /\ Len(whole) < Size =>
                zhy_sprintf_num(Append(whole, "."), Digits(Fraction(p, f), 10), "0", p.decimals)
                    = Cut(out \o BareText(p, f))
<1> DEFINE signed == IF f.neg THEN Append(out, "-") ELSE out
           whole == zhy_sprintf_num(signed, Digits(IntegerPart(p, f), 10), Fill(p), p.width)
           sign == IF f.neg THEN <<"-">> ELSE <<>>
           point == IF p.decimals = 0 THEN <<>> ELSE <<".">> \o Decimals(p, f)
           W == Whole(p, f)
           D == Decimals(p, f)
<1>1. /\ Digits(IntegerPart(p, f), 10) \in Seq(Chars) /\ Digits(Fraction(p, f), 10) \in Seq(Chars)
      /\ W \in Seq(Chars) /\ D \in Seq(Chars)
    BY FloatPieces
<1>2. p.width \in Nat /\ p.decimals \in Nat /\ Fill(p) \in Chars /\ "0" \in Chars
    BY PlainFields, FillChar, Literals
<1>3. <<".">> \in Seq(Chars) /\ sign \in Seq(Chars)
    BY Literals, OneChar, NoChar
<1>4. point \in Seq(Chars)
    BY <1>1, <1>3, NoChar, ConcatProperties
<1>5. signed = out \o sign /\ signed \in Seq(Chars) /\ Len(signed) <= Size
  <2>1. CASE f.neg
    BY <2>1, Literals, CharExact
  <2>2. CASE ~f.neg
    BY <2>2, ConcatEmptySeq, SizeNat, LenProperties
  <2> QED
    BY <2>1, <2>2
<1>6. BareText(p, f) = (sign \o W) \o point
    BY DEF BareText, Whole, Decimals
<1> HIDE DEF sign, point
<1>7. W = RightAligned(Digits(IntegerPart(p, f), 10), p.width, Fill(p))
      /\ D = RightAligned(Digits(Fraction(p, f), 10), p.decimals, "0")
    BY DEF Whole, Decimals
<1>8. whole = Cut(signed \o W)
  <2> HIDE DEF signed, W
  <2>1. PICK g \in Seq(Chars), w \in Nat, c \in Chars :
            g = Digits(IntegerPart(p, f), 10) /\ w = p.width /\ c = Fill(p)
    BY <1>1, <1>2
  <2>2. signed \in Seq(Chars) /\ Len(signed) <= Size
    BY <1>5
  <2>3. zhy_sprintf_num(signed, g, c, w) = Cut(signed \o RightAligned(g, w, c))
    BY <2>2, NumberText
  <2> QED
    BY <1>7, <2>1, <2>3
<1> HIDE DEF whole, signed, W, D
<1>13. out \o BareText(p, f) = (signed \o W) \o point
  <2>1. sign \o W \in Seq(Chars)
    BY <1>1, <1>3, Joined
  <2>2. out \o ((sign \o W) \o point) = (out \o (sign \o W)) \o point
    BY <1>4, <2>1, Regrouped, Zenon
  <2>3. out \o (sign \o W) = (out \o sign) \o W
    BY <1>1, <1>3, Regrouped, Zenon
  <2> QED
    BY <1>5, <1>6, <2>2, <2>3 DEF W
<1>9. signed \o W \in Seq(Chars)
    BY <1>1, <1>5, ConcatProperties
<1>10. whole \in Seq(Chars) /\ Len(whole) <= Size
    BY <1>8, <1>9, CutText
<1>11. ASSUME p.decimals = 0 PROVE whole = Cut(out \o BareText(p, f))
  <2>1. point = <<>>
    BY <1>11 DEF point
  <2> QED
    BY <1>8, <1>9, <1>13, <2>1, Joined
<1>12. ASSUME p.decimals # 0, Len(whole) < Size
       PROVE  zhy_sprintf_num(Append(whole, "."), Digits(Fraction(p, f), 10), "0", p.decimals)
                  = Cut(out \o BareText(p, f))
  <2>1. point = <<".">> \o D
    BY <1>12 DEF point, D
  <2>2. /\ Append(whole, ".") = whole \o <<".">> /\ Append(whole, ".") \in Seq(Chars)
        /\ Len(Append(whole, ".")) <= Size
    BY <1>10, <1>12, Literals, CharExact
  <2>3. zhy_sprintf_num(Append(whole, "."), Digits(Fraction(p, f), 10), "0", p.decimals)
            = Cut(Append(whole, ".") \o D)
    <3>1. PICK g \in Seq(Chars), w \in Nat, c \in Chars, t \in Seq(Chars) :
              /\ g = Digits(Fraction(p, f), 10) /\ w = p.decimals /\ c = "0"
              /\ t = Append(whole, ".")
      BY <1>1, <1>2, <2>2
    <3>2. Len(t) <= Size
      BY <2>2, <3>1
    <3>3. zhy_sprintf_num(t, g, c, w) = Cut(t \o RightAligned(g, w, c))
      BY <3>2, NumberText
    <3> QED
      BY <1>7, <3>1, <3>3
  <2>4. (whole \o <<".">>) \o D = whole \o point
    <3>1. (whole \o <<".">>) \o D = whole \o (<<".">> \o D)
      <4>1. PICK t \in Seq(Chars), u \in Seq(Chars), v \in Seq(Chars) :
                t = whole /\ u = <<".">> /\ v = D
        BY <1>1, <1>3, <1>10
      <4>2. (t \o u) \o v = t \o (u \o v)
        BY Regrouped
      <4> QED
        BY <4>1, <4>2
    <3> QED
      BY <2>1, <3>1
  <2>5. Cut(whole \o point) = Cut((signed \o W) \o point)
    BY <1>4, <1>8, <1>9, CutConcat
  <2> QED
    BY <1>13, <2>2, <2>3, <2>4, <2>5
<1> QED
    BY <1>10, <1>11, <1>12 DEF whole, signed

-----------------------------------------------------------------------------
(* The arguments, and the text of a whole call.                             *)

\* Each part that takes an argument takes the next one.
LEMMA NextArg ==
    ASSUME NEW c, NEW k \in Nat
    PROVE  /\ ArgOf(c, k) \in Nat /\ ArgOf(c, 0) = 0
           /\ ArgOf(c, k + 1) = ArgOf(c, k) + (IF Takes(c.fmt[k + 1]) THEN 1 ELSE 0)
<1> DEFINE T(i) == {j \in 1..i : Takes(c.fmt[j])}
<1>1. \A i \in Nat : IsFiniteSet(T(i)) /\ Cardinality(T(i)) \in Nat
  <2> SUFFICES ASSUME NEW i \in Nat PROVE IsFiniteSet(T(i)) /\ Cardinality(T(i)) \in Nat
    OBVIOUS
  <2>1. IsFiniteSet(1..i)
    BY FS_Interval
  <2>2. IsFiniteSet(T(i))
    BY <2>1, FS_Subset
  <2> QED
    BY <2>2, FS_CardinalityType
<1>2. T(0) = {}
    OBVIOUS
<1>3. Cardinality(T(0)) = 0
    BY <1>2, FS_EmptySet
<1>4. CASE Takes(c.fmt[k + 1])
  <2>1. T(k + 1) = T(k) \cup {k + 1} /\ k + 1 \notin T(k)
    BY <1>4
  <2> HIDE DEF T
  <2>2. Cardinality(T(k + 1)) = Cardinality(T(k)) + 1
    BY <1>1, <2>1, FS_AddElement
  <2> QED
    BY <1>1, <1>3, <1>4, <2>2 DEF ArgOf, T
<1>5. CASE ~Takes(c.fmt[k + 1])
  <2>1. T(k + 1) = T(k)
    BY <1>5
  <2>2. Cardinality(T(k)) \in Nat
    BY <1>1
  <2>3. Cardinality(T(k + 1)) = Cardinality(T(k)) + 0
    BY <2>1, <2>2
  <2> QED
    BY <1>1, <1>3, <1>5, <2>3 DEF ArgOf, T
<1> QED
    BY <1>4, <1>5

\* A set of numbers that has 0, and the successor of each of its members, has them all.
LEMMA SetInduction ==
    ASSUME NEW S \in SUBSET Nat, 0 \in S, \A n \in S : n + 1 \in S
    PROVE  \A n \in Nat : n \in S
<1> DEFINE R == OpToRel(<, Nat)
<1>1. IsWellFoundedOn(R, Nat)
    BY NatLessThanWellFounded, Zenon
<1>2. ASSUME NEW T \in SUBSET Nat, T # {}
      PROVE  \E x \in T : \A y \in T : ~(<<y, x>> \in R)
    <2> HIDE DEF R
    <2> QED
        BY <1>1, <1>2, WFMin
<1>3. \A x, y \in Nat : y < x => <<y, x>> \in R
    BY DEF OpToRel
<1> HIDE DEF R
<1>4. ASSUME Nat \ S # {} PROVE FALSE
    <2>1. PICK x \in Nat \ S : \A y \in Nat \ S : ~(<<y, x>> \in R)
        BY <1>2, <1>4
    <2>2. x # 0 /\ x - 1 \in Nat /\ x - 1 < x
        BY <2>1
    <2>3. x - 1 \in S
        BY <1>3, <2>1, <2>2
    <2> QED
        BY <2>1, <2>2, <2>3
<1> QED
    BY <1>4

\* f is the text up to each of the pieces.
Growing(f, front, pieces) ==
    /\ f \in [0..Len(pieces) -> Seq(Chars)]
    /\ f[0] = front
    /\ \A i \in 1..Len(pieces) : f[i] = f[i - 1] \o pieces[i]

LEMMA GrowsTo ==
    ASSUME NEW front \in Seq(Chars), NEW pieces \in Seq(Seq(Chars))
    PROVE  \E f : Growing(f, front, pieces)
<1>1. PICK n \in Nat : n = Len(pieces)
    BY LenProperties
<1> DEFINE Upto(k, f) == f[0] = front /\ \A i \in 1..k : f[i] = f[i - 1] \o pieces[i]
           Grows(k) == \E f \in [0..k -> Seq(Chars)] : Upto(k, f)
           S == {k \in Nat : k <= n => Grows(k)}
<1>2. 0 \in S
  <2>1. [i \in 0..0 |-> front] \in [0..0 -> Seq(Chars)]
    OBVIOUS
  <2>2. Upto(0, [i \in 0..0 |-> front])
    OBVIOUS
  <2> QED
    BY <2>1, <2>2
<1>3. ASSUME NEW k \in S PROVE k + 1 \in S
  <2> SUFFICES ASSUME k + 1 <= n PROVE Grows(k + 1)
    <3> HIDE DEF Grows
    <3> QED
      BY k \in Nat
  <2>1. k \in Nat /\ k <= n /\ k + 1 \in 1..Len(pieces)
    BY <1>1, k \in Nat
  <2>2. PICK f \in [0..k -> Seq(Chars)] : Upto(k, f)
    BY <1>3, <2>1
  <2>3. PICK last \in Seq(Chars) : last = f[k] \o pieces[k + 1]
    <3>1. f[k] \in Seq(Chars) /\ pieces[k + 1] \in Seq(Chars)
      BY <2>1, <2>2, ElementOfSeq
    <3> QED
      BY <3>1, Joined
  <2> DEFINE g == [i \in 0..(k + 1) |-> IF i = k + 1 THEN last ELSE f[i]]
  <2>4. g \in [0..(k + 1) -> Seq(Chars)]
    <3> SUFFICES ASSUME NEW i \in 0..(k + 1), i # k + 1 PROVE f[i] \in Seq(Chars)
      BY <2>3
    <3>1. i \in 0..k
      BY <2>1
    <3> QED
      BY <2>2, <3>1
  <2>5. g[0] = front
    BY <2>1, <2>2
  <2>6. ASSUME NEW i \in 1..(k + 1) PROVE g[i] = g[i - 1] \o pieces[i]
    <3>1. CASE i = k + 1
      <4>1. i - 1 = k /\ k # k + 1 /\ k \in 0..(k + 1) /\ k + 1 \in 0..(k + 1)
        BY <2>1, <3>1
      <4>2. g[k] = f[k] /\ g[k + 1] = last
        BY <4>1
      <4> HIDE DEF g
      <4> QED
        BY <2>3, <3>1, <4>1, <4>2
    <3>2. CASE i # k + 1
      <4>1. i \in 1..k /\ i - 1 \in 0..k /\ i - 1 # k + 1
        BY <2>1, <3>2
      <4>2. g[i] = f[i] /\ g[i - 1] = f[i - 1]
        BY <2>1, <3>2, <4>1
      <4>3. f[i] = f[i - 1] \o pieces[i]
        BY <2>2, <4>1
      <4> QED
        BY <4>2, <4>3
    <3> QED
      BY <3>1, <3>2
  <2> HIDE DEF g
  <2> QED
    BY <2>4, <2>5, <2>6
<1>4. n \in S
  <2> HIDE DEF S
  <2>1. S \in SUBSET Nat
    BY DEF S
  <2> QED
    BY <1>2, <1>3, <2>1, SetInduction
<1>5. Grows(n)
  <2> HIDE DEF Grows
  <2> QED
    BY <1>4
<1> QED
    BY <1>1, <1>5 DEF Growing

\* FlattenSeq, which is defined by recursion, is where a text grows to from nothing.
LEMMA Flattened ==
    ASSUME NEW pieces \in Seq(Seq(Chars)), NEW g, Growing(g, <<>>, pieces)
    PROVE  FlattenSeq(pieces) = g[Len(pieces)]
<1>1. PICK n \in Nat : n = Len(pieces)
    BY LenProperties
<1>2. CASE n = 0
  <2>1. pieces = <<>>
    BY <1>1, <1>2, EmptySeq
  <2>2. Len(pieces) = 0
    BY <1>1, <1>2
  <2>3. g[0] = <<>>
    BY DEF Growing
  <2> QED
    BY <2>1, <2>2, <2>3 DEF FlattenSeq
<1>3. CASE n # 0
  <2> DEFINE Def(h) == [i \in 1..Len(pieces) |->
                          IF i = 1 THEN pieces[i] ELSE h[i - 1] \o pieces[i]]
             flatten == CHOOSE h : h = Def(h)
             h0 == [i \in 1..Len(pieces) |-> g[i]]
  <2>1. /\ g[0] = <<>> /\ g \in [0..n -> Seq(Chars)]
        /\ \A i \in 1..n : g[i] = g[i - 1] \o pieces[i]
    BY <1>1 DEF Growing
  <2>2. g[1] = pieces[1]
    <3>1. 1 \in 1..n /\ 1 \in 1..Len(pieces) /\ 1 - 1 = 0
      BY <1>1, <1>3
    <3>2. g[1] = <<>> \o pieces[1] /\ pieces[1] \in Seq(Chars)
      BY <2>1, <3>1, ElementOfSeq
    <3> QED
      BY <3>2, ConcatEmptySeq
  <2>3. h0 = Def(h0)
    <3> SUFFICES ASSUME NEW i \in 1..n
                 PROVE  g[i] = IF i = 1 THEN pieces[i] ELSE h0[i - 1] \o pieces[i]
      BY <1>1
    <3>1. CASE i = 1
      BY <2>2, <3>1
    <3>2. CASE i # 1
      <4>1. i - 1 \in 1..Len(pieces)
        BY <1>1, <3>2
      <4>2. h0[i - 1] = g[i - 1]
        BY <4>1
      <4> QED
        BY <2>1, <3>2, <4>2
    <3> QED
      BY <3>1, <3>2
  <2>4. flatten = Def(flatten)
    <3> HIDE DEF Def, h0
    <3> QED
      BY <2>3
  <2>5. Len(pieces) # 0
    BY <1>1, <1>3
  <2>6. FlattenSeq(pieces) = flatten[Len(pieces)]
    BY <2>5, Zenon DEF FlattenSeq
  <2> HIDE DEF flatten
  <2>7. \A i \in 1..n : flatten[i] = IF i = 1 THEN pieces[i] ELSE flatten[i - 1] \o pieces[i]
    BY <1>1, <2>4
  <2> DEFINE S == {k \in Nat : k + 1 <= n => flatten[k + 1] = g[k + 1]}
  <2>8. 0 \in S
    <3>1. 1 \in 1..n
      BY <1>3
    <3>2. flatten[1] = g[1]
      BY <2>2, <2>7, <3>1
    <3> QED
      BY <3>2
  <2>9. ASSUME NEW k \in S PROVE k + 1 \in S
    <3> SUFFICES ASSUME k \in Nat, (k + 1) + 1 <= n
                 PROVE  flatten[(k + 1) + 1] = g[(k + 1) + 1]
      BY <2>9
    <3>1. /\ k + 1 <= n /\ (k + 1) + 1 \in 1..n /\ ((k + 1) + 1) - 1 = k + 1
          /\ (k + 1) + 1 # 1
      OBVIOUS
    <3>2. flatten[k + 1] = g[k + 1]
      BY <2>9, <3>1
    <3>3. flatten[(k + 1) + 1] = flatten[k + 1] \o pieces[(k + 1) + 1]
      BY <2>7, <3>1
    <3>4. g[(k + 1) + 1] = g[k + 1] \o pieces[(k + 1) + 1]
      BY <2>1, <3>1
    <3> QED
      BY <3>2, <3>3, <3>4
  <2>10. n - 1 \in S
    <3> HIDE DEF S
    <3>1. S \in SUBSET Nat
      BY DEF S
    <3>2. n - 1 \in Nat
      BY <1>3
    <3> QED
      BY <2>8, <2>9, <3>1, <3>2, SetInduction
  <2>11. flatten[n] = g[n]
    <3>1. (n - 1) + 1 = n
      OBVIOUS
    <3> QED
      BY <2>10, <3>1
  <2> QED
    BY <1>1, <2>6, <2>11
<1> QED
    BY <1>2, <1>3

\* The text behind a front grows to the front and the flattened pieces.
LEMMA TextGrows ==
    ASSUME NEW front \in Seq(Chars), NEW pieces \in Seq(Seq(Chars))
    PROVE  \E f : Growing(f, front, pieces) /\ f[Len(pieces)] = front \o FlattenSeq(pieces)
<1>1. PICK n \in Nat : n = Len(pieces)
    BY LenProperties
<1>2. PICK g : Growing(g, <<>>, pieces)
    BY NoChar, GrowsTo
<1>3. /\ g \in [0..n -> Seq(Chars)] /\ g[0] = <<>>
      /\ \A i \in 1..n : g[i] = g[i - 1] \o pieces[i]
    BY <1>1, <1>2 DEF Growing
<1> DEFINE f == [i \in 0..n |-> front \o g[i]]
<1>4. f \in [0..n -> Seq(Chars)]
  <2>1. \A i \in 0..n : front \o g[i] \in Seq(Chars)
    BY <1>3, Joined
  <2> QED
    BY <2>1
<1>5. f[0] = front
  <2>1. f[0] = front \o <<>>
    BY <1>3
  <2> QED
    BY <2>1, Joined, NoChar
<1>6. ASSUME NEW i \in 1..n PROVE f[i] = f[i - 1] \o pieces[i]
  <2>1. i - 1 \in 0..n /\ i \in 0..n
    OBVIOUS
  <2>2. f[i] = front \o g[i] /\ f[i - 1] = front \o g[i - 1]
    BY <2>1
  <2>3. PICK u \in Seq(Chars), v \in Seq(Chars) : u = g[i - 1] /\ v = pieces[i]
    BY <1>1, <1>3, <2>1, ElementOfSeq
  <2>4. front \o (u \o v) = (front \o u) \o v
    BY Regrouped
  <2> HIDE DEF f
  <2> QED
    BY <1>3, <2>2, <2>3, <2>4
<1>7. f[n] = front \o FlattenSeq(pieces)
  <2>1. FlattenSeq(pieces) = g[n]
    BY <1>1, <1>2, Flattened
  <2> QED
    BY <2>1
<1> HIDE DEF f
<1> QED
    BY <1>1, <1>4, <1>5, <1>6, <1>7 DEF Growing

\* Once a growing text has reached last, what follows is cut off.
LEMMA GrowsCut ==
    ASSUME NEW front, NEW pieces \in Seq(Seq(Chars)), NEW f, Growing(f, front, pieces),
           NEW k \in 0..Len(pieces), Len(f[k]) >= Size
    PROVE  Cut(f[Len(pieces)]) = Cut(f[k])
<1>1. PICK n \in Nat : n = Len(pieces)
    BY LenProperties
<1>2. /\ f \in [0..n -> Seq(Chars)] /\ k \in Nat /\ k <= n
      /\ \A i \in 1..n : f[i] = f[i - 1] \o pieces[i]
  <2>1. k \in Nat /\ k <= n
    BY <1>1
  <2> QED
    BY <1>1, <2>1 DEF Growing
<1> DEFINE S == {m \in Nat : k + m <= n => Cut(f[k + m]) = Cut(f[k])}
<1>3. 0 \in S
    BY <1>2
<1>4. ASSUME NEW m \in S PROVE m + 1 \in S
  <2> SUFFICES ASSUME m \in Nat, k + (m + 1) <= n PROVE Cut(f[k + (m + 1)]) = Cut(f[k])
    BY <1>4
  <2>1. /\ k + m <= n /\ k + m \in 0..n /\ k + (m + 1) \in 1..n /\ (k + (m + 1)) - 1 = k + m
        /\ k \in 0..n
    BY <1>2
  <2>2. Cut(f[k + m]) = Cut(f[k])
    BY <1>4, <2>1
  <2>3. PICK u \in Seq(Chars), v \in Seq(Chars), w \in Seq(Chars) :
            u = f[k + m] /\ v = pieces[k + (m + 1)] /\ w = f[k]
    BY <1>1, <1>2, <2>1, ElementOfSeq
  <2>4. Cut(u \o v) = Cut(Cut(w) \o v)
    BY <2>2, <2>3, CutConcat
  <2>5. Cut(Cut(w) \o v) = Cut(w \o v)
    BY CutConcat
  <2>6. Cut(w \o v) = Cut(w)
    BY <2>3, CutFull
  <2>7. f[k + (m + 1)] = u \o v
    BY <1>2, <2>1, <2>3
  <2> QED
    BY <2>3, <2>4, <2>5, <2>6, <2>7
<1>5. n - k \in S
  <2> HIDE DEF S
  <2>1. S \in SUBSET Nat
    BY DEF S
  <2>2. n - k \in Nat
    BY <1>2
  <2> QED
    BY <1>3, <1>4, <2>1, <2>2, SetInduction
<1>6. k + (n - k) = n
    BY <1>2
<1> QED
    BY <1>1, <1>2, <1>5, <1>6

-----------------------------------------------------------------------------
(* The invariant: how much of a call has been printed.                      *)

\* A call whose arguments match its format.
Proper(c) == c.fmt \in Seq(Plain) /\ c.args \in Seq(Given) /\ Matched(c)

Pieces(c) == [i \in DOMAIN c.fmt |->
                 IF Takes(c.fmt[i]) THEN BareText(c.fmt[i], c.args[ArgOf(c, i)])
                                    ELSE BareText(c.fmt[i], <<>>)]

\* The buffer holds the first k pieces behind a front, up to last, and the rest is to come.
Printed(c, f, k) ==
    /\ Proper(c) /\ k \in 0..Len(c.fmt)
    /\ Growing(f, f[0], Pieces(c))
    /\ bare = f[Len(c.fmt)] /\ buf = Cut(f[k])
    /\ fmt = SubSeq(c.fmt, k + 1, Len(c.fmt))
    /\ args = SubSeq(c.args, ArgOf(c, k) + 1, Len(c.args))

\* The text is known, and no part of it is taken for a conversion.
Known == bare # <<>> /\ (who = "core" => "%" \notin ToSet(bare))

Exact == at = "format" /\ Known => \E c, f, k : Printed(c, f, k)

Typed ==
    /\ who \in {"stderr", "core"} /\ err \in BOOLEAN
    /\ fmt \in Seq(Part) /\ args \in Seq(Given)
    /\ buf \in Seq(Chars) /\ bare \in Seq(Chars)

Bounded ==
    IF at = "overrun"
    THEN Len(buf) = Size + 1 /\ Head(fmt).kind = "float" /\ Head(fmt).decimals > 0
    ELSE Len(buf) <= Size

BareFault == at = "fault" => (bare = <<>> \/ "%" \in ToSet(bare))

IInv == Typed /\ Bounded /\ Exact /\ BareFault

\* The pieces of a call are texts.
LEMMA PiecesText ==
    ASSUME NEW c, Proper(c)
    PROVE  /\ Pieces(c) \in Seq(Seq(Chars)) /\ Len(Pieces(c)) = Len(c.fmt)
           /\ Len(c.fmt) \in Nat
<1>1. PICK n \in Nat : n = Len(c.fmt)
    BY LenProperties DEF Proper
<1>2. DOMAIN c.fmt = 1..n
    BY <1>1, LenProperties DEF Proper
<1>3. ASSUME NEW i \in 1..n PROVE Pieces(c)[i] \in Seq(Chars)
  <2>1. c.fmt[i] \in Plain
    BY <1>1, ElementOfSeq DEF Proper
  <2>2. CASE Takes(c.fmt[i])
    <3>1. ArgOf(c, i) \in DOMAIN c.args /\ c.args[ArgOf(c, i)].type = c.fmt[i].kind
      BY <1>2, <2>2 DEF Proper, Matched
    <3>2. c.args[ArgOf(c, i)] \in Given
      BY <3>1, LenProperties, ElementOfSeq DEF Proper
    <3>3. BareText(c.fmt[i], c.args[ArgOf(c, i)]) \in Seq(Chars)
      BY <2>1, <3>1, <3>2, PieceText
    <3> QED
      BY <1>2, <2>2, <3>3 DEF Pieces
  <2>3. CASE ~Takes(c.fmt[i])
    <3>1. BareText(c.fmt[i], <<>>) \in Seq(Chars)
      BY <2>1, <2>3, PieceText
    <3> QED
      BY <1>2, <2>3, <3>1 DEF Pieces
  <2> QED
    BY <2>2, <2>3
<1>4. /\ DOMAIN Pieces(c) = 1..n
      /\ Pieces(c) = [i \in 1..n |-> Pieces(c)[i]]
    BY <1>2 DEF Pieces
<1>5. Pieces(c) \in [1..n -> Seq(Chars)]
    BY <1>3, <1>4
<1> QED
    BY <1>1, <1>5, SeqDef, LenProperties

\* What comes next of a call.
LEMMA NextTurn ==
    ASSUME NEW c, NEW f, NEW k, Printed(c, f, k), fmt # <<>>
    PROVE  /\ k \in Nat /\ k + 1 \in 1..Len(c.fmt)
           /\ Head(fmt) \in Plain
           /\ Tail(fmt) = SubSeq(c.fmt, (k + 1) + 1, Len(c.fmt))
           /\ Takes(Head(fmt)) =>
                /\ args # <<>> /\ Head(args) \in Given /\ Head(args).type = Head(fmt).kind
                /\ Tail(args) = SubSeq(c.args, ArgOf(c, k + 1) + 1, Len(c.args))
                /\ Pieces(c)[k + 1] = BareText(Head(fmt), Head(args))
           /\ ~Takes(Head(fmt)) =>
                /\ args = SubSeq(c.args, ArgOf(c, k + 1) + 1, Len(c.args))
                /\ Pieces(c)[k + 1] = BareText(Head(fmt), <<>>)
<1>1. PICK n \in Nat : n = Len(c.fmt) /\ DOMAIN c.fmt = 1..n
    BY LenProperties DEF Printed, Proper
<1>2. k \in Nat /\ k <= n /\ fmt = SubSeq(c.fmt, k + 1, n) /\ c.fmt \in Seq(Plain)
    BY <1>1 DEF Printed, Proper
<1>3. k # n
  <2>1. SubSeq(c.fmt, n + 1, n) = <<>>
    BY SubSeqEmpty
  <2> QED
    BY <1>2, <2>1
<1>4. k + 1 \in 1..n
    BY <1>2, <1>3
<1>5. /\ Head(fmt) = c.fmt[k + 1] /\ Head(fmt) \in Plain
      /\ Tail(fmt) = SubSeq(c.fmt, (k + 1) + 1, n)
  <2>1. PICK m \in 1..Len(c.fmt) : m = k + 1
    BY <1>1, <1>4
  <2>2. n \in m..Len(c.fmt)
    BY <1>1
  <2>3. Head(SubSeq(c.fmt, m, n)) = c.fmt[m] /\ Tail(SubSeq(c.fmt, m, n)) = SubSeq(c.fmt, m + 1, n)
    BY <1>2, <2>2, HeadTailOfSubSeq
  <2>4. c.fmt[m] \in Plain
    BY <1>2, ElementOfSeq
  <2> QED
    BY <1>2, <2>1, <2>3, <2>4
<1>6. ArgOf(c, k) \in Nat
      /\ ArgOf(c, k + 1) = ArgOf(c, k) + (IF Takes(c.fmt[k + 1]) THEN 1 ELSE 0)
    BY <1>2, NextArg
<1>7. ASSUME Takes(Head(fmt))
      PROVE  /\ args # <<>> /\ Head(args) \in Given /\ Head(args).type = Head(fmt).kind
             /\ Tail(args) = SubSeq(c.args, ArgOf(c, k + 1) + 1, Len(c.args))
             /\ Pieces(c)[k + 1] = BareText(Head(fmt), Head(args))
  <2>1. PICK a \in Nat : a = ArgOf(c, k)
    BY <1>6
  <2>2. ArgOf(c, k + 1) = a + 1 /\ args = SubSeq(c.args, a + 1, Len(c.args))
    BY <1>5, <1>6, <1>7, <2>1 DEF Printed
  <2>3. a + 1 \in DOMAIN c.args /\ c.args[a + 1].type = c.fmt[k + 1].kind
    <3>1. Matched(c) /\ k + 1 \in DOMAIN c.fmt /\ Takes(c.fmt[k + 1])
      BY <1>1, <1>4, <1>5, <1>7 DEF Printed, Proper
    <3>2. ArgOf(c, k + 1) \in DOMAIN c.args /\ c.args[ArgOf(c, k + 1)].type = c.fmt[k + 1].kind
      BY <3>1 DEF Matched
    <3> QED
      BY <2>2, <3>2
  <2>4. c.args \in Seq(Given)
    BY DEF Printed, Proper
  <2>5. PICK l \in Nat : l = Len(c.args) /\ DOMAIN c.args = 1..l
    BY <2>4, LenProperties
  <2>6. PICK m \in 1..Len(c.args) : m = a + 1
    BY <2>3, <2>5
  <2>7. l \in m..Len(c.args)
    BY <2>5
  <2>8. /\ Head(SubSeq(c.args, m, l)) = c.args[m]
        /\ Tail(SubSeq(c.args, m, l)) = SubSeq(c.args, m + 1, l)
    BY <2>4, <2>7, HeadTailOfSubSeq
  <2>9. c.args[m] \in Given
    BY <2>4, ElementOfSeq
  <2>10. args # <<>>
    <3>1. \A i \in m..l : c.args[i] \in Given
      BY <2>4, <2>5, ElementOfSeq
    <3>2. Len(SubSeq(c.args, m, l)) = IF m <= l THEN l - m + 1 ELSE 0
      BY <3>1, SubSeqProperties
    <3>3. Len(SubSeq(c.args, m, l)) # 0
      BY <2>5, <2>7, <3>2
    <3> QED
      BY <2>2, <2>5, <2>6, <3>3
  <2>11. Pieces(c)[k + 1] = BareText(c.fmt[k + 1], c.args[a + 1])
    BY <1>1, <1>4, <1>5, <1>7, <2>2 DEF Pieces
  <2> QED
    BY <1>5, <2>2, <2>3, <2>5, <2>6, <2>8, <2>9, <2>10, <2>11
<1>8. ASSUME ~Takes(Head(fmt))
      PROVE  /\ args = SubSeq(c.args, ArgOf(c, k + 1) + 1, Len(c.args))
             /\ Pieces(c)[k + 1] = BareText(Head(fmt), <<>>)
  <2>1. ArgOf(c, k + 1) = ArgOf(c, k)
    BY <1>5, <1>6, <1>8
  <2>2. Pieces(c)[k + 1] = BareText(c.fmt[k + 1], <<>>)
    BY <1>1, <1>4, <1>5, <1>8 DEF Pieces
  <2> QED
    BY <1>5, <2>1, <2>2 DEF Printed
<1> QED
    BY <1>1, <1>2, <1>4, <1>5, <1>7, <1>8

\* A turn that adds the piece of its part, cut at last, and takes its argument, is one piece
\* further.
LEMMA TurnDone ==
    ASSUME NEW c, NEW f, NEW k, Printed(c, f, k), fmt # <<>>, fmt' = Tail(fmt), bare' = bare,
           \/ /\ Takes(Head(fmt)) /\ args' = Tail(args)
              /\ buf' = Cut(buf \o BareText(Head(fmt), Head(args)))
           \/ /\ ~Takes(Head(fmt)) /\ args' = args
              /\ buf' = Cut(buf \o BareText(Head(fmt), <<>>))
    PROVE  Printed(c, f, k + 1)'
<1>1. /\ k \in Nat /\ k + 1 \in 1..Len(c.fmt)
      /\ fmt' = SubSeq(c.fmt, (k + 1) + 1, Len(c.fmt))
    BY NextTurn
<1>2. /\ args' = SubSeq(c.args, ArgOf(c, k + 1) + 1, Len(c.args))
      /\ buf' = Cut(buf \o Pieces(c)[k + 1])
    BY NextTurn
<1>3. Proper(c) /\ Growing(f, f[0], Pieces(c)) /\ bare' = f[Len(c.fmt)] /\ buf = Cut(f[k])
    BY DEF Printed
<1>4. Pieces(c) \in Seq(Seq(Chars)) /\ Len(Pieces(c)) = Len(c.fmt) /\ Len(c.fmt) \in Nat
    BY <1>3, PiecesText
<1>5. buf' = Cut(f[k + 1])
  <2>1. k \in 0..Len(c.fmt) /\ (k + 1) - 1 = k
    BY <1>1, <1>4
  <2>2. f[k] \in Seq(Chars) /\ Pieces(c)[k + 1] \in Seq(Chars)
    BY <1>1, <1>3, <1>4, <2>1, ElementOfSeq DEF Growing
  <2>3. f[k + 1] = f[k] \o Pieces(c)[k + 1]
    BY <1>1, <1>3, <1>4, <2>1 DEF Growing
  <2>4. Cut(Cut(f[k]) \o Pieces(c)[k + 1]) = Cut(f[k] \o Pieces(c)[k + 1])
    BY <2>2, CutConcat
  <2> QED
    BY <1>2, <1>3, <2>3, <2>4
<1>6. k + 1 \in 0..Len(c.fmt)
    BY <1>1
<1> QED
    BY <1>1, <1>2, <1>3, <1>5, <1>6 DEF Printed

\* A call begins with its front in the buffer, and all of it to come.
LEMMA BeginExact ==
    ASSUME NEW c, c.fmt \in Seq(Plain), c.args \in Seq(Given), NEW function,
           NEW front \in Seq(Chars), Len(front) <= Size, Begin(function, front, c)
    PROVE  Exact' /\ bare' \in Seq(Chars)
<1>1. CASE ~Matched(c)
    BY <1>1, NoChar DEF Begin, Wanted, Exact, Known
<1>2. CASE Matched(c)
  <2>1. Proper(c)
    BY <1>2 DEF Proper
  <2>2. Pieces(c) \in Seq(Seq(Chars)) /\ Len(Pieces(c)) = Len(c.fmt) /\ Len(c.fmt) \in Nat
    BY <2>1, PiecesText
  <2>3. PICK f : Growing(f, front, Pieces(c))
                 /\ f[Len(Pieces(c))] = front \o FlattenSeq(Pieces(c))
    BY <2>2, TextGrows
  <2>4. Bare(c) = FlattenSeq(Pieces(c))
    BY DEF Bare, Pieces
  <2>5. bare' = f[Len(c.fmt)]
    BY <1>2, <2>2, <2>3, <2>4 DEF Begin, Wanted
  <2>6. f[0] = front /\ f[Len(c.fmt)] \in Seq(Chars)
    <3>1. Len(c.fmt) \in 0..Len(c.fmt)
      BY <2>2
    <3> QED
      BY <2>2, <2>3, <3>1 DEF Growing
  <2>7. buf' = Cut(f[0])
    BY <2>6, CutWhole DEF Begin
  <2>8. fmt' = SubSeq(c.fmt, 0 + 1, Len(c.fmt))
    BY SubSeqFull DEF Begin
  <2>9. args' = SubSeq(c.args, ArgOf(c, 0) + 1, Len(c.args))
    <3>1. ArgOf(c, 0) = 0
      BY NextArg
    <3> QED
      BY <3>1, SubSeqFull DEF Begin
  <2>10. Printed(c, f, 0)'
    BY <2>1, <2>2, <2>3, <2>5, <2>6, <2>7, <2>8, <2>9 DEF Printed
  <2> QED
    BY <2>5, <2>6, <2>10 DEF Exact
<1> QED
    BY <1>1, <1>2

\* Without a negative integer no sign is lost.
Signs == ~minus => want = bare

LEMMA UnsignedPiece ==
    ASSUME NEW p \in Plain, NEW a, Takes(p) => a \in Given /\ a.type = p.kind,
           p.kind = "int" => ~Negative(a)
    PROVE  PartText(p, a) = BareText(p, a)
<1>1. PICK t \in Seq(Chars) : t = BareText(p, a)
    BY PieceText
<1>2. PartText(p, a) = <<>> \o t
    BY <1>1 DEF PartText
<1> QED
    BY <1>1, <1>2, ConcatEmptySeq

LEMMA BeginSigns ==
    ASSUME NEW c, c.fmt \in Seq(Plain), c.args \in Seq(Given), NEW function, NEW front,
           Begin(function, front, c)
    PROVE  Signs'
<1> SUFFICES ASSUME ~minus', Matched(c) PROVE Text(c) = Bare(c)
    BY DEF Signs, Begin, Wanted
<1>1. \A j \in DOMAIN c.args : ~Negative(c.args[j])
    BY DEF Begin
<1>2. ASSUME NEW i \in DOMAIN c.fmt, Takes(c.fmt[i])
      PROVE  PartText(c.fmt[i], c.args[ArgOf(c, i)]) = BareText(c.fmt[i], c.args[ArgOf(c, i)])
  <2>1. c.fmt[i] \in Plain
    BY LenProperties, ElementOfSeq
  <2>2. ArgOf(c, i) \in DOMAIN c.args /\ c.args[ArgOf(c, i)].type = c.fmt[i].kind
    BY <1>2 DEF Matched
  <2>3. c.args[ArgOf(c, i)] \in Given
    BY <2>2, LenProperties, ElementOfSeq
  <2> QED
    BY <1>1, <2>1, <2>2, <2>3, UnsignedPiece
<1>3. ASSUME NEW i \in DOMAIN c.fmt, ~Takes(c.fmt[i])
      PROVE  PartText(c.fmt[i], <<>>) = BareText(c.fmt[i], <<>>)
  <2>1. c.fmt[i] \in Plain
    BY LenProperties, ElementOfSeq
  <2>2. c.fmt[i].kind # "int"
    BY <1>3 DEF Takes
  <2> QED
    BY <1>3, <2>1, <2>2, UnsignedPiece
<1>4. [i \in DOMAIN c.fmt |-> IF Takes(c.fmt[i]) THEN PartText(c.fmt[i], c.args[ArgOf(c, i)])
                                                ELSE PartText(c.fmt[i], <<>>)]
      = [i \in DOMAIN c.fmt |-> IF Takes(c.fmt[i]) THEN BareText(c.fmt[i], c.args[ArgOf(c, i)])
                                                  ELSE BareText(c.fmt[i], <<>>)]
    BY <1>2, <1>3
<1> QED
    BY <1>4 DEF Text, Bare

\* A line without a '%' is a format of characters, and what they stand for is the line.
LEMMA LinePrinted ==
    ASSUME NEW line \in Seq(Chars), NEW front \in Seq(Chars), Len(front) <= Size,
           "%" \notin ToSet(line),
           fmt' = AsFormat(line), args' = <<>>, buf' = front, bare' = front \o line
    PROVE  \E c, f, k : Printed(c, f, k)'
<1>1. PICK n \in Nat : n = Len(line) /\ DOMAIN line = 1..n
    BY LenProperties
<1>2. \A i \in 1..n : line[i] \in Chars /\ line[i] # "%"
    BY <1>1, ElementOfSeq DEF ToSet
<1> DEFINE parts == [i \in 1..n |-> [kind |-> "char", c |-> line[i]]]
           c == [fmt |-> parts, args |-> <<>>]
           f == [i \in 0..n |-> front \o SubSeq(line, 1, i)]
<1>3. AsFormat(line) = parts
    BY <1>1, <1>2 DEF AsFormat
<1>4. parts \in Seq(Plain) /\ Len(parts) = n /\ DOMAIN parts = 1..n
  <2>1. \A i \in 1..n : [kind |-> "char", c |-> line[i]] \in Plain
    BY <1>2 DEF Plain
  <2>2. parts \in [1..n -> Plain]
    BY <2>1
  <2> QED
    BY <2>2, SeqDef
<1>5. c.fmt = parts /\ c.args = <<>>
    OBVIOUS
<1>6. ASSUME NEW i \in 1..n
      PROVE  /\ ~Takes(parts[i]) /\ BareText(parts[i], <<>>) = <<line[i]>>
             /\ SubSeq(line, 1, i) \in Seq(Chars)
             /\ f[i] = f[i - 1] \o <<line[i]>>
  <2>1. parts[i].kind = "char" /\ parts[i].c = line[i]
    OBVIOUS
  <2>2. SubSeq(line, 1, i) = SubSeq(line, 1, i - 1) \o <<line[i]>>
    BY <1>1, SubSeqRecursiveSecond
  <2>3. \A j \in 1..i : line[j] \in Chars
    BY <1>2
  <2>4. SubSeq(line, 1, i) \in Seq(Chars) /\ SubSeq(line, 1, i - 1) \in Seq(Chars)
    BY <2>3, SubSeqProperties
  <2>5. PICK u \in Seq(Chars), v \in Seq(Chars) : u = SubSeq(line, 1, i - 1) /\ v = <<line[i]>>
    BY <1>2, <2>4, OneChar
  <2>6. (front \o u) \o v = front \o (u \o v)
    BY Regrouped
  <2>7. f[i] = front \o SubSeq(line, 1, i) /\ f[i - 1] = front \o SubSeq(line, 1, i - 1)
    BY i \in 0..n, i - 1 \in 0..n
  <2> HIDE DEF f, parts
  <2> QED
    BY <2>1, <2>2, <2>4, <2>5, <2>6, <2>7 DEF Takes, BareText
<1>7. f[0] = front
  <2>1. SubSeq(line, 1, 0) = <<>>
    BY SubSeqEmpty
  <2> QED
    BY <2>1, Joined, NoChar
<1>8. f \in [0..n -> Seq(Chars)]
  <2> SUFFICES ASSUME NEW i \in 0..n PROVE front \o SubSeq(line, 1, i) \in Seq(Chars)
    OBVIOUS
  <2>1. SubSeq(line, 1, i) \in Seq(Chars)
    <3>1. \A j \in 1..i : line[j] \in Chars
      BY <1>2
    <3> QED
      BY <3>1, SubSeqProperties
  <2> QED
    BY <2>1, Joined
<1>9. f[n] = front \o line
  <2>1. SubSeq(line, 1, n) = line
    BY <1>1, SubSeqFull
  <2>2. f[n] = front \o SubSeq(line, 1, n)
    BY n \in 0..n
  <2> HIDE DEF f
  <2> QED
    BY <2>1, <2>2
<1> HIDE DEF parts, f
<1>10. c.args \in Seq(Given)
    BY NoChar
<1> HIDE DEF c
<1>11. Pieces(c) = [i \in 1..n |-> <<line[i]>>]
    BY <1>4, <1>5, <1>6 DEF Pieces
<1>12. Len(Pieces(c)) = n
    BY <1>11
<1>13. Growing(f, f[0], Pieces(c))
  <2>1. \A i \in 1..n : Pieces(c)[i] = <<line[i]>>
    BY <1>11
  <2> QED
    BY <1>6, <1>8, <1>12, <2>1 DEF Growing
<1>14. Proper(c)
    BY <1>4, <1>5, <1>6, <1>10 DEF Proper, Matched
<1>15. buf' = Cut(f[0])
    BY <1>7, CutWhole
<1>16. fmt' = SubSeq(c.fmt, 0 + 1, Len(c.fmt))
    BY <1>3, <1>4, <1>5, SubSeqFull
<1>17. args' = SubSeq(c.args, ArgOf(c, 0) + 1, Len(c.args))
  <2>1. ArgOf(c, 0) = 0 /\ Len(c.args) = 0
    BY <1>5, NextArg
  <2>2. SubSeq(c.args, 0 + 1, 0) = <<>>
    BY SubSeqEmpty
  <2> QED
    BY <2>1, <2>2
<1>18. Printed(c, f, 0)'
    BY <1>4, <1>5, <1>9, <1>13, <1>14, <1>15, <1>16, <1>17 DEF Printed
<1> QED
    BY <1>18

\* A line, and its parts, are texts.
LEMMA ClampedText ==
    ASSUME NEW t \in Seq(Chars)
    PROVE  /\ Clamped(t) \in Seq(Chars) /\ Len(Clamped(t)) \in Nat /\ Len(Clamped(t)) <= Size - 2
           /\ Len(t) < Size - 1 => Clamped(t) = t
           /\ Len(t) >= Size - 1 => /\ Clamped(t) = SubSeq(t, 1, Size - 2)
                                    /\ Len(Clamped(t)) = Size - 2
<1>1. PICK z \in Nat, n \in Nat : z = Size /\ n = Len(t) /\ z >= 2
    BY SizeNat, LenProperties
<1>2. CASE n >= z - 1
  <2>1. \A i \in 1..(z - 2) : t[i] \in Chars
    BY <1>1, <1>2, ElementOfSeq
  <2>2. /\ SubSeq(t, 1, z - 2) \in Seq(Chars)
        /\ Len(SubSeq(t, 1, z - 2)) = IF 1 <= z - 2 THEN (z - 2) - 1 + 1 ELSE 0
    BY <1>1, <2>1, SubSeqProperties
  <2>3. Len(SubSeq(t, 1, z - 2)) = z - 2
    BY <1>1, <2>2
  <2> QED
    BY <1>1, <1>2, <2>2, <2>3 DEF Clamped
<1>3. CASE ~(n >= z - 1)
    BY <1>1, <1>3 DEF Clamped
<1> QED
    BY <1>2, <1>3

LEMMA ErrnoText == ASSUME NEW t \in Seq(Chars) PROVE zhy_log_errno(t) \in Seq(Chars)
BY LogAssumption, Texts, Joined DEF zhy_log_errno

LEMMA FormatParts ==
    ASSUME NEW line \in Seq(Chars)
    PROVE  AsFormat(line) \in Seq(Part)
<1>1. PICK n \in Nat : n = Len(line) /\ DOMAIN line = 1..n
    BY LenProperties
<1>2. \A i \in 1..n : line[i] \in Chars
    BY <1>1, ElementOfSeq
<1>3. ASSUME NEW i \in 1..n
      PROVE  (IF line[i] = "%" THEN [kind |-> "raw"] ELSE [kind |-> "char", c |-> line[i]]) \in Part
    BY <1>2 DEF Part, Plain
<1>4. AsFormat(line) \in [1..n -> Part]
    BY <1>1, <1>3 DEF AsFormat
<1> QED
    BY <1>4, SeqDef

-----------------------------------------------------------------------------
(* The steps keep the invariant.                                            *)

\* A turn with a part that is no '%' out of a text, and an argument of its kind.
LEMMA TurnKeeps ==
    ASSUME IInv, at = "format", fmt # <<>>, Head(fmt).kind \in Kinds,
           at' = "format", fmt' = Tail(fmt), UNCHANGED <<who, err, bare>>,
           \/ /\ Takes(Head(fmt)) /\ args # <<>> /\ Head(args).type = Head(fmt).kind
              /\ args' = Tail(args)
              /\ buf' = Cut(buf \o BareText(Head(fmt), Head(args)))
           \/ /\ ~Takes(Head(fmt)) /\ args' = args
              /\ buf' = Cut(buf \o BareText(Head(fmt), <<>>))
    PROVE  IInv'
<1>1. Head(fmt) \in Plain /\ Tail(fmt) \in Seq(Part)
  <2>1. Head(fmt) \in Part /\ Tail(fmt) \in Seq(Part)
    BY HeadTailProperties DEF IInv, Typed
  <2>2. ASSUME Head(fmt) \in [kind : {"raw"}] PROVE FALSE
    BY <2>2 DEF Kinds
  <2> QED
    BY <2>1, <2>2 DEF Part
<1>2. args' \in Seq(Given) /\ buf' \in Seq(Chars) /\ Len(buf') <= Size
  <2>1. CASE Takes(Head(fmt))
    <3>1. args # <<>> /\ Head(args).type = Head(fmt).kind /\ args' = Tail(args)
          /\ buf' = Cut(buf \o BareText(Head(fmt), Head(args)))
      BY <2>1
    <3>2. Head(args) \in Given /\ Tail(args) \in Seq(Given)
      BY <3>1, HeadTailProperties DEF IInv, Typed
    <3>3. BareText(Head(fmt), Head(args)) \in Seq(Chars)
      BY <1>1, <3>1, <3>2, PieceText
    <3>4. buf \o BareText(Head(fmt), Head(args)) \in Seq(Chars)
      BY <3>3, Joined DEF IInv, Typed
    <3> QED
      BY <3>1, <3>2, <3>4, CutText
  <2>2. CASE ~Takes(Head(fmt))
    <3>1. BareText(Head(fmt), <<>>) \in Seq(Chars)
      BY <1>1, <2>2, PieceText
    <3>2. buf \o BareText(Head(fmt), <<>>) \in Seq(Chars)
      BY <3>1, Joined DEF IInv, Typed
    <3> QED
      BY <2>2, <3>2, CutText DEF IInv, Typed
  <2> QED
    BY <2>1, <2>2
<1>3. Typed' /\ Bounded'
    BY <1>1, <1>2 DEF IInv, Typed, Bounded
<1>4. Exact'
  <2> SUFFICES ASSUME Known' PROVE \E c, f, k : Printed(c, f, k)'
    BY DEF Exact
  <2>1. Known
    BY DEF Known
  <2>2. PICK c, f, k : Printed(c, f, k)
    BY <2>1 DEF IInv, Exact
  <2>3. Printed(c, f, k + 1)'
    BY <2>2, TurnDone
  <2> QED
    BY <2>3
<1>5. BareFault'
    BY DEF BareFault
<1> QED
    BY <1>3, <1>4, <1>5 DEF IInv

\* While the text is known, the next part is none of a text, and its argument is there.
LEMMA KnownTurn ==
    ASSUME IInv, at = "format", fmt # <<>>, Known
    PROVE  /\ Head(fmt) \in Plain
           /\ Takes(Head(fmt)) => args # <<>> /\ Head(args).type = Head(fmt).kind
<1>1. PICK c, f, k : Printed(c, f, k)
    BY DEF IInv, Exact
<1> QED
    BY <1>1, NextTurn

\* At the start there is no text.
LEMMA InitIInv == Init => IInv
<1> SUFFICES ASSUME Init PROVE IInv
    OBVIOUS
<1>1. Typed
    BY NoChar DEF Init, Typed
<1>2. Bounded
    BY SizeNat, EmptySeq DEF Init, Bounded
<1>3. Exact /\ BareFault
    BY DEF Init, Exact, BareFault
<1> QED
    BY <1>1, <1>2, <1>3 DEF IInv

LEMMA PrintCharKeeps == ASSUME IInv, PrintChar PROVE IInv'
<1>1. /\ at = "format" /\ at' = "format" /\ fmt # <<>> /\ Len(buf) < Size
      /\ fmt' = Tail(fmt) /\ args' = args /\ UNCHANGED <<who, err, bare>>
    BY DEF PrintChar, Turn, Put, call, texts
<1>2. buf \in Seq(Chars) /\ Head(fmt) \in Part
    BY <1>1, HeadTailProperties DEF IInv, Typed
<1>3. CASE Turn("char") /\ Put(Append(buf, Head(fmt).c))
  <2>1. Head(fmt).kind = "char" /\ buf' = Append(buf, Head(fmt).c)
    BY <1>3 DEF Turn, Put
  <2>2. Head(fmt) \in Plain
    BY <1>2, <2>1 DEF Part
  <2>3. Head(fmt).c \in Chars
    BY <2>1, <2>2, PlainFields
  <2>4. buf' = Cut(buf \o <<Head(fmt).c>>)
    BY <1>1, <1>2, <2>1, <2>3, CharExact
  <2>5. BareText(Head(fmt), <<>>) = <<Head(fmt).c>> /\ ~Takes(Head(fmt))
        /\ Head(fmt).kind \in Kinds
    BY <2>1 DEF BareText, Takes, Kinds
  <2> QED
    BY <1>1, <2>4, <2>5, TurnKeeps
<1>4. CASE Turn("percent") /\ Put(Append(buf, "%"))
  <2>1. Head(fmt).kind = "percent" /\ buf' = Append(buf, "%")
    BY <1>4 DEF Turn, Put
  <2>2. buf' = Cut(buf \o <<"%">>)
    BY <1>1, <1>2, <2>1, Literals, CharExact
  <2>3. BareText(Head(fmt), <<>>) = <<"%">> /\ ~Takes(Head(fmt)) /\ Head(fmt).kind \in Kinds
    BY <2>1 DEF BareText, Takes, Kinds
  <2> QED
    BY <1>1, <2>2, <2>3, TurnKeeps
<1> QED
    BY <1>3, <1>4 DEF PrintChar

LEMMA PrintIntKeeps == ASSUME IInv, PrintInt PROVE IInv'
<1>1. /\ at = "format" /\ at' = "format" /\ fmt # <<>> /\ Len(buf) < Size
      /\ fmt' = Tail(fmt) /\ UNCHANGED <<who, err, bare>>
      /\ Head(fmt).kind = "int"
      /\ args # <<>> /\ args' = Tail(args) /\ Head(args).type = "int"
      /\ buf' = zhy_sprintf_num(buf, Digits(Head(args).ud, Head(fmt).base),
                                Fill(Head(fmt)), Head(fmt).width)
    BY DEF PrintInt, Turn, Put, Arg, call, texts
<1>2. /\ buf \in Seq(Chars) /\ Head(fmt) \in Part /\ Head(args) \in Given /\ Len(buf) \in Nat
    BY <1>1, HeadTailProperties, LenProperties DEF IInv, Typed
<1>3. Head(fmt) \in Plain
    BY <1>1, <1>2 DEF Part
<1>4. PICK w \in Nat, b \in {10, 16}, ud \in Nat, c \in Chars :
        w = Head(fmt).width /\ b = Head(fmt).base /\ ud = Head(args).ud /\ c = Fill(Head(fmt))
    BY <1>1, <1>2, <1>3, PlainFields, ArgumentFields, FillChar
<1>5. PICK g \in Seq(Chars) : g = Digits(ud, b)
    BY DigitsText
<1>6. Len(buf) <= Size
    BY <1>1, <1>2, SizeNat
<1>7. zhy_sprintf_num(buf, g, c, w) = Cut(buf \o RightAligned(g, w, c))
    BY <1>2, <1>6, NumberText
<1>8. /\ BareText(Head(fmt), Head(args)) = RightAligned(g, w, c)
      /\ Takes(Head(fmt)) /\ Head(fmt).kind \in Kinds
    BY <1>1, <1>4, <1>5 DEF BareText, Takes, Kinds
<1>9. buf' = Cut(buf \o BareText(Head(fmt), Head(args)))
    BY <1>1, <1>4, <1>5, <1>7, <1>8
<1> QED
    BY <1>1, <1>8, <1>9, TurnKeeps

LEMMA PrintStringKeeps == ASSUME IInv, PrintString PROVE IInv'
<1>1. /\ at = "format" /\ at' = "format" /\ fmt # <<>>
      /\ fmt' = Tail(fmt) /\ UNCHANGED <<who, err, bare>>
      /\ Head(fmt).kind = "str"
      /\ args # <<>> /\ args' = Tail(args) /\ Head(args).type = "str"
      /\ buf' = Cut(buf \o Head(args).text)
    BY DEF PrintString, Turn, Put, Arg, call, texts
<1>2. /\ BareText(Head(fmt), Head(args)) = Head(args).text
      /\ Takes(Head(fmt)) /\ Head(fmt).kind \in Kinds
    BY <1>1 DEF BareText, Takes, Kinds
<1> QED
    BY <1>1, <1>2, TurnKeeps

LEMMA PrintFloatKeeps == ASSUME IInv, PrintFloat PROVE IInv'
<1> DEFINE part == Head(fmt)
           f == Head(args)
           signed == IF f.neg THEN Append(buf, "-") ELSE buf
           whole == zhy_sprintf_num(signed, Digits(IntegerPart(part, f), 10),
                                    Fill(part), part.width)
<1>1. /\ at = "format" /\ fmt # <<>> /\ Len(buf) < Size /\ UNCHANGED <<who, err, bare>>
      /\ part.kind = "float"
      /\ args # <<>> /\ args' = Tail(args) /\ f.type = "float"
    BY DEF PrintFloat, Turn, Arg, call, texts
<1>2. /\ buf \in Seq(Chars) /\ part \in Part /\ f \in Given /\ Tail(args) \in Seq(Given)
      /\ fmt \in Seq(Part)
    BY <1>1, HeadTailProperties DEF IInv, Typed
<1>3. part \in Plain
    BY <1>1, <1>2 DEF Part
<1>4. PICK d \in Nat : d = part.decimals
    BY <1>1, <1>3, PlainFields
<1>5. /\ whole \in Seq(Chars) /\ Len(whole) <= Size
      /\ part.decimals = 0 => whole = Cut(buf \o BareText(part, f))
      /\ part.decimals # 0 /\ Len(whole) < Size =>
           zhy_sprintf_num(Append(whole, "."), Digits(Fraction(part, f), 10), "0", part.decimals)
               = Cut(buf \o BareText(part, f))
  <2> HIDE DEF part, f
  <2> QED
    BY <1>1, <1>2, <1>3, FloatExact
<1>6. Takes(part) /\ part.kind \in Kinds
    BY <1>1 DEF Takes, Kinds
<1>7. CASE part.decimals = 0 /\ Put(whole) /\ UNCHANGED at
  <2>1. buf' = Cut(buf \o BareText(part, f)) /\ fmt' = Tail(fmt) /\ at' = "format"
    BY <1>1, <1>5, <1>7 DEF Put
  <2> HIDE DEF whole
  <2> QED
    BY <1>1, <1>6, <2>1, TurnKeeps
<1>8. CASE /\ part.decimals # 0 /\ Len(whole) < Size
           /\ Put(zhy_sprintf_num(Append(whole, "."), Digits(Fraction(part, f), 10),
                                  "0", part.decimals))
           /\ UNCHANGED at
  <2>1. buf' = Cut(buf \o BareText(part, f)) /\ fmt' = Tail(fmt) /\ at' = "format"
    BY <1>1, <1>5, <1>8 DEF Put
  <2> HIDE DEF whole
  <2> QED
    BY <1>1, <1>6, <2>1, TurnKeeps
<1>9. CASE /\ part.decimals # 0 /\ ~(Len(whole) < Size)
           /\ buf' = Append(whole, ".") /\ at' = "overrun" /\ UNCHANGED fmt
  <2> HIDE DEF whole
  <2>1. buf' \in Seq(Chars) /\ Len(buf') = Len(whole) + 1
    BY <1>5, <1>9, Literals, AppendProperties
  <2>2. Len(whole) \in Nat
    BY <1>5, LenProperties
  <2>3. Len(buf') = Size + 1
    BY <1>5, <1>9, <2>1, <2>2, SizeNat
  <2>4. part.decimals > 0
    BY <1>4, <1>9
  <2>5. Bounded'
    BY <1>1, <1>9, <2>3, <2>4 DEF Bounded
  <2>6. Typed'
    BY <1>1, <1>2, <1>9, <2>1 DEF IInv, Typed
  <2>7. Exact' /\ BareFault'
    BY <1>9 DEF Exact, BareFault
  <2> QED
    BY <2>5, <2>6, <2>7 DEF IInv
<1>10. \/ part.decimals = 0 /\ Put(whole) /\ UNCHANGED at
       \/ /\ part.decimals # 0 /\ Len(whole) < Size
          /\ Put(zhy_sprintf_num(Append(whole, "."), Digits(Fraction(part, f), 10),
                                 "0", part.decimals))
          /\ UNCHANGED at
       \/ /\ part.decimals # 0 /\ ~(Len(whole) < Size)
          /\ buf' = Append(whole, ".") /\ at' = "overrun" /\ UNCHANGED fmt
    BY Zenon DEF PrintFloat
<1> QED
    BY <1>7, <1>8, <1>9, <1>10

\* %s faults only with an argument that is no text.
LEMMA WildStringKeeps == ASSUME IInv, WildString PROVE IInv'
<1>1. /\ at = "format" /\ fmt # <<>> /\ Len(buf) < Size
      /\ UNCHANGED <<who, err, bare, fmt, args, buf>>
      /\ at' = "fault" /\ Head(fmt).kind = "str" /\ Head(args).type # "str"
    BY DEF WildString, Turn, Arg, call, texts
<1>2. ~Known
    BY <1>1, KnownTurn DEF Takes
<1>3. BareFault' /\ Exact'
    BY <1>1, <1>2 DEF Known, BareFault, Exact
<1>4. Typed' /\ Bounded'
    BY <1>1 DEF IInv, Typed, Bounded
<1> QED
    BY <1>3, <1>4 DEF IInv

\* A '%' of a text comes up only where the text is not known.
LEMMA PrintRawKeeps == ASSUME IInv, PrintRaw PROVE IInv'
<1>1. /\ at = "format" /\ fmt # <<>> /\ Len(buf) < Size /\ Head(fmt).kind = "raw"
      /\ UNCHANGED <<who, err, bare, args>>
    BY DEF PrintRaw, Turn, call, texts
<1>2. ~Known
  <2>1. "raw" \notin Kinds
    BY DEF Kinds
  <2> QED
    BY <1>1, <2>1, KnownTurn, PlainFields
<1>3. buf \in Seq(Chars) /\ Len(buf) \in Nat /\ fmt \in Seq(Part) /\ Head(fmt) \in Part
      /\ Tail(fmt) \in Seq(Part)
    BY <1>1, HeadTailProperties, LenProperties DEF IInv, Typed
<1> DEFINE rest == Tail(fmt)
<1>4. ASSUME rest # <<>> PROVE Head(rest) \in Part /\ Tail(rest) \in Seq(Part)
    BY <1>3, <1>4, HeadTailProperties
<1>5. /\ fmt' \in Seq(Part) /\ buf' \in Seq(Chars) /\ Len(buf') <= Size
      /\ at' \in {"format", "fault"}
  <2>1. CASE rest = <<>> /\ Put(Append(buf, NUL)) /\ UNCHANGED at
    <3>1. buf' = Append(buf, NUL) /\ fmt' = Tail(fmt) /\ at' = "format"
      BY <1>1, <2>1 DEF Put
    <3> QED
      BY <1>1, <1>3, <3>1, Literals, CharExact
  <2>2. CASE /\ rest # <<>> /\ Head(rest).kind = "raw"
             /\ buf' = Append(buf, "%") /\ fmt' = Tail(rest) /\ UNCHANGED at
    BY <1>1, <1>3, <1>4, <2>2, Literals, CharExact
  <2>3. CASE /\ rest # <<>> /\ Head(rest).kind = "char" /\ Head(rest).c \in Skipped
             /\ fmt' = <<Head(fmt)>> \o Tail(rest) /\ UNCHANGED <<at, buf>>
    <3>1. <<Head(fmt)>> \in Seq(Part)
      BY <1>3, OneChar
    <3>2. fmt' \in Seq(Part)
      BY <1>4, <2>3, <3>1, ConcatProperties
    <3> QED
      BY <1>1, <1>3, <2>3, <3>2, SizeNat
  <2>4. CASE /\ rest # <<>> /\ Head(rest).kind = "char" /\ Head(rest).c \in Conversions
             /\ at' = "fault" /\ UNCHANGED <<buf, fmt>>
    BY <1>1, <1>3, <2>4, SizeNat
  <2>5. CASE /\ rest # <<>> /\ Head(rest).kind = "char"
             /\ Head(rest).c \notin Skipped \cup Conversions
             /\ buf' = Append(buf, Head(rest).c) /\ fmt' = Tail(rest) /\ UNCHANGED at
    <3>1. Head(rest) \in Plain
      BY <1>4, <2>5 DEF Part
    <3>2. Head(rest).c \in Chars
      BY <2>5, <3>1, PlainFields
    <3> QED
      BY <1>1, <1>3, <1>4, <2>5, <3>2, CharExact
  <2> QED
    BY <2>1, <2>2, <2>3, <2>4, <2>5 DEF PrintRaw
<1>6. Typed' /\ Bounded'
    BY <1>1, <1>5 DEF IInv, Typed, Bounded
<1>7. ~Known'
    BY <1>1, <1>2 DEF Known
<1>8. Exact' /\ BareFault'
    BY <1>7 DEF Exact, Known, BareFault
<1> QED
    BY <1>6, <1>8 DEF IInv

LEMMA Fronts ==
    /\ Prefix \in Seq(Chars) /\ Len(Prefix) <= Size
    /\ CorePrefix \in Seq(Chars) /\ Len(CorePrefix) <= Size
<1>1. /\ Prefix \in Seq(STRING) /\ CorePrefix \in Seq(STRING)
      /\ Len(Prefix) < Size - 1 /\ Len(CorePrefix) < Size - 1
    BY LogAssumption DEF Size
<1>2. Len(Prefix) \in Nat /\ Len(CorePrefix) \in Nat
    BY <1>1, LenProperties
<1>3. Len(Prefix) <= Size /\ Len(CorePrefix) <= Size
    BY <1>1, <1>2, SizeNat
<1> QED
    BY <1>1, <1>3, Texts

LEMMA CallTexts ==
    ASSUME NEW c \in Calls
    PROVE  c.fmt \in Seq(Plain) /\ c.args \in Seq(Given)
<1>1. c.fmt \in Seq(CallPart) /\ c.args \in Seq(Argument)
    BY LogAssumption
<1>2. CallPart \subseteq Plain
    BY Zenon DEF Plain
<1> QED
    BY <1>1, <1>2, ArgumentGiven, SeqMonotonic

LEMMA ReportTexts ==
    ASSUME NEW name \in BOOLEAN
    PROVE  InitReport(name).fmt \in Seq(Plain) /\ InitReport(name).args \in Seq(Given)
<1>1. [kind |-> "str"] \in Plain
    BY DEF Plain
<1>2. <<"a">> \in Seq(Chars)
    BY Literals, OneChar
<1>3. [type |-> "str", text |-> <<"a">>] \in Given /\ [type |-> "null"] \in Given
    BY <1>2 DEF Given
<1>4. (IF name THEN [type |-> "str", text |-> <<"a">>] ELSE [type |-> "null"]) \in Given
    BY <1>3
<1>5. /\ <<[kind |-> "str"]>> \in Seq(Plain)
      /\ <<IF name THEN [type |-> "str", text |-> <<"a">>] ELSE [type |-> "null"]>> \in Seq(Given)
    BY <1>1, <1>4, OneChar
<1> QED
    BY <1>5 DEF InitReport

LEMMA BeginKeeps ==
    ASSUME NEW c, c.fmt \in Seq(Plain), c.args \in Seq(Given),
           NEW function \in {"stderr", "core"}, NEW front \in Seq(Chars), Len(front) <= Size,
           Begin(function, front, c), err' \in BOOLEAN
    PROVE  IInv'
<1>1. Exact' /\ bare' \in Seq(Chars)
    BY BeginExact
<1>2. /\ at' = "format" /\ who' = function /\ fmt' = c.fmt /\ args' = c.args /\ buf' = front
    BY DEF Begin
<1>3. c.fmt \in Seq(Part)
    BY SeqMonotonic DEF Part
<1>4. Typed' /\ Bounded' /\ BareFault'
    BY <1>1, <1>2, <1>3 DEF Typed, Bounded, BareFault
<1> QED
    BY <1>1, <1>4 DEF IInv

LEMMA ReturnKeeps == ASSUME IInv, Return, UNCHANGED <<who, err>> PROVE IInv'
<1>1. at' = "done" /\ fmt' = <<>> /\ args' = <<>> /\ buf' = <<>> /\ bare' = bare
    BY DEF Return, texts
<1>2. Typed'
    BY <1>1, NoChar DEF IInv, Typed
<1>3. Bounded'
    BY <1>1, SizeNat, EmptySeq DEF Bounded
<1>4. Exact' /\ BareFault'
    BY <1>1 DEF Exact, BareFault
<1> QED
    BY <1>2, <1>3, <1>4 DEF IInv

LEMMA EndStderrKeeps == ASSUME IInv, EndStderr PROVE IInv'
<1> DEFINE line == Clamped(zhy_log_errno(buf))
<1>1. line \in Seq(Chars)
    BY ErrnoText, ClampedText DEF IInv, Typed
<1>2. CASE fd > 2
  <2> HIDE DEF line
  <2>1. /\ who' = "core" /\ at' = "format" /\ err' = FALSE
        /\ fmt' = AsFormat(line) /\ args' = <<>> /\ buf' = CorePrefix
        /\ bare' = CorePrefix \o line
    BY <1>2 DEF EndStderr, line
  <2>2. bare' \in Seq(Chars)
    BY <1>1, <2>1, Fronts, Joined
  <2>3. Typed' /\ Bounded' /\ BareFault'
    BY <1>1, <2>1, <2>2, Fronts, FormatParts, NoChar DEF Typed, Bounded, BareFault
  <2>4. ASSUME Known' PROVE \E c, f, k : Printed(c, f, k)'
    <3>1. "%" \notin ToSet(bare')
      BY <2>1, <2>4 DEF Known
    <3>2. "%" \notin ToSet(line)
      <4> SUFFICES ASSUME "%" \in ToSet(line) PROVE FALSE
        OBVIOUS
      <4>1. PICK i \in 1..Len(line) : line[i] = "%"
        BY <1>1, LenProperties DEF ToSet
      <4>2. PICK m \in Nat, n \in Nat : m = Len(CorePrefix) /\ n = Len(line)
        BY <1>1, Fronts, LenProperties
      <4>3. /\ Len(bare') = m + n /\ DOMAIN bare' = 1..(m + n)
            /\ \A j \in 1..(m + n) : bare'[j] = IF j <= m THEN CorePrefix[j] ELSE line[j - m]
        <5>1. /\ Len(CorePrefix \o line) = m + n
              /\ \A j \in 1..(m + n) :
                   (CorePrefix \o line)[j] = IF j <= m THEN CorePrefix[j] ELSE line[j - m]
          BY <1>1, <4>2, Fronts, ConcatProperties
        <5>2. DOMAIN bare' = 1..Len(bare')
          BY <2>2, LenProperties
        <5> QED
          BY <2>1, <5>1, <5>2
      <4>4. m + i \in 1..(m + n) /\ ~(m + i <= m) /\ (m + i) - m = i
        BY <4>2
      <4>5. bare'[m + i] = "%"
        BY <4>1, <4>3, <4>4
      <4> QED
        BY <3>1, <4>3, <4>4, <4>5 DEF ToSet
    <3> QED
      BY <1>1, <2>1, <3>2, Fronts, LinePrinted
  <2> QED
    BY <2>3, <2>4 DEF IInv, Exact
<1>3. CASE ~(fd > 2)
  <2>1. Return
    BY <1>3 DEF EndStderr
  <2>2. UNCHANGED <<who, err>>
    BY <2>1 DEF Return, call
  <2> QED
    BY <2>1, <2>2, ReturnKeeps
<1> QED
    BY <1>2, <1>3

\* Every step of the printing, of the two functions and of their callers keeps the invariant.
LEMMA StepIInv == IInv /\ [Next]_vars => IInv'
<1> SUFFICES ASSUME IInv, [Next]_vars PROVE IInv'
    OBVIOUS
<1>1. CASE zhy_vslprintf
    BY <1>1, PrintCharKeeps, PrintIntKeeps, PrintStringKeeps, PrintFloatKeeps, WildStringKeeps,
       PrintRawKeeps DEF zhy_vslprintf
<1>2. CASE EndStderr
    BY <1>2, EndStderrKeeps
<1>3. CASE EndCore
    BY <1>3, ReturnKeeps DEF EndCore, Return, call
<1>4. CASE Continue
  <2>1. Typed'
    BY <1>4, NoChar DEF Continue, IInv, Typed
  <2>2. Bounded'
    BY <1>4 DEF Continue, IInv, Bounded
  <2>3. Exact' /\ BareFault'
    BY <1>4 DEF Continue, Exact, BareFault
  <2> QED
    BY <2>1, <2>2, <2>3 DEF IInv
<1>5. ASSUME NEW c \in Calls, zhy_log_stderr(c) PROVE IInv'
    BY <1>5, CallTexts, Fronts, BeginKeeps DEF zhy_log_stderr
<1>6. ASSUME NEW c \in Calls, zhy_log_error_core(c) PROVE IInv'
    BY <1>6, CallTexts, Fronts, BeginKeeps DEF zhy_log_error_core
<1>7. ASSUME NEW name \in BOOLEAN, zhy_log_init(name) PROVE IInv'
  <2>1. CASE UNCHANGED <<at, call, fmt, args, buf, lines, texts>>
    <3>1. UNCHANGED <<at, who, err, fmt, args, buf, bare>>
      BY <2>1 DEF call, texts
    <3> QED
      BY <3>1 DEF IInv, Typed, Bounded, Exact, Known, Printed, BareFault
  <2>2. CASE Begin("stderr", Prefix, InitReport(name)) /\ err' = TRUE
    BY <2>2, ReportTexts, Fronts, BeginKeeps
  <2> QED
    BY <1>7, <2>1, <2>2 DEF zhy_log_init
<1>8. CASE UNCHANGED vars
  <2>1. UNCHANGED <<at, who, err, fmt, args, buf, bare>>
    BY <1>8 DEF vars, call, texts
  <2> QED
    BY <2>1 DEF IInv, Typed, Bounded, Exact, Known, Printed, BareFault
<1> QED
    BY <1>1, <1>2, <1>3, <1>4, <1>5, <1>6, <1>7, <1>8 DEF Next

LEMMA Invariant == Spec => []IInv
BY InitIInv, StepIInv, PTL DEF Spec

LEMMA InitSigns == Init => Signs
BY DEF Init, Signs

LEMMA StepSigns == Signs /\ [Next]_vars => Signs'
<1> SUFFICES ASSUME Signs, [Next]_vars PROVE Signs'
    OBVIOUS
<1>1. CASE UNCHANGED texts
    BY <1>1 DEF texts, Signs
<1>2. CASE zhy_vslprintf
    BY <1>1, <1>2 DEF zhy_vslprintf, PrintChar, PrintInt, PrintString, PrintFloat, WildString,
       PrintRaw
<1>3. CASE EndStderr
    BY <1>1, <1>3 DEF EndStderr, Return, texts, Signs
<1>4. CASE EndCore
    BY <1>1, <1>4 DEF EndCore, Return
<1>5. CASE Continue
    BY <1>5 DEF Continue, Signs
<1>6. ASSUME NEW c \in Calls, zhy_log_stderr(c) \/ zhy_log_error_core(c) PROVE Signs'
    BY <1>6, CallTexts, BeginSigns DEF zhy_log_stderr, zhy_log_error_core
<1>7. ASSUME NEW name \in BOOLEAN, zhy_log_init(name) PROVE Signs'
    BY <1>1, <1>7, ReportTexts, BeginSigns DEF zhy_log_init
<1>8. CASE UNCHANGED vars
    BY <1>1, <1>8 DEF vars
<1> QED
    BY <1>2, <1>3, <1>4, <1>5, <1>6, <1>7, <1>8 DEF Next

LEMMA SignsKept == Spec => []Signs
BY InitSigns, StepSigns, PTL DEF Spec

\* So what is made of a call is the text without signs, whether an integer is negative or not.
LEMMA MadeBare == ASSUME Signs PROVE Made = bare
BY DEF Signs, Made

-----------------------------------------------------------------------------
(* What a reader should know.                                               *)

\* The printing writes behind last in one case only: one character, the point of a float
\* with decimals, whose integer part has just reached last.
THEOREM OnlyThePoint == Spec => []PastLastByPoint
<1>1. IInv => PastLastByPoint
  <2> SUFFICES ASSUME IInv PROVE PastLastByPoint
    OBVIOUS
  <2>1. Len(buf) \in Nat /\ Size \in Nat
    BY SizeNat, LenProperties DEF IInv, Typed
  <2> QED
    BY <2>1 DEF IInv, Bounded, PastLastByPoint
<1> QED
    BY <1>1, Invariant, PTL

\* No format with the arguments that it asks for, and no text without a '%', faults.
THEOREM FaultsByArgument == Spec => []FaultByArgument
<1>1. IInv /\ Signs => FaultByArgument
    BY DEF IInv, BareFault, Signs, Made, FaultByArgument
<1> QED
    BY <1>1, Invariant, SignsKept, PTL

\* When the printing ends, the buffer is the text of the call up to last.
LEMMA BufferExact == ASSUME IInv, Formatted, Known PROVE buf = Cut(bare)
<1>1. PICK c, f, k : Printed(c, f, k)
    BY DEF IInv, Exact, Formatted
<1>2. /\ Proper(c) /\ k \in 0..Len(c.fmt) /\ Growing(f, f[0], Pieces(c))
      /\ bare = f[Len(c.fmt)] /\ buf = Cut(f[k])
      /\ fmt = SubSeq(c.fmt, k + 1, Len(c.fmt))
    BY <1>1 DEF Printed
<1>3. Pieces(c) \in Seq(Seq(Chars)) /\ Len(Pieces(c)) = Len(c.fmt) /\ Len(c.fmt) \in Nat
    BY <1>2, PiecesText
<1>4. CASE fmt = <<>>
  <2>1. PICK n \in Nat : n = Len(c.fmt)
    BY <1>3
  <2>2. \A i \in (k + 1)..n : c.fmt[i] \in Plain
    BY <1>2, <2>1, ElementOfSeq DEF Proper
  <2>3. Len(SubSeq(c.fmt, k + 1, n)) = IF k + 1 <= n THEN n - (k + 1) + 1 ELSE 0
    BY <1>2, <2>2, SubSeqProperties
  <2>4. Len(SubSeq(c.fmt, k + 1, n)) = 0
    BY <1>2, <1>4, <2>1, EmptySeq
  <2>5. k = n
    BY <1>2, <2>1, <2>3, <2>4
  <2> QED
    BY <1>2, <2>1, <2>5
<1>5. CASE Len(buf) >= Size
  <2>1. f[k] \in Seq(Chars)
    BY <1>2, <1>3 DEF Growing
  <2>2. Len(Cut(f[k])) = Least(Len(f[k]), Size) /\ Len(f[k]) \in Nat
    BY <2>1, CutShape, LenProperties
  <2>3. Len(f[k]) >= Size
    BY <1>2, <1>5, <2>2, SizeNat, LeastOf
  <2>4. Cut(f[Len(Pieces(c))]) = Cut(f[k])
    BY <1>2, <1>3, <2>3, GrowsCut
  <2> QED
    BY <1>2, <1>3, <2>4
<1> QED
    BY <1>4, <1>5 DEF Formatted

\* The turns of the loop leave in the buffer the text that the parts stand for, up to last,
\* however the widths, the fills and the cuts fall: with the sign of every float, and without
\* that of a negative integer.
THEOREM TextsExact == Spec => []TextExact
<1>1. IInv /\ Signs => TextExact
    BY BufferExact, MadeBare DEF TextExact, Known
<1> QED
    BY <1>1, Invariant, SignsKept, PTL

\* A step that writes a line writes the clamped text, with its errno, and a newline.
LEMMA LineOut ==
    ASSUME Next, Formatted, lines' # lines
    PROVE  (IF shown' # shown THEN shown' ELSE logged')
               = Append(Clamped(zhy_log_errno(buf)), NL)
<1>1. CASE zhy_vslprintf
    BY <1>1 DEF zhy_vslprintf, PrintChar, PrintInt, PrintString, PrintFloat, WildString, PrintRaw
<1>2. CASE EndStderr
    BY <1>2 DEF EndStderr, lines
<1>3. CASE EndCore
    BY <1>3 DEF EndCore, lines
<1>4. at = "format"
    BY DEF Formatted
<1> QED
    BY <1>1, <1>2, <1>3, <1>4 DEF Next, Continue, zhy_log_stderr, zhy_log_error_core, zhy_log_init

\* What the clamped text of a known call is.
LEMMA LineText ==
    ASSUME IInv, Formatted, Known, NEW line, line = Clamped(zhy_log_errno(buf))
    PROVE  \/ IsPrefix(line, bare) /\ (line = bare \/ Len(line) = Size - 2)
           \/ err /\ line \in {bare \o ErrText, bare \o Front(ErrText)}
<1>1. buf = Cut(bare)
    BY BufferExact
<1>2. bare \in Seq(Chars) /\ buf \in Seq(Chars) /\ ErrText \in Seq(Chars)
    BY LogAssumption, Texts DEF IInv, Typed
<1>3. PICK z \in Nat, n \in Nat, b \in Nat, e \in Nat :
        z = Size /\ n = Len(bare) /\ b = Len(buf) /\ e = Len(ErrText) /\ z >= 2
    BY <1>2, SizeNat, LenProperties
<1>4. b = (IF n < z THEN n ELSE z) /\ \A i \in 1..b : buf[i] = bare[i]
    BY <1>1, <1>2, <1>3, CutShape DEF Least
<1>5. ASSUME zhy_log_errno(buf) = buf
      PROVE  IsPrefix(line, bare) /\ (line = bare \/ Len(line) = Size - 2)
  <2>1. CASE b < z - 1
    <3>1. line = buf
      BY <1>2, <1>3, <1>5, <2>1, ClampedText
    <3>2. n < z
      BY <1>3, <1>4, <2>1
    <3>3. buf = bare
      BY <1>1, <1>2, <1>3, <3>2, CutWhole
    <3> QED
      BY <1>3, <3>1, <3>3 DEF IsPrefix
  <2>2. CASE ~(b < z - 1)
    <3>1. line = SubSeq(buf, 1, z - 2) /\ Len(line) = z - 2
      <4>1. line = Clamped(buf)
        BY <1>5
      <4>2. Len(buf) >= Size - 1
        BY <1>3, <2>2
      <4>3. Clamped(buf) = SubSeq(buf, 1, Size - 2) /\ Len(Clamped(buf)) = Size - 2
        BY <1>2, <4>2, ClampedText
      <4> QED
        BY <1>3, <4>1, <4>3
    <3>2. z - 2 <= b /\ z - 2 <= n
      BY <1>3, <1>4, <2>2
    <3>3. SubSeq(buf, 1, z - 2) = SubSeq(bare, 1, z - 2)
      <4>1. PICK m \in Nat : m = z - 2
        BY <1>3
      <4>2. /\ \A i \in 1..m : buf[i] \in Chars
            /\ \A i \in 1..m : bare[i] \in Chars
            /\ \A i \in 1..m : buf[i] = bare[i]
        BY <1>2, <1>3, <1>4, <3>2, <4>1, ElementOfSeq
      <4>3. /\ SubSeq(buf, 1, m) \in Seq(Chars)
            /\ Len(SubSeq(buf, 1, m)) = IF 1 <= m THEN m - 1 + 1 ELSE 0
            /\ \A i \in 1..(m - 1 + 1) : SubSeq(buf, 1, m)[i] = buf[1 + i - 1]
        BY <4>2, SubSeqProperties
      <4>4. /\ SubSeq(bare, 1, m) \in Seq(Chars)
            /\ Len(SubSeq(bare, 1, m)) = IF 1 <= m THEN m - 1 + 1 ELSE 0
            /\ \A i \in 1..(m - 1 + 1) : SubSeq(bare, 1, m)[i] = bare[1 + i - 1]
        BY <4>2, SubSeqProperties
      <4>5. Len(SubSeq(buf, 1, m)) = m /\ Len(SubSeq(bare, 1, m)) = m
        BY <4>3, <4>4
      <4>6. \A i \in 1..m : SubSeq(buf, 1, m)[i] = SubSeq(bare, 1, m)[i]
        BY <4>2, <4>3, <4>4
      <4>7. SubSeq(buf, 1, m) = SubSeq(bare, 1, m)
        BY <4>3, <4>4, <4>5, <4>6, SeqEqual
      <4> QED
        BY <4>1, <4>7
    <3>4. SubSeq(line, 1, Len(line)) = line
      <4>1. line \in Seq(Chars)
        BY <1>2, <1>5, ClampedText
      <4> QED
        BY <4>1, SubSeqFull
    <3> QED
      BY <1>3, <3>1, <3>2, <3>3, <3>4 DEF IsPrefix
  <2> QED
    BY <2>1, <2>2
<1>6. ASSUME zhy_log_errno(buf) # buf
      PROVE  \/ IsPrefix(line, bare) /\ (line = bare \/ Len(line) = Size - 2)
             \/ err /\ line \in {bare \o ErrText, bare \o Front(ErrText)}
  <2>1. err /\ b + e < z /\ zhy_log_errno(buf) = buf \o ErrText
    BY <1>3, <1>6 DEF zhy_log_errno
  <2>2. n < z /\ b = n
    BY <1>3, <1>4, <2>1
  <2>3. buf = bare
    BY <1>1, <1>2, <1>3, <2>2, CutWhole
  <2>4. PICK t \in Seq(Chars) : t = bare \o ErrText
    BY <1>2, Joined
  <2>5. Len(t) = n + e
    BY <1>2, <1>3, <2>4, ConcatProperties
  <2>6. CASE n + e < z - 1
    BY <1>3, <2>1, <2>3, <2>4, <2>5, <2>6, ClampedText
  <2>7. CASE ~(n + e < z - 1)
    <3>1. n + e = z - 1
      BY <2>1, <2>2, <2>7
    <3>2. line = SubSeq(t, 1, z - 2)
      <4>1. line = Clamped(t)
        BY <2>1, <2>3, <2>4
      <4>2. Len(t) >= Size - 1
        BY <1>3, <2>5, <3>1
      <4>3. Clamped(t) = SubSeq(t, 1, Size - 2)
        BY <4>2, ClampedText
      <4> QED
        BY <1>3, <4>1, <4>3
    <3>3. e # 0
      <4> SUFFICES ASSUME e = 0 PROVE FALSE
        OBVIOUS
      <4>1. ErrText = <<>>
        BY <1>2, <1>3, EmptySeq
      <4>2. buf \o ErrText = buf
        BY <1>2, <4>1, Joined
      <4> QED
        BY <1>6, <2>1, <4>2
    <3>4. SubSeq(t, 1, z - 2) = bare \o SubSeq(ErrText, 1, e - 1)
      <4>1. PICK m \in Nat, d \in Nat : m = z - 2 /\ d = e - 1 /\ m = n + d
        <5>1. z - 2 \in Nat /\ e - 1 \in Nat /\ z - 2 = n + (e - 1)
          BY <1>3, <3>1, <3>3
        <5> QED
          BY <5>1
      <4>2. /\ Len(t) = n + e
            /\ \A i \in 1..(n + e) : t[i] = IF i <= n THEN bare[i] ELSE ErrText[i - n]
        BY <1>2, <1>3, <2>4, ConcatProperties
      <4>3. \A i \in 1..m : t[i] \in Chars
        BY <2>5, <4>1, ElementOfSeq
      <4>4. /\ SubSeq(t, 1, m) \in Seq(Chars)
            /\ Len(SubSeq(t, 1, m)) = IF 1 <= m THEN m - 1 + 1 ELSE 0
            /\ \A i \in 1..(m - 1 + 1) : SubSeq(t, 1, m)[i] = t[1 + i - 1]
        BY <4>3, SubSeqProperties
      <4>5. \A i \in 1..d : ErrText[i] \in Chars
        BY <1>2, <1>3, <4>1, ElementOfSeq
      <4>6. /\ SubSeq(ErrText, 1, d) \in Seq(Chars)
            /\ Len(SubSeq(ErrText, 1, d)) = IF 1 <= d THEN d - 1 + 1 ELSE 0
            /\ \A i \in 1..(d - 1 + 1) : SubSeq(ErrText, 1, d)[i] = ErrText[1 + i - 1]
        BY <4>5, SubSeqProperties
      <4>7. PICK u \in Seq(Chars) : u = SubSeq(ErrText, 1, d)
        BY <4>6
      <4>8. Len(u) = d /\ \A i \in 1..d : u[i] = ErrText[i]
        BY <4>6, <4>7
      <4>9. PICK r \in Seq(Chars) : r = bare \o u
        BY <1>2, Joined
      <4>10. /\ Len(r) = n + d
             /\ \A i \in 1..(n + d) : r[i] = IF i <= n THEN bare[i] ELSE u[i - n]
        BY <1>2, <1>3, <4>8, <4>9, ConcatProperties
      <4>11. PICK s \in Seq(Chars) : s = SubSeq(t, 1, m)
        BY <4>4
      <4>12. Len(s) = m /\ \A i \in 1..m : s[i] = t[i]
        BY <4>4, <4>11
      <4>13. ASSUME NEW i \in 1..m PROVE s[i] = r[i]
        <5>1. i \in 1..(n + e) /\ i \in 1..(n + d) /\ (~(i <= n) => i - n \in 1..d)
          BY <4>1
        <5>2. s[i] = IF i <= n THEN bare[i] ELSE ErrText[i - n]
          BY <4>2, <4>12, <5>1
        <5>3. r[i] = IF i <= n THEN bare[i] ELSE u[i - n]
          BY <4>10, <5>1
        <5> QED
          BY <4>8, <5>1, <5>2, <5>3
      <4>14. s = r
        BY <4>1, <4>10, <4>12, <4>13, SeqEqual
      <4> QED
        BY <4>1, <4>7, <4>9, <4>11, <4>14
    <3> QED
      BY <1>3, <2>1, <3>2, <3>4 DEF Front
  <2> QED
    BY <2>6, <2>7
<1> QED
    BY <1>5, <1>6

\* A line that is written ends with its only newline before last; its text is the text of the
\* call, cut only for bare of room, or with the errno whole but for the closing blank.
THEOREM LinesWhole == Spec => LineWhole
<1>1. ASSUME IInv, Signs, [Next]_vars
      PROVE  [(/\ Formatted /\ lines' # lines
               /\ Made # <<>> /\ (who = "core" => "%" \notin ToSet(Made)))
              => LET out == IF shown' # shown THEN shown' ELSE logged'
                     line == Front(out) IN
                 /\ out[Len(out)] = NL /\ Len(out) < Size
                 /\ \/ IsPrefix(line, Made) /\ (line = Made \/ Len(line) = Size - 2)
                    \/ err /\ line \in {Made \o ErrText, Made \o Front(ErrText)}]_vars
  <2> DEFINE out == IF shown' # shown THEN shown' ELSE logged'
             line == Clamped(zhy_log_errno(buf))
  <2> SUFFICES ASSUME Formatted, lines' # lines, Known
               PROVE  /\ out[Len(out)] = NL /\ Len(out) < Size
                      /\ \/ /\ IsPrefix(Front(out), bare)
                            /\ (Front(out) = bare \/ Len(Front(out)) = Size - 2)
                         \/ err /\ Front(out) \in {bare \o ErrText, bare \o Front(ErrText)}
    BY <1>1, MadeBare DEF Known
  <2>1. Next
    BY <1>1 DEF vars, lines
  <2>2. out = Append(line, NL)
    BY <2>1, LineOut
  <2>3. line \in Seq(Chars) /\ Len(line) \in Nat /\ Len(line) <= Size - 2
    BY <1>1, ErrnoText, ClampedText DEF IInv, Typed
  <2>4. \/ IsPrefix(line, bare) /\ (line = bare \/ Len(line) = Size - 2)
        \/ err /\ line \in {bare \o ErrText, bare \o Front(ErrText)}
    BY <1>1, LineText
  <2> HIDE DEF out, line
  <2>5. /\ out \in Seq(Chars) /\ Len(out) = Len(line) + 1
        /\ out[Len(line) + 1] = NL /\ \A i \in 1..Len(line) : out[i] = line[i]
    <3>1. PICK x \in Chars : x = NL
      BY Literals
    <3>2. out = Append(line, x) /\ line \in Seq(Chars)
      BY <2>2, <2>3, <3>1
    <3> QED
      BY <3>1, <3>2, AppendProperties
  <2>6. out[Len(out)] = NL /\ Len(out) < Size
    BY <2>3, <2>5, SizeNat
  <2>7. Front(out) = line
    <3>1. PICK n \in Nat : n = Len(line) /\ Len(out) - 1 = n
      BY <2>3, <2>5
    <3>2. \A i \in 1..n : out[i] \in Chars
      BY <2>3, <2>5, <3>1, ElementOfSeq
    <3>3. /\ SubSeq(out, 1, n) \in Seq(Chars)
          /\ Len(SubSeq(out, 1, n)) = IF 1 <= n THEN n - 1 + 1 ELSE 0
          /\ \A i \in 1..(n - 1 + 1) : SubSeq(out, 1, n)[i] = out[1 + i - 1]
      BY <3>2, SubSeqProperties
    <3>4. Len(SubSeq(out, 1, n)) = n /\ \A i \in 1..n : SubSeq(out, 1, n)[i] = line[i]
      BY <2>5, <3>1, <3>3
    <3>5. SubSeq(out, 1, n) = line
      BY <2>3, <3>1, <3>3, <3>4, SeqEqual
    <3> QED
      BY <3>1, <3>5 DEF Front
  <2> QED
    BY <2>4, <2>6, <2>7
<1> QED
    BY <1>1, Invariant, SignsKept, PTL DEF Spec, LineWhole
=============================================================================
