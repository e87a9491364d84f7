-------------------------- MODULE LogicSocketProofs --------------------------
(***************************************************************************)
(* What threadRecvProcFunc drops and what it hands on, whatever the bodies, *)
(* the codes and the errors on the way are, and however often the           *)
(* connection is given up meanwhile; and what the sum can tell apart.       *)
(***************************************************************************)
EXTENDS LogicSocket, TLAPS, WellFoundedInduction

\* The number of the connection only grows, the packet carries an earlier or equal one, and
\* up to the comparison the two differ when the connection has been given up, and only then.
Stamped ==
    /\ iCurrsequence \in Nat
    /\ pkg.isCurrsequence \in Nat
    /\ pkg.isCurrsequence <= iCurrsequence
    /\ at \in {"posted", "verified"} => (stale <=> iCurrsequence # pkg.isCurrsequence)
    /\ at = "current" => ~stale
    /\ stale \in BOOLEAN /\ sent \in Seq(Byte)

IInv == Stamped /\ SoundHandledUnlessStale

\* The entries of statusHandler for the codes a client may use.
LEMMA HandlersPresent ==
    \A code \in {0, 5, 6} : code \in DOMAIN statusHandler /\ statusHandler[code] # NULL
BY LogicAssumption DEF statusHandler

\* No packet is dropped at the start.
LEMMA InitIInv == Init => IInv
<1> SUFFICES ASSUME Init PROVE IInv
    OBVIOUS
<1>1. sent \in Seq(Byte)
    BY LogicAssumption DEF Init
<1>2. /\ iCurrsequence = 1 /\ pkg.isCurrsequence = 1 /\ at = "posted" /\ stale = FALSE
    BY DEF Init, Packet
<1>3. stale \in BOOLEAN /\ ~stale
    BY <1>2
<1>4. /\ iCurrsequence \in Nat /\ pkg.isCurrsequence \in Nat /\ at = "posted"
      /\ pkg.isCurrsequence <= iCurrsequence /\ pkg.isCurrsequence = iCurrsequence
    BY <1>2
<1>5. Stamped
    <2>1. at # "current"
        BY <1>4
    <2> QED
        BY <1>1, <1>3, <1>4, <2>1, Zenon DEF Stamped
<1>6. SoundHandledUnlessStale
    BY <1>4 DEF SoundHandledUnlessStale
<1> QED
    BY <1>5, <1>6 DEF IInv

\* Every check, and the giving up of the connection between two of them, keeps the invariant.
LEMMA StepIInv == IInv /\ [Next]_vars => IInv'
<1> SUFFICES ASSUME IInv, [Next]_vars PROVE IInv'
    OBVIOUS
<1> USE DEF IInv, Stamped, SoundHandledUnlessStale, Sound
<1>1. CASE Verify
    <2>1. ASSUME pkgLen = m_iLenMsgHeader, pkg.body = sent PROVE Len(sent) = 8
        <3>1. PICK n \in Nat : n = Len(sent)
            OBVIOUS
        <3>2. 8 + n = 16
            BY <2>1, <3>1 DEF pkgLen, m_iLenMsgHeader, m_iLenPkgHeader
        <3> QED
            BY <3>1, <3>2
    <2> QED
        BY <1>1, <2>1 DEF Verify
<1>2. CASE CheckSequence
    BY <1>2 DEF CheckSequence
<1>3. CASE Dispatch
    BY <1>3, HandlersPresent DEF Dispatch
<1>4. CASE GiveUp
    <2>1. /\ iCurrsequence' = iCurrsequence + 1 /\ UNCHANGED <<at, sent, pkg>>
          /\ stale' = (stale \/ at \in {"posted", "verified"})
        BY <1>4 DEF GiveUp
    <2>2. /\ iCurrsequence' \in Nat /\ pkg.isCurrsequence <= iCurrsequence'
          /\ iCurrsequence' # pkg.isCurrsequence
        BY <2>1
    <2>3. CASE at \in {"posted", "verified"}
        <3>1. stale' = TRUE
            BY <2>1, <2>3
        <3> QED
            BY <2>1, <2>2, <2>3, <3>1
    <2>4. CASE at \notin {"posted", "verified"}
        <3>1. stale' = stale
            BY <2>1, <2>4
        <3> QED
            BY <2>1, <2>2, <2>4, <3>1
    <2> QED
        BY <2>3, <2>4
<1>5. CASE UNCHANGED vars
    BY <1>5 DEF vars
<1> QED
    BY <1>1, <1>2, <1>3, <1>4, <1>5 DEF Next, threadRecvProcFunc

\* For every set of bodies, of whatever lengths, of codes and of errors: a packet received as
\* it was sent, with its right sum and a code that has a handler, is dropped when its
\* connection was given up before the numbers were compared, or when it has 8 bytes and a sum
\* that is not zero, and for nothing else; and no packet of a connection given up before that
\* comparison reaches a handler.
THEOREM SoundPackets == Spec => []SoundHandledUnlessStale
<1>1. IInv => SoundHandledUnlessStale
    BY DEF IInv
<1> QED
    BY <1>1, InitIInv, StepIInv, PTL DEF Spec

-----------------------------------------------------------------------------
(* Recursive functions.  The provers know them as a CHOOSE: that there is   *)
(* something to choose, and what it computes for every argument, is proved  *)
(* by induction, which is stated here of a set of numbers.                  *)

\* A set of numbers that has 0, and the successor of each of its members, has them all.
LEMMA SetInduction ==
    ASSUME NEW S \in SUBSET Nat, 0 \in S, \A n \in S : n + 1 \in S
    PROVE  \A n \in Nat : n \in S
<1> DEFINE R == OpToRel(<, Nat)
<1>1. IsWellFoundedOn(R, Nat)
    BY NatLessThanWellFounded, Zenon
<1>2. ASSUME NEW T \in SUBSET Nat, T # {}
      PROVE  \E x \in T : \A y \in T : ~(<<y, x>> \in R)
    <2> HIDE DEF R
    <2> QED
        BY <1>1, <1>2, WFMin
<1>3. \A x, y \in Nat : y < x => <<y, x>> \in R
    BY DEF OpToRel
<1> HIDE DEF R
<1>4. ASSUME Nat \ S # {} PROVE FALSE
    <2>1. PICK x \in Nat \ S : \A y \in Nat \ S : ~(<<y, x>> \in R)
        BY <1>2, <1>4
    <2>2. x # 0 /\ x - 1 \in Nat /\ x - 1 < x
        BY <2>1
    <2>3. x - 1 \in S
        BY <1>3, <2>1, <2>2
    <2> QED
        BY <2>1, <2>2, <2>3
<1> QED
    BY <1>4

\* What holds at first and is kept by each of n steps holds after each of them.
LEMMA StepInduction ==
    ASSUME NEW n \in Nat, NEW S \in SUBSET (0..n), 0 \in S, \A k \in S : k < n => k + 1 \in S
    PROVE  \A k \in 0..n : k \in S
<1> DEFINE T == {k \in Nat : k <= n => k \in S}
<1>1. T \in SUBSET Nat /\ 0 \in T
    OBVIOUS
<1>2. ASSUME NEW k \in T PROVE k + 1 \in T
    OBVIOUS
<1> HIDE DEF T
<1>3. \A k \in Nat : k \in T
    BY <1>1, <1>2, SetInduction
<1> QED
    BY <1>3 DEF T

\* A step can be repeated as often as there are arguments for it.
Repeats(f, W, first, n, step) ==
    /\ f \in [0..n -> W]
    /\ f[0] = first /\ \A i \in 1..n : f[i] = step[i][f[i - 1]]

LEMMA IterationExists ==
    ASSUME NEW W, NEW first \in W, NEW n \in Nat, NEW step \in [1..n -> [W -> W]]
    PROVE  \E f : Repeats(f, W, first, n, step)
<1> DEFINE Upto(k, f) == f[0] = first /\ \A i \in 1..k : f[i] = step[i][f[i - 1]]
           S == {k \in Nat : k <= n => \E f \in [0..k -> W] : Upto(k, f)}
<1>1. 0 \in S
    <2>1. [i \in 0..0 |-> first] \in [0..0 -> W]
        OBVIOUS
    <2>2. Upto(0, [i \in 0..0 |-> first])
        OBVIOUS
    <2> QED
        BY <2>1, <2>2
<1>2. ASSUME NEW k \in S PROVE k + 1 \in S
    <2> SUFFICES ASSUME k + 1 <= n PROVE \E f \in [0..(k + 1) -> W] : Upto(k + 1, f)
        BY k \in Nat
    <2>1. k \in Nat /\ k <= n
        BY k \in Nat
    <2>2. PICK f \in [0..k -> W] : Upto(k, f)
        BY <1>2, <2>1
    <2>3. f[k] \in W /\ k + 1 \in 1..n /\ step[k + 1][f[k]] \in W
        BY <2>1, <2>2
    <2> DEFINE g == [i \in 0..(k + 1) |-> IF i = k + 1 THEN step[k + 1][f[k]] ELSE f[i]]
    <2>4. g \in [0..(k + 1) -> W]
        BY <2>1, <2>2, <2>3
    <2>5. g[0] = first
        BY <2>1, <2>2
    <2>6. ASSUME NEW i \in 1..(k + 1) PROVE g[i] = step[i][g[i - 1]]
        <3>1. CASE i = k + 1
            <4>1. i - 1 = k /\ k # k + 1 /\ k \in 0..(k + 1) /\ k + 1 \in 0..(k + 1)
                BY <2>1, <3>1
            <4>2. g[k] = f[k] /\ g[k + 1] = step[k + 1][f[k]]
                BY <4>1
            <4> QED
                BY <3>1, <4>1, <4>2
        <3>2. CASE i # k + 1
            <4>1. i \in 1..k /\ i - 1 \in 0..k /\ i - 1 # k + 1
                BY <2>1, <3>2
            <4>2. g[i] = f[i] /\ g[i - 1] = f[i - 1]
                BY <2>1, <3>2, <4>1
            <4>3. f[i] = step[i][f[i - 1]]
                BY <2>2, <4>1
            <4> QED
                BY <4>2, <4>3
        <3> QED
            BY <3>1, <3>2
    <2> QED
        BY <2>4, <2>5, <2>6
<1>3. n \in S
    <2> HIDE DEF S
    <2>1. S \in SUBSET Nat
        BY DEF S
    <2> QED
        BY <1>1, <1>2, <2>1, SetInduction
<1> QED
    BY <1>3 DEF Repeats

-----------------------------------------------------------------------------
(* Words and bytes.                                                        *)

Word == SUBSET AllOnes

\* A turn of the inner loop gives a word again, and its lowest bit tells whether the
\* polynomial was subtracted.
LEMMA ReduceWord ==
    ASSUME NEW w \in Word
    PROVE  /\ Reduce(w) \in Word
           /\ 0 \in Reduce(w) <=> 31 \in w
<1>1. ulPolynomial \in Word /\ 0 \in ulPolynomial
    BY DEF ulPolynomial, Word, AllOnes
<1>2. ShiftLeft(w, 1) \in Word /\ 0 \notin ShiftLeft(w, 1)
    BY DEF ShiftLeft, Word, AllOnes
<1> QED
    BY <1>1, <1>2 DEF Reduce, SymDiff, Word

\* Two words of which both or neither is reduced by the polynomial differ, one bit up,
\* where they did before.
LEMMA ReduceKeepsBits ==
    ASSUME NEW v \in Word, NEW w \in Word, 31 \in v <=> 31 \in w, NEW b \in 0..30
    PROVE  (b + 1 \in Reduce(v) <=> b + 1 \in Reduce(w)) <=> (b \in v <=> b \in w)
<1>1. ASSUME NEW x \in Word PROVE b + 1 \in ShiftLeft(x, 1) <=> b \in x
    BY DEF ShiftLeft, Word, AllOnes
<1>2. (IF 31 \in v THEN ulPolynomial ELSE {}) = (IF 31 \in w THEN ulPolynomial ELSE {})
    OBVIOUS
<1>3. PICK p : /\ Reduce(v) = SymDiff(ShiftLeft(v, 1), p)
               /\ Reduce(w) = SymDiff(ShiftLeft(w, 1), p)
    BY <1>2 DEF Reduce
<1> QED
    BY <1>1, <1>3 DEF SymDiff

\* What the inner loop of Init_CRC32_Table does, turn by turn.
LEMMA ReducedTurns ==
    ASSUME NEW w \in Word
    PROVE  \E turn \in [0..8 -> Word] :
              /\ turn[0] = w /\ turn[8] = Reduced(w)
              /\ \A j \in 1..8 : turn[j] = Reduce(turn[j - 1])
<1> DEFINE Turn(f) == [j \in 0..8 |-> IF j = 0 THEN w ELSE Reduce(f[j - 1])]
           turn == CHOOSE f : f = Turn(f)
<1>1. PICK n \in Nat : n = 8
    OBVIOUS
<1>2. PICK step \in [1..n -> [Word -> Word]] :
        \A i \in 1..n, x \in Word : step[i][x] = Reduce(x)
    <2> DEFINE st == [i \in 1..n |-> [x \in Word |-> Reduce(x)]]
    <2>1. st \in [1..n -> [Word -> Word]]
        BY ReduceWord
    <2> QED
        BY <2>1
<1>3. PICK g \in [0..n -> Word] : g[0] = w /\ \A i \in 1..n : g[i] = step[i][g[i - 1]]
    <2>1. \E g : Repeats(g, Word, w, n, step)
        BY IterationExists
    <2> QED
        BY <2>1 DEF Repeats
<1>4. ASSUME NEW i \in 1..8 PROVE g[i] = Reduce(g[i - 1])
    <2>1. g[i - 1] \in Word /\ i \in 1..n
        BY <1>1, i - 1 \in 0..n
    <2> QED
        BY <1>2, <1>3, <2>1
<1>5. g = Turn(g)
    BY <1>1, <1>3, <1>4
<1>6. turn = Turn(turn)
    <2> HIDE DEF Turn
    <2> QED
        BY <1>5
<1>7. Reduced(w) = turn[8]
    BY Zenon DEF Reduced
<1> HIDE DEF turn
<1>8. turn[0] = w /\ \A j \in 1..8 : turn[j] = Reduce(turn[j - 1])
    BY <1>6
<1>9. turn \in [0..8 -> Word]
    <2> DEFINE S == {k \in Nat : k <= 8 => turn[k] \in Word}
    <2>1. 0 \in S
        BY <1>8
    <2>2. ASSUME NEW k \in S PROVE k + 1 \in S
        <3>1. CASE k + 1 <= 8
            <4>1. k + 1 \in 1..8 /\ turn[k] \in Word
                BY <3>1
            <4> QED
                BY <1>8, <4>1, ReduceWord
        <3> QED
            BY <3>1
    <2>3. \A k \in 0..8 : turn[k] \in Word
        <3> HIDE DEF S
        <3>1. \A k \in Nat : k \in S
            BY <2>1, <2>2, SetInduction DEF S
        <3> QED
            BY <3>1 DEF S
    <2> QED
        BY <1>6, <2>3
<1> QED
    BY <1>7, <1>8, <1>9

\* Eight turns lose nothing of the top eight bits of a word: they are all in the low
\* eight bits of what is left.
LEMMA ReducedInjective ==
    ASSUME NEW v \in SUBSET (24..31), NEW w \in SUBSET (24..31),
           \A b \in 0..7 : b \in Reduced(v) <=> b \in Reduced(w)
    PROVE  v = w
<1>1. v \in Word /\ w \in Word
    BY DEF Word, AllOnes
<1>2. PICK t \in [0..8 -> Word] : /\ t[0] = v /\ t[8] = Reduced(v)
                                  /\ \A j \in 1..8 : t[j] = Reduce(t[j - 1])
    BY <1>1, ReducedTurns
<1>3. PICK u \in [0..8 -> Word] : /\ u[0] = w /\ u[8] = Reduced(w)
                                  /\ \A j \in 1..8 : u[j] = Reduce(u[j - 1])
    BY <1>1, ReducedTurns
<1> DEFINE Same(j, b) == b \in t[j] <=> b \in u[j]
<1>4. ASSUME NEW j \in 0..7
      PROVE  /\ t[j] \in Word /\ u[j] \in Word
             /\ t[j + 1] = Reduce(t[j]) /\ u[j + 1] = Reduce(u[j])
    <2>1. j \in 0..8 /\ j + 1 \in 1..8 /\ (j + 1) - 1 = j
        OBVIOUS
    <2> QED
        BY <1>2, <1>3, <2>1
\* The lowest bit of each turn tells whether the polynomial was subtracted.
<1>5. ASSUME NEW j \in 0..7, Same(j + 1, 0) PROVE Same(j, 31)
    BY <1>4, <1>5, ReduceWord
<1>6. ASSUME NEW j \in 0..7, Same(j, 31), NEW b \in 0..30
      PROVE  Same(j + 1, b + 1) <=> Same(j, b)
    BY <1>4, <1>6, ReduceKeepsBits
<1>7. ASSUME NEW j \in 0..7, \A b \in 0..j : Same(j + 1, b)
      PROVE  Same(j, 31) /\ \A b \in 0..(j - 1) : Same(j, b)
    <2>1. Same(j, 31)
        BY <1>5, <1>7
    <2>2. ASSUME NEW b \in 0..(j - 1) PROVE Same(j, b)
        <3>1. b \in 0..30 /\ b + 1 \in 0..j
            OBVIOUS
        <3>2. Same(j + 1, b + 1)
            BY <1>7, <3>1
        <3> QED
            BY <1>6, <2>1, <3>1, <3>2
    <2> QED
        BY <2>1, <2>2
<1>8. Same(7, 31) /\ \A b \in 0..6 : Same(7, b)
    BY <1>2, <1>3, <1>7
<1>9. Same(6, 31) /\ \A b \in 0..5 : Same(6, b)
    BY <1>7, <1>8
<1>10. Same(5, 31) /\ \A b \in 0..4 : Same(5, b)
    BY <1>7, <1>9
<1>11. Same(4, 31) /\ \A b \in 0..3 : Same(4, b)
    BY <1>7, <1>10
<1>12. Same(3, 31) /\ \A b \in 0..2 : Same(3, b)
    BY <1>7, <1>11
<1>13. Same(2, 31) /\ \A b \in 0..1 : Same(2, b)
    BY <1>7, <1>12
<1>14. Same(1, 31) /\ \A b \in 0..0 : Same(1, b)
    BY <1>7, <1>13
<1>15. Same(0, 31)
    BY <1>7, <1>14
<1> HIDE DEF Same
\* And what is now at the top came up from where it was at the start.
<1>16. Same(0, 30)
    BY <1>6, <1>14, <1>15
<1>17. Same(1, 30) /\ Same(0, 29)
    BY <1>6, <1>13, <1>14, <1>15
<1>18. Same(2, 30) /\ Same(1, 29) /\ Same(0, 28)
    BY <1>6, <1>12, <1>13, <1>14, <1>15
<1>19. Same(3, 30) /\ Same(2, 29) /\ Same(1, 28) /\ Same(0, 27)
    BY <1>6, <1>11, <1>12, <1>13, <1>14, <1>15
<1>20. Same(4, 30) /\ Same(3, 29) /\ Same(2, 28) /\ Same(1, 27) /\ Same(0, 26)
    BY <1>6, <1>10, <1>11, <1>12, <1>13, <1>14, <1>15
<1>21. /\ Same(5, 30) /\ Same(4, 29) /\ Same(3, 28) /\ Same(2, 27) /\ Same(1, 26)
       /\ Same(0, 25)
    BY <1>6, <1>9, <1>10, <1>11, <1>12, <1>13, <1>14, <1>15
<1>22. /\ Same(6, 30) /\ Same(5, 29) /\ Same(4, 28) /\ Same(3, 27) /\ Same(2, 26)
       /\ Same(1, 25) /\ Same(0, 24)
    BY <1>6, <1>8, <1>9, <1>10, <1>11, <1>12, <1>13, <1>14, <1>15
<1>23. \A b \in 24..31 : Same(0, b)
    BY <1>15, <1>16, <1>17, <1>18, <1>19, <1>20, <1>21, <1>22
<1> QED
    BY <1>2, <1>3, <1>23 DEF Same

\* The entries of the table are words, and no two have the same top eight bits.
LEMMA TableInjective ==
    /\ crc32_table \in [Byte -> Word]
    /\ \A i, j \in Byte :
          (\A b \in 24..31 : b \in crc32_table[i] <=> b \in crc32_table[j]) => i = j
<1> DEFINE Top(i) == ShiftLeft(Reflect(i, 8), 24)
           Entry(i) == Reflect(Reduced(Top(i)), 32)
<1>1. ASSUME NEW i \in Byte
      PROVE  /\ Top(i) \in SUBSET (24..31)
             /\ \A b \in 0..7 : 31 - b \in Top(i) <=> b \in i
    <2>1. i \in SUBSET (0..(8 - 1)) /\ 8 \in Nat
        BY DEF Byte
    <2>2. /\ Reflect(i, 8) \in SUBSET (0..7)
          /\ \A b \in 0..7 : b \in Reflect(i, 8) <=> 7 - b \in i
        BY <2>1 DEF Reflect
    <2> HIDE DEF Reflect
    <2>3. Top(i) = {b + 24 : b \in Reflect(i, 8)}
        BY <2>2 DEF ShiftLeft, AllOnes
    <2>4. \A b \in 0..7 : b + 24 \in Top(i) <=> b \in Reflect(i, 8)
        BY <2>2, <2>3
    <2>5. ASSUME NEW b \in 0..7 PROVE 31 - b \in Top(i) <=> b \in i
        <3>1. 7 - b \in 0..7 /\ (7 - b) + 24 = 31 - b /\ 7 - (7 - b) = b
            OBVIOUS
        <3>2. 31 - b \in Top(i) <=> 7 - b \in Reflect(i, 8)
            BY <2>4, <3>1
        <3> QED
            BY <2>2, <3>1, <3>2
    <2> QED
        BY <2>2, <2>3, <2>5
<1>2. ASSUME NEW w \in SUBSET (24..31) PROVE Reduced(w) \in Word
    <2>1. w \in Word
        BY DEF Word, AllOnes
    <2>2. PICK t \in [0..8 -> Word] : t[8] = Reduced(w)
        BY <2>1, ReducedTurns
    <2> QED
        BY <2>2
<1>3. ASSUME NEW w \in Word
      PROVE  /\ Reflect(w, 32) \in Word
             /\ \A b \in 0..31 : b \in Reflect(w, 32) <=> 31 - b \in w
    BY DEF Word, AllOnes, Reflect
<1>4. crc32_table = [i \in Byte |-> Entry(i)]
    BY DEF crc32_table
<1>5. ASSUME NEW i \in Byte
      PROVE  /\ Entry(i) \in Word
             /\ \A b \in 0..31 : b \in Entry(i) <=> 31 - b \in Reduced(Top(i))
    BY <1>1, <1>2, <1>3
<1>6. crc32_table \in [Byte -> Word]
    BY <1>4, <1>5
<1>7. ASSUME NEW i \in Byte, NEW j \in Byte,
             \A b \in 24..31 : b \in crc32_table[i] <=> b \in crc32_table[j]
      PROVE  i = j
    <2>1. \A b \in 24..31 : b \in Entry(i) <=> b \in Entry(j)
        BY <1>4, <1>7
    <2>2. ASSUME NEW b \in 0..7 PROVE b \in Reduced(Top(i)) <=> b \in Reduced(Top(j))
        <3>1. 31 - b \in 24..31 /\ 31 - b \in 0..31 /\ 31 - (31 - b) = b
            OBVIOUS
        <3> QED
            BY <1>5, <2>1, <3>1
    <2>3. Top(i) = Top(j)
        BY <1>1, <2>2, ReducedInjective
    <2>4. \A b \in 0..7 : b \in i <=> b \in j
        BY <1>1, <2>3
    <2> QED
        BY <2>4 DEF Byte
<1> QED
    BY <1>6, <1>7

-----------------------------------------------------------------------------
(* The sum.                                                                *)

\* What a byte does to the sum can be undone, if the byte is known; and of a known sum
\* no two bytes make the same.
LEMMA AbsorbInjective ==
    ASSUME NEW v \in Word, NEW w \in Word, NEW i \in Byte, NEW j \in Byte,
           Absorb(v, i) = Absorb(w, j), v = w \/ i = j
    PROVE  v = w /\ i = j
<1> DEFINE Index(x, k) == SymDiff(x \cap (0..7), k)
<1>1. ASSUME NEW x \in Word
      PROVE  /\ ShiftRight(x, 8) \in SUBSET (0..23)
             /\ \A b \in 8..31 : b - 8 \in ShiftRight(x, 8) <=> b \in x
    BY DEF ShiftRight, Word, AllOnes
<1>2. ASSUME NEW x \in Word, NEW k \in Byte PROVE Index(x, k) \in Byte
    BY DEF SymDiff, Byte
<1>3. /\ Absorb(v, i) = SymDiff(ShiftRight(v, 8), crc32_table[Index(v, i)])
      /\ Absorb(w, j) = SymDiff(ShiftRight(w, 8), crc32_table[Index(w, j)])
    BY DEF Absorb
<1>4. Index(v, i) = Index(w, j)
    <2>1. ASSUME NEW b \in 24..31
          PROVE  b \in crc32_table[Index(v, i)] <=> b \in crc32_table[Index(w, j)]
        <3>1. b \notin ShiftRight(v, 8) /\ b \notin ShiftRight(w, 8)
            BY <1>1
        <3>2. /\ b \in Absorb(v, i) <=> b \in crc32_table[Index(v, i)]
              /\ b \in Absorb(w, j) <=> b \in crc32_table[Index(w, j)]
            BY <1>3, <3>1, Zenon DEF SymDiff
        <3> QED
            BY <3>2
    <2> QED
        BY <1>2, <2>1, TableInjective
<1>5. ShiftRight(v, 8) = ShiftRight(w, 8)
    BY <1>3, <1>4 DEF SymDiff
<1>6. \A b \in 8..31 : b \in v <=> b \in w
    BY <1>1, <1>5
<1>7. CASE v = w
    <2>1. \A b \in 0..7 : b \in i <=> b \in j
        BY <1>4, <1>7 DEF SymDiff
    <2> QED
        BY <1>7, <2>1 DEF Byte
<1>8. CASE i = j
    <2>1. \A b \in 0..7 : b \in v <=> b \in w
        BY <1>4, <1>8 DEF SymDiff
    <2>2. \A b \in 0..31 : b \in v <=> b \in w
        BY <1>6, <2>1
    <2> QED
        BY <1>8, <2>2 DEF Word, AllOnes
<1> QED
    BY <1>7, <1>8

\* A turn of the loop of Get_CRC gives a word again.
LEMMA AbsorbWord ==
    ASSUME NEW w \in Word, NEW i \in Byte
    PROVE  Absorb(w, i) \in Word
<1>1. ShiftRight(w, 8) \in Word
    BY DEF ShiftRight, Word, AllOnes
<1>2. SymDiff(w \cap (0..7), i) \in Byte
    BY DEF SymDiff, Byte
<1>3. crc32_table[SymDiff(w \cap (0..7), i)] \in Word
    BY <1>2, TableInjective
<1> QED
    BY <1>1, <1>3 DEF Absorb, SymDiff, Word

\* What the loop of Get_CRC computes, turn by turn.
LEMMA SumsTurns ==
    ASSUME NEW buffer \in Seq(Byte)
    PROVE  /\ Sums(buffer) \in [0..Len(buffer) -> Word]
           /\ Sums(buffer)[0] = AllOnes
           /\ \A i \in 1..Len(buffer) :
                 Sums(buffer)[i] = Absorb(Sums(buffer)[i - 1], buffer[i])
<1> DEFINE Turn(f) == [i \in 0..Len(buffer) |->
                          IF i = 0 THEN AllOnes ELSE Absorb(f[i - 1], buffer[i])]
           crc == CHOOSE f : f = Turn(f)
<1>1. PICK n \in Nat : n = Len(buffer)
    OBVIOUS
<1>2. AllOnes \in Word /\ \A i \in 1..n : buffer[i] \in Byte
    BY <1>1 DEF Word
<1>3. PICK step \in [1..n -> [Word -> Word]] :
        \A i \in 1..n, x \in Word : step[i][x] = Absorb(x, buffer[i])
    <2> DEFINE st == [i \in 1..n |-> [x \in Word |-> Absorb(x, buffer[i])]]
    <2>1. st \in [1..n -> [Word -> Word]]
        BY <1>2, AbsorbWord
    <2> QED
        BY <2>1
<1>4. \E g : Repeats(g, Word, AllOnes, n, step)
    BY <1>2, IterationExists
<1>5. PICK g \in [0..n -> Word] :
        g[0] = AllOnes /\ \A i \in 1..n : g[i] = step[i][g[i - 1]]
    BY <1>4 DEF Repeats
<1>6. ASSUME NEW i \in 1..n PROVE g[i] = Absorb(g[i - 1], buffer[i])
    <2>1. g[i - 1] \in Word
        BY i - 1 \in 0..n
    <2> QED
        BY <1>3, <1>5, <2>1
<1>7. g = Turn(g)
    BY <1>1, <1>5, <1>6
<1>8. crc = Turn(crc)
    <2> HIDE DEF Turn
    <2> QED
        BY <1>7
<1>9. Sums(buffer) = crc
    BY Zenon DEF Sums
<1> HIDE DEF crc
<1>10. crc[0] = AllOnes /\ \A i \in 1..n : crc[i] = Absorb(crc[i - 1], buffer[i])
    BY <1>1, <1>8
<1>11. crc \in [0..n -> Word]
    <2> DEFINE S == {k \in Nat : k <= n => crc[k] \in Word}
    <2>1. 0 \in S
        BY <1>2, <1>10
    <2>2. ASSUME NEW k \in S PROVE k + 1 \in S
        <3>1. CASE k + 1 <= n
            <4>1. k + 1 \in 1..n /\ (k + 1) - 1 = k /\ crc[k] \in Word
                BY <3>1
            <4>2. crc[k + 1] = Absorb(crc[k], buffer[k + 1]) /\ buffer[k + 1] \in Byte
                BY <1>2, <1>10, <4>1
            <4> QED
                BY <4>1, <4>2, AbsorbWord
        <3> QED
            BY <3>1
    <2>3. \A k \in 0..n : crc[k] \in Word
        <3> HIDE DEF S
        <3>1. \A k \in Nat : k \in S
            BY <2>1, <2>2, SetInduction DEF S
        <3> QED
            BY <3>1 DEF S
    <2> QED
        BY <1>1, <1>8, <2>3
<1> QED
    BY <1>1, <1>9, <1>10, <1>11

\* A change of one byte, at any place of a buffer of any length, changes the sum: before
\* the byte the sums are equal, and from it on they differ.
LEMMA ChangeDetected ==
    ASSUME NEW buffer \in Seq(Byte), NEW p \in DOMAIN buffer,
           NEW byte \in Byte, byte # buffer[p]
    PROVE  Get_CRC([buffer EXCEPT ![p] = byte]) # Get_CRC(buffer)
<1> DEFINE other == [buffer EXCEPT ![p] = byte]
           s == Sums(buffer)
           o == Sums(other)
<1>1. PICK n \in Nat : n = Len(buffer)
    OBVIOUS
<1>2. other \in Seq(Byte) /\ Len(other) = n /\ p \in 1..n
    BY <1>1
<1>3. /\ s \in [0..n -> Word] /\ s[0] = AllOnes
      /\ \A i \in 1..n : s[i] = Absorb(s[i - 1], buffer[i])
    BY <1>1, SumsTurns
<1>4. /\ o \in [0..n -> Word] /\ o[0] = AllOnes
      /\ \A i \in 1..n : o[i] = Absorb(o[i - 1], other[i])
    BY <1>2, SumsTurns
<1>5. /\ \A i \in 1..n : buffer[i] \in Byte /\ other[i] \in Byte
      /\ \A i \in 1..n : i # p => other[i] = buffer[i]
      /\ other[p] # buffer[p]
    BY <1>1, <1>2
<1> HIDE DEF other, s, o
<1> DEFINE S == {k \in Nat : k <= n => (s[k] = o[k] <=> k < p)}
<1>6. 0 \in S
    BY <1>2, <1>3, <1>4
<1>7. ASSUME NEW k \in S PROVE k + 1 \in S
    <2> SUFFICES ASSUME k + 1 <= n PROVE s[k + 1] = o[k + 1] <=> k + 1 < p
        BY k \in Nat
    <2>1. /\ k \in Nat /\ k + 1 \in 1..n /\ k \in 0..n /\ (k + 1) - 1 = k
          /\ s[k] = o[k] <=> k < p
        OBVIOUS
    <2>2. /\ s[k + 1] = Absorb(s[k], buffer[k + 1]) /\ s[k] \in Word
          /\ o[k + 1] = Absorb(o[k], other[k + 1]) /\ o[k] \in Word
          /\ buffer[k + 1] \in Byte /\ other[k + 1] \in Byte
        BY <1>3, <1>4, <1>5, <2>1
    <2>3. CASE k + 1 < p
        <3>1. s[k] = o[k] /\ other[k + 1] = buffer[k + 1]
            BY <1>2, <1>5, <2>1, <2>3
        <3> QED
            BY <2>2, <2>3, <3>1
    <2>4. CASE k + 1 = p
        <3>1. s[k] = o[k] /\ other[k + 1] # buffer[k + 1]
            BY <1>2, <1>5, <2>1, <2>4
        <3>2. s[k + 1] # o[k + 1]
            BY <2>2, <3>1, AbsorbInjective
        <3> QED
            BY <1>2, <2>4, <3>2
    <2>5. CASE k + 1 > p
        <3>1. s[k] # o[k] /\ other[k + 1] = buffer[k + 1]
            BY <1>2, <1>5, <2>1, <2>5
        <3>2. s[k + 1] # o[k + 1]
            BY <2>2, <3>1, AbsorbInjective
        <3> QED
            BY <1>2, <2>1, <2>5, <3>2
    <2> QED
        BY <1>2, <2>1, <2>3, <2>4, <2>5
<1>8. s[n] # o[n]
    <2> HIDE DEF S
    <2>1. n \in S
        BY <1>6, <1>7, SetInduction DEF S
    <2> QED
        BY <1>2, <2>1 DEF S
<1>9. s[n] \in Word /\ o[n] \in Word
    BY <1>3, <1>4
<1>10. SymDiff(s[n], AllOnes) # SymDiff(o[n], AllOnes)
    BY <1>8, <1>9 DEF SymDiff, Word
<1> QED
    BY <1>1, <1>2, <1>10 DEF Get_CRC, s, o, other

-----------------------------------------------------------------------------
(* The table is linear.                                                    *)

\* A turn of the inner loop on an exclusive or.
LEMMA ReduceLinear ==
    ASSUME NEW v \in Word, NEW w \in Word
    PROVE  Reduce(SymDiff(v, w)) = SymDiff(Reduce(v), Reduce(w))
<1>1. ShiftLeft(SymDiff(v, w), 1) = SymDiff(ShiftLeft(v, 1), ShiftLeft(w, 1))
    BY DEF ShiftLeft, SymDiff, Word, AllOnes
<1>2. 31 \in SymDiff(v, w) <=> ~(31 \in v <=> 31 \in w)
    BY DEF SymDiff
<1> QED
    BY <1>1, <1>2 DEF Reduce, SymDiff

\* The exclusive or of two words is a word.
LEMMA SymDiffWord ==
    ASSUME NEW v \in Word, NEW w \in Word
    PROVE  SymDiff(v, w) \in Word
BY DEF SymDiff, Word

\* All eight turns on an exclusive or.
LEMMA ReducedLinear ==
    ASSUME NEW v \in Word, NEW w \in Word
    PROVE  Reduced(SymDiff(v, w)) = SymDiff(Reduced(v), Reduced(w))
<1>1. PICK t \in [0..8 -> Word] : /\ t[0] = v /\ t[8] = Reduced(v)
                                  /\ \A j \in 1..8 : t[j] = Reduce(t[j - 1])
    BY ReducedTurns
<1>2. PICK u \in [0..8 -> Word] : /\ u[0] = w /\ u[8] = Reduced(w)
                                  /\ \A j \in 1..8 : u[j] = Reduce(u[j - 1])
    BY ReducedTurns
<1>3. PICK x \in [0..8 -> Word] : /\ x[0] = SymDiff(v, w) /\ x[8] = Reduced(SymDiff(v, w))
                                  /\ \A j \in 1..8 : x[j] = Reduce(x[j - 1])
    BY ReducedTurns, SymDiffWord
<1>4. PICK n \in Nat : n = 8
    OBVIOUS
<1> DEFINE S == {k \in 0..n : x[k] = SymDiff(t[k], u[k])}
<1>5. 0 \in S
    BY <1>1, <1>2, <1>3, <1>4
<1>6. ASSUME NEW k \in S, k < n PROVE k + 1 \in S
    <2>1. k + 1 \in 1..8 /\ (k + 1) - 1 = k /\ k \in 0..8
        BY <1>4, <1>6
    <2>2. /\ x[k + 1] = Reduce(x[k]) /\ t[k + 1] = Reduce(t[k]) /\ u[k + 1] = Reduce(u[k])
          /\ t[k] \in Word /\ u[k] \in Word
        BY <1>1, <1>2, <1>3, <2>1
    <2> QED
        BY <1>4, <2>1, <2>2, ReduceLinear
<1>7. n \in S
    <2>1. S \in SUBSET (0..n) /\ n \in 0..n
        OBVIOUS
    <2> HIDE DEF S
    <2> QED
        BY <1>5, <1>6, <2>1, StepInduction
<1> QED
    BY <1>1, <1>2, <1>3, <1>4, <1>7

\* Nothing is subtracted from a word that the shifts take to the top only.
LEMMA ReducedLow ==
    ASSUME NEW w \in SUBSET (0..23)
    PROVE  Reduced(w) = ShiftLeft(w, 8)
<1>1. w \in Word
    BY DEF Word, AllOnes
<1>2. PICK t \in [0..8 -> Word] : /\ t[0] = w /\ t[8] = Reduced(w)
                                  /\ \A j \in 1..8 : t[j] = Reduce(t[j - 1])
    BY <1>1, ReducedTurns
<1>3. PICK n \in Nat : n = 8
    OBVIOUS
<1> DEFINE S == {k \in 0..n : t[k] = {b + k : b \in w}}
<1>4. 0 \in S
    <2>1. \A b \in w : b + 0 = b
        OBVIOUS
    <2>2. {b + 0 : b \in w} = w
        BY <2>1
    <2> QED
        BY <1>2, <2>2
<1>5. ASSUME NEW k \in S, k < n PROVE k + 1 \in S
    <2>1. k + 1 \in 1..8 /\ (k + 1) - 1 = k /\ k \in 0..7
        BY <1>3, <1>5
    <2>2. t[k + 1] = Reduce(t[k]) /\ t[k] = {b + k : b \in w}
        BY <1>2, <2>1
    <2>3. 31 \notin t[k]
        BY <2>1, <2>2
    <2>4. Reduce(t[k]) = ShiftLeft(t[k], 1)
        BY <2>3 DEF Reduce, SymDiff
    <2>5. ShiftLeft(t[k], 1) = {b + (k + 1) : b \in w}
        <3>1. t[k] \in SUBSET (0..30)
            BY <2>1, <2>2
        <3>2. ShiftLeft(t[k], 1) = {b + 1 : b \in t[k]}
            BY <3>1 DEF ShiftLeft, AllOnes
        <3>3. \A b \in w : (b + k) + 1 = b + (k + 1)
            BY <2>1
        <3>4. {b + 1 : b \in t[k]} = {(b + k) + 1 : b \in w}
            BY <2>2
        <3> QED
            BY <3>2, <3>3, <3>4
    <2> QED
        BY <1>3, <2>1, <2>2, <2>4, <2>5
<1>6. n \in S
    <2>1. S \in SUBSET (0..n) /\ n \in 0..n
        OBVIOUS
    <2> HIDE DEF S
    <2> QED
        BY <1>4, <1>5, <2>1, StepInduction
<1>7. ShiftLeft(w, 8) = {b + 8 : b \in w}
    BY DEF ShiftLeft, AllOnes
<1> QED
    BY <1>2, <1>3, <1>6, <1>7

\* Reflect turns a word round, and back again.
LEMMA ReflectWord ==
    ASSUME NEW w \in Word
    PROVE  /\ Reflect(w, 32) \in Word
           /\ \A b \in 0..31 : b \in Reflect(w, 32) <=> 31 - b \in w
           /\ Reflect(Reflect(w, 32), 32) = w
<1>1. ASSUME NEW v \in SUBSET (0..31)
      PROVE  /\ Reflect(v, 32) \in SUBSET (0..31)
             /\ \A b \in 0..31 : b \in Reflect(v, 32) <=> 31 - b \in v
    BY DEF Reflect
<1>2. \A b \in 0..31 : 31 - b \in 0..31 /\ 31 - (31 - b) = b
    OBVIOUS
<1>3. w \in SUBSET (0..31)
    BY DEF Word, AllOnes
<1>4. Reflect(Reflect(w, 32), 32) = w
    <2> HIDE DEF Reflect
    <2>1. \A b \in 0..31 : b \in Reflect(Reflect(w, 32), 32) <=> b \in w
        BY <1>1, <1>2, <1>3
    <2>2. Reflect(Reflect(w, 32), 32) \in SUBSET (0..31)
        BY <1>1, <1>3
    <2> QED
        BY <1>3, <2>1, <2>2
<1> QED
    BY <1>1, <1>3, <1>4 DEF Word, AllOnes

\* The sum is kept with its bits in the opposite order, and works as a register that takes
\* the byte at its top.
LEMMA AbsorbReflected ==
    ASSUME NEW s \in Word, NEW byte \in Byte
    PROVE  Reflect(Absorb(s, byte), 32) =
              Reduced(SymDiff(Reflect(s, 32), ShiftLeft(Reflect(byte, 8), 24)))
<1> DEFINE index == SymDiff(s \cap (0..7), byte)
           high == ShiftLeft(Reflect(index, 8), 24)
           low == {b \in Reflect(s, 32) : b < 24}
<1>1. index \in Byte
    BY DEF SymDiff, Byte
<1>2. /\ \A w \in SUBSET (0..31) : /\ Reflect(w, 32) \in SUBSET (0..31)
                                   /\ \A b \in 0..31 : b \in Reflect(w, 32) <=> 31 - b \in w
      /\ \A w \in SUBSET (0..31) : Reflect(Reflect(w, 32), 32) = w
    BY ReflectWord DEF Word, AllOnes
<1>3. ASSUME NEW k \in Byte
      PROVE  /\ ShiftLeft(Reflect(k, 8), 24) \in SUBSET (24..31)
             /\ \A b \in 24..31 : b \in ShiftLeft(Reflect(k, 8), 24) <=> 31 - b \in k
    <2>1. /\ Reflect(k, 8) \in SUBSET (0..7)
          /\ \A b \in 0..7 : b \in Reflect(k, 8) <=> 7 - b \in k
        BY DEF Reflect, Byte
    <2>2. /\ ShiftLeft(Reflect(k, 8), 24) \in SUBSET (24..31)
          /\ \A b \in 24..31 : b \in ShiftLeft(Reflect(k, 8), 24) <=> b - 24 \in Reflect(k, 8)
        BY <2>1 DEF ShiftLeft, AllOnes
    <2>3. \A b \in 24..31 : b - 24 \in 0..7 /\ 7 - (b - 24) = 31 - b
        OBVIOUS
    <2> QED
        BY <2>1, <2>2, <2>3
<1>4. SymDiff(Reflect(s, 32), ShiftLeft(Reflect(byte, 8), 24)) = SymDiff(low, high)
    <2>1. ASSUME NEW b \in 0..23
          PROVE  /\ b \notin ShiftLeft(Reflect(byte, 8), 24) /\ b \notin high
                 /\ b \in Reflect(s, 32) <=> b \in low
        BY <1>1, <1>3
    <2>2. ASSUME NEW b \in 24..31
          PROVE  /\ b \notin low
                 /\ b \in high <=> ~(b \in Reflect(s, 32) <=>
                                       b \in ShiftLeft(Reflect(byte, 8), 24))
        <3>1. b \in high <=> 31 - b \in index
            BY <1>1, <1>3
        <3>2. b \in ShiftLeft(Reflect(byte, 8), 24) <=> 31 - b \in byte
            BY <1>3
        <3>3. 31 - b \in 0..7 /\ (31 - b \in s <=> b \in Reflect(s, 32))
            BY <1>2, b \in 0..31 DEF Word, AllOnes
        <3>4. 31 - b \in index <=> ~(31 - b \in s <=> 31 - b \in byte)
            BY <3>3 DEF SymDiff
        <3> QED
            BY <3>1, <3>2, <3>3, <3>4
    <2>3. /\ ShiftLeft(Reflect(byte, 8), 24) \in SUBSET (0..31) /\ high \in SUBSET (0..31)
          /\ low \in SUBSET (0..31) /\ Reflect(s, 32) \in SUBSET (0..31)
        BY <1>1, <1>2, <1>3 DEF Word, AllOnes
    <2> HIDE DEF low, high
    <2>4. ASSUME NEW b \in 0..31
          PROVE  b \in SymDiff(Reflect(s, 32), ShiftLeft(Reflect(byte, 8), 24))
                    <=> b \in SymDiff(low, high)
        <3>1. b \in 0..23 \/ b \in 24..31
            OBVIOUS
        <3> QED
            BY <2>1, <2>2, <3>1, Zenon DEF SymDiff
    <2>5. /\ SymDiff(Reflect(s, 32), ShiftLeft(Reflect(byte, 8), 24)) \in SUBSET (0..31)
          /\ SymDiff(low, high) \in SUBSET (0..31)
        BY <2>3 DEF SymDiff
    <2> QED
        BY <2>4, <2>5
<1>5. /\ low \in SUBSET (0..23) /\ low \in Word /\ high \in Word /\ high \in SUBSET (24..31)
    <2>1. Reflect(s, 32) \in SUBSET (0..31)
        BY <1>2 DEF Word, AllOnes
    <2>2. low \in SUBSET (0..23)
        BY <2>1
    <2>3. high \in SUBSET (24..31)
        BY <1>1, <1>3
    <2> HIDE DEF low, high
    <2> QED
        BY <2>2, <2>3 DEF Word, AllOnes
<1>6. Reduced(SymDiff(low, high)) = SymDiff(ShiftLeft(low, 8), Reduced(high))
    BY <1>5, ReducedLinear, ReducedLow
<1>7. ShiftLeft(low, 8) = Reflect(ShiftRight(s, 8), 32)
    <2>1. low = {b \in 0..23 : 31 - b \in s}
        BY <1>2 DEF Word, AllOnes
    <2>2. ShiftLeft(low, 8) = {b \in 8..31 : 39 - b \in s}
        <3>1. \A b \in 8..31 : b \in ShiftLeft(low, 8) <=> b - 8 \in low
            BY <2>1 DEF ShiftLeft, AllOnes
        <3>2. \A b \in 8..31 : b - 8 \in 0..23 /\ 31 - (b - 8) = 39 - b
            OBVIOUS
        <3>3. ShiftLeft(low, 8) \in SUBSET (8..31)
            BY <2>1 DEF ShiftLeft, AllOnes
        <3> QED
            BY <2>1, <3>1, <3>2, <3>3
    <2>3. ShiftRight(s, 8) = {b \in 0..23 : b + 8 \in s}
        <3>1. s \in SUBSET (0..31)
            BY DEF Word, AllOnes
        <3>2. ShiftRight(s, 8) \in SUBSET (0..31)
            BY <3>1 DEF ShiftRight, AllOnes
        <3>3. \A b \in 0..31 : b \in ShiftRight(s, 8) <=> b + 8 \in s
            BY <3>1 DEF ShiftRight, AllOnes
        <3>4. \A b \in 0..31 : b + 8 \in s => b \in 0..23
            BY <3>1
        <3> QED
            BY <3>2, <3>3, <3>4
    <2>4. ShiftRight(s, 8) \in SUBSET (0..31)
        BY <2>3
    <2>5. \A b \in 0..31 : b \in Reflect(ShiftRight(s, 8), 32) <=> 31 - b \in ShiftRight(s, 8)
        BY <1>2, <2>4
    <2>6. \A b \in 0..31 : 31 - b \in ShiftRight(s, 8) <=> b \in 8..31 /\ 39 - b \in s
        <3>1. \A b \in 0..31 : (31 - b) + 8 = 39 - b /\ (31 - b \in 0..23 <=> b \in 8..31)
            OBVIOUS
        <3> QED
            BY <2>3, <3>1
    <2>7. Reflect(ShiftRight(s, 8), 32) \in SUBSET (0..31)
        BY <1>2, <2>4
    <2>8. ShiftLeft(low, 8) \in SUBSET (0..31)
        BY DEF ShiftLeft, AllOnes
    <2>9. \A b \in 0..31 : b \in ShiftLeft(low, 8) <=> b \in Reflect(ShiftRight(s, 8), 32)
        BY <2>2, <2>5, <2>6
    <2> HIDE DEF low, Reflect, ShiftRight
    <2> QED
        BY <2>7, <2>8, <2>9
<1>8. Absorb(s, byte) = SymDiff(ShiftRight(s, 8), Reflect(Reduced(high), 32))
    BY <1>1 DEF Absorb, crc32_table
<1>9. Reduced(high) \in SUBSET (0..31) /\ ShiftRight(s, 8) \in SUBSET (0..31)
    <2>1. PICK t \in [0..8 -> Word] : t[8] = Reduced(high)
        BY <1>5, ReducedTurns
    <2>2. ShiftRight(s, 8) \in SUBSET (0..31)
        <3>1. s \in SUBSET (0..31)
            BY DEF Word, AllOnes
        <3> QED
            BY <3>1 DEF ShiftRight, AllOnes
    <2> QED
        BY <2>1, <2>2 DEF Word, AllOnes
<1> HIDE DEF low, high, index
<1>10. Reflect(Absorb(s, byte), 32) = SymDiff(Reflect(ShiftRight(s, 8), 32), Reduced(high))
    <2>1. ASSUME NEW v \in SUBSET (0..31), NEW w \in SUBSET (0..31)
          PROVE  Reflect(SymDiff(v, w), 32) = SymDiff(Reflect(v, 32), Reflect(w, 32))
        <3>1. SymDiff(v, w) \in SUBSET (0..31)
            BY DEF SymDiff
        <3>2. ASSUME NEW b \in 0..31
              PROVE  b \in Reflect(SymDiff(v, w), 32)
                        <=> b \in SymDiff(Reflect(v, 32), Reflect(w, 32))
            <4>1. /\ b \in Reflect(SymDiff(v, w), 32) <=> 31 - b \in SymDiff(v, w)
                  /\ b \in Reflect(v, 32) <=> 31 - b \in v
                  /\ b \in Reflect(w, 32) <=> 31 - b \in w
                BY <1>2, <3>1
            <4> QED
                BY <4>1, Zenon DEF SymDiff
        <3>3. /\ Reflect(SymDiff(v, w), 32) \in SUBSET (0..31)
              /\ SymDiff(Reflect(v, 32), Reflect(w, 32)) \in SUBSET (0..31)
            <4>1. /\ Reflect(SymDiff(v, w), 32) \in SUBSET (0..31)
                  /\ Reflect(v, 32) \in SUBSET (0..31) /\ Reflect(w, 32) \in SUBSET (0..31)
                BY <1>2, <3>1
            <4> QED
                BY <4>1 DEF SymDiff
        <3> QED
            BY <3>2, <3>3
    <2>2. Reflect(Reduced(high), 32) \in SUBSET (0..31)
        BY <1>2, <1>9
    <2>3. Reflect(Absorb(s, byte), 32)
             = SymDiff(Reflect(ShiftRight(s, 8), 32), Reflect(Reflect(Reduced(high), 32), 32))
        BY <1>8, <1>9, <2>1, <2>2
    <2> QED
        BY <1>2, <1>9, <2>3
<1> QED
    BY <1>4, <1>6, <1>7, <1>10

-----------------------------------------------------------------------------
(* The division.  A word k places up in a long polynomial is Up(word, k);   *)
(* Subtract(p, d) is a turn of Remainder.                                   *)

Up(word, k) == {b + k : b \in word}

Subtract(p, d) == IF d \in p THEN SymDiff(p, {g + d - 32 : g \in ulPolynomial \cup {32}}) ELSE p

\* What is left of the buffer at each place, from the top downwards.
LEMMA DivisionTurns ==
    ASSUME NEW buffer \in Seq(Byte), NEW top \in Nat, top = 8 * Len(buffer)
    PROVE  \E left :
              /\ left[top + 32] = SymDiff(Coefficients(buffer), top..(top + 31))
              /\ \A d \in 32..(top + 31) : left[d] = Subtract(left[d + 1], d)
              /\ left[32] = Remainder(buffer)
<1> DEFINE first == SymDiff(Coefficients(buffer), top..(top + 31))
           Turn(f) == [d \in 32..(top + 32) |->
                          IF d = top + 32 THEN first ELSE Subtract(f[d + 1], d)]
           left == CHOOSE f : f = Turn(f)
           W == SUBSET Int
<1>1. first \in W
    BY DEF SymDiff, Coefficients
<1>2. \A p \in W, d \in Int : Subtract(p, d) \in W
    <2> SUFFICES ASSUME NEW p \in W, NEW d \in Int PROVE Subtract(p, d) \in W
        OBVIOUS
    <2>1. ulPolynomial \in SUBSET Int
        BY DEF ulPolynomial
    <2>2. {g + d - 32 : g \in ulPolynomial \cup {32}} \in SUBSET Int
        BY <2>1
    <2> QED
        BY <2>2 DEF Subtract, SymDiff
<1>3. PICK step \in [1..top -> [W -> W]] :
        \A i \in 1..top, p \in W : step[i][p] = Subtract(p, top + 32 - i)
    <2> DEFINE st == [i \in 1..top |-> [p \in W |-> Subtract(p, top + 32 - i)]]
    <2> HIDE DEF W
    <2>1. st \in [1..top -> [W -> W]]
        BY <1>2
    <2> QED
        BY <2>1
<1> HIDE DEF first, W
<1>4. \E g : Repeats(g, W, first, top, step)
    BY <1>1, IterationExists
<1>5. PICK g \in [0..top -> W] : g[0] = first /\ \A i \in 1..top : g[i] = step[i][g[i - 1]]
    BY <1>4 DEF Repeats
<1> DEFINE h == [d \in 32..(top + 32) |-> g[top + 32 - d]]
<1>6. h = Turn(h)
    <2>1. ASSUME NEW d \in 32..(top + 32) PROVE h[d] = Turn(h)[d]
        <3>1. CASE d = top + 32
            <4>1. h[d] = g[0]
                BY <3>1
            <4> QED
                BY <1>5, <3>1, <4>1
        <3>2. CASE d # top + 32
            <4>1. d \in Int /\ 32 <= d /\ d <= top + 31
                BY <3>2
            <4>2. PICK i : i = top + 32 - d
                OBVIOUS
            <4>3. i \in Int /\ i \in 1..top
                BY <4>1, <4>2
            <4>4. /\ d + 1 \in 32..(top + 32) /\ i - 1 = top + 32 - (d + 1)
                  /\ i - 1 \in 0..top /\ top + 32 - i = d
                BY <3>2, <4>2, <4>3
            <4>5. h[d] = g[i] /\ h[d + 1] = g[i - 1]
                BY <4>2, <4>4, <4>3
            <4>6. g[i] = Subtract(g[i - 1], d)
                BY <1>3, <1>5, <4>4, <4>3
            <4>7. Turn(h)[d] = Subtract(h[d + 1], d)
                BY <3>2
            <4> QED
                BY <4>5, <4>6, <4>7
        <3> QED
            BY <3>1, <3>2
    <2> QED
        BY <2>1
<1>7. left = Turn(left)
    <2> HIDE DEF Turn, h
    <2> QED
        BY <1>6
<1>8. Remainder(buffer) = left[32]
    BY Zenon DEF Remainder, Subtract, first
<1> HIDE DEF left
<1>9. left[top + 32] = first
    BY <1>7
<1>10. ASSUME NEW d \in 32..(top + 31) PROVE left[d] = Subtract(left[d + 1], d)
    BY <1>7
<1> QED
    BY <1>8, <1>9, <1>10 DEF first

\* A turn subtracts the polynomial from the word at the top, which goes one place down.
LEMMA SubtractWord ==
    ASSUME NEW w \in Word, NEW k \in Nat, NEW rest \in SUBSET (0..(k + 31))
    PROVE  Subtract(SymDiff(Up(w, k + 1), rest), k + 32) = SymDiff(Up(Reduce(w), k), rest)
<1> DEFINE p == SymDiff(Up(w, k + 1), rest)
           q == {g + (k + 32) - 32 : g \in ulPolynomial \cup {32}}
<1>1. w \in SUBSET (0..31) /\ ulPolynomial \in SUBSET (0..31)
    BY DEF Word, AllOnes, ulPolynomial
<1>2. ASSUME NEW x \in Int
      PROVE  x \in Up(w, k + 1) <=> x - (k + 1) \in w
    <2>1. \A b \in w : b + (k + 1) = x <=> b = x - (k + 1)
        BY <1>1
    <2> QED
        BY <2>1 DEF Up
<1>3. k + 32 \in p <=> 31 \in w
    <2>1. (k + 32) - (k + 1) = 31 /\ k + 32 \notin rest
        OBVIOUS
    <2> QED
        BY <1>2, <2>1 DEF SymDiff
<1>4. ASSUME NEW x \in Int
      PROVE  x \in q <=> (x - k \in ulPolynomial \/ x - k = 32)
    <2>1. \A g \in ulPolynomial \cup {32} : g + (k + 32) - 32 = x <=> g = x - k
        BY <1>1
    <2> QED
        BY <2>1
<1>5. ASSUME NEW x \in Int
      PROVE  x \in Up(Reduce(w), k) <=> x - k \in Reduce(w)
    <2>1. Reduce(w) \in SUBSET (0..31)
        BY ReduceWord DEF Word, AllOnes
    <2>2. \A b \in Reduce(w) : b + k = x <=> b = x - k
        BY <2>1
    <2> QED
        BY <2>2 DEF Up
<1>6. ASSUME NEW y \in Int
      PROVE  y \in ShiftLeft(w, 1) <=> (y - 1 \in w /\ y # 32)
    BY <1>1 DEF ShiftLeft, AllOnes
<1>7. p \in SUBSET Int /\ q \in SUBSET Int /\ SymDiff(Up(Reduce(w), k), rest) \in SUBSET Int
    <2>1. Reduce(w) \in SUBSET (0..31)
        BY ReduceWord DEF Word, AllOnes
    <2>2. /\ Up(w, k + 1) \in SUBSET Int /\ Up(Reduce(w), k) \in SUBSET Int
          /\ q \in SUBSET Int /\ rest \in SUBSET Int
        BY <1>1, <2>1 DEF Up
    <2> QED
        BY <2>2 DEF SymDiff
<1>8. Subtract(p, k + 32) = IF k + 32 \in p THEN SymDiff(p, q) ELSE p
    BY DEF Subtract
<1>9. ASSUME NEW x \in Int
      PROVE  x \in p <=> ~(x - k - 1 \in w <=> x \in rest)
    <2>1. x - (k + 1) = x - k - 1
        OBVIOUS
    <2> QED
        BY <1>2, <2>1, Zenon DEF SymDiff
<1> HIDE DEF p, q
<1>10. CASE 31 \in w
    <2>1. Subtract(p, k + 32) = SymDiff(p, q)
        BY <1>3, <1>8, <1>10
    <2>2. Reduce(w) = SymDiff(ShiftLeft(w, 1), ulPolynomial)
        BY <1>10 DEF Reduce
    <2>3. ASSUME NEW x \in Int
          PROVE  x \in SymDiff(p, q) <=> x \in SymDiff(Up(Reduce(w), k), rest)
        <3> DEFINE y == x - k
        <3>1. y \in Int /\ (y - 1 \in w => y # 33) /\ (y = 32 => y - 1 \in w)
            BY <1>1, <1>10
        <3>2. y = 32 => y \notin ulPolynomial
            BY <1>1
        <3> HIDE DEF y
        <3>3. x \in Up(Reduce(w), k) <=> ~(y \in ShiftLeft(w, 1) <=> y \in ulPolynomial)
            BY <1>5, <2>2, Zenon DEF SymDiff, y
        <3>4. y \in ShiftLeft(w, 1) <=> (y - 1 \in w /\ y # 32)
            BY <1>6, <3>1
        <3>5. x \in q <=> (y \in ulPolynomial \/ y = 32)
            BY <1>4 DEF y
        <3>6. x \in p <=> ~(y - 1 \in w <=> x \in rest)
            BY <1>9 DEF y
        <3>7. ~(x \in p <=> x \in q) <=> ~(x \in Up(Reduce(w), k) <=> x \in rest)
            BY <3>1, <3>2, <3>3, <3>4, <3>5, <3>6, Zenon
        <3> QED
            BY <3>7, Zenon DEF SymDiff
    <2>4. SymDiff(p, q) \in SUBSET Int
        BY <1>7 DEF SymDiff
    <2> QED
        BY <1>7, <2>1, <2>3, <2>4 DEF p
<1>11. CASE 31 \notin w
    <2>1. Subtract(p, k + 32) = p
        BY <1>3, <1>8, <1>11
    <2>2. Reduce(w) = ShiftLeft(w, 1)
        BY <1>11 DEF Reduce, SymDiff
    <2>3. ASSUME NEW x \in Int PROVE x \in p <=> x \in SymDiff(Up(Reduce(w), k), rest)
        <3>1. x - k \in Int /\ (x - k = 32 => x - k - 1 \notin w)
            BY <1>11
        <3>2. x \in Up(Reduce(w), k) <=> x - k - 1 \in w
            BY <1>5, <1>6, <2>2, <3>1
        <3> QED
            BY <1>9, <3>2, Zenon DEF SymDiff
    <2> QED
        BY <1>7, <2>1, <2>3 DEF p
<1> QED
    BY <1>10, <1>11

\* The eight turns at the places of one byte are those of the inner loop of Init_CRC32_Table.
LEMMA SubtractByte ==
    ASSUME NEW w \in Word, NEW m \in Nat, NEW rest \in SUBSET (0..(m + 31)), NEW left,
           left[m + 40] = SymDiff(Up(w, m + 8), rest),
           \A d \in (m + 32)..(m + 39) : left[d] = Subtract(left[d + 1], d)
    PROVE  left[m + 32] = SymDiff(Up(Reduced(w), m), rest)
<1>1. PICK t \in [0..8 -> Word] : /\ t[0] = w /\ t[8] = Reduced(w)
                                  /\ \A j \in 1..8 : t[j] = Reduce(t[j - 1])
    BY ReducedTurns
<1>2. PICK n \in Nat : n = 8
    OBVIOUS
<1> DEFINE S == {j \in 0..n : left[m + 40 - j] = SymDiff(Up(t[j], m + 8 - j), rest)}
<1>3. 0 \in S
    <2>1. m + 40 - 0 = m + 40 /\ m + 8 - 0 = m + 8
        OBVIOUS
    <2> QED
        BY <1>1, <2>1
<1>4. ASSUME NEW j \in S, j < n PROVE j + 1 \in S
    <2>1. j + 1 \in 1..8 /\ (j + 1) - 1 = j /\ j \in 0..8
        BY <1>2, <1>4
    <2>2. t[j] \in Word /\ t[j + 1] = Reduce(t[j])
        BY <1>1, <2>1
    <2>3. PICK k \in Nat : k = m + 7 - j
        BY <2>1
    <2>4. /\ m + 40 - j = (k + 32) + 1 /\ m + 8 - j = k + 1
          /\ m + 40 - (j + 1) = k + 32 /\ m + 8 - (j + 1) = k
          /\ k + 32 \in (m + 32)..(m + 39)
        BY <2>1, <2>3
    <2>5. rest \in SUBSET (0..(k + 31))
        BY <2>1, <2>3
    <2>6. left[k + 32] = Subtract(left[(k + 32) + 1], k + 32)
        BY <2>4
    <2>7. left[(k + 32) + 1] = SymDiff(Up(t[j], k + 1), rest)
        BY <2>4
    <2>8. left[k + 32] = SymDiff(Up(Reduce(t[j]), k), rest)
        BY <2>2, <2>5, <2>6, <2>7, SubtractWord
    <2> QED
        BY <1>2, <2>1, <2>2, <2>4, <2>8
<1>5. n \in S
    <2>1. S \in SUBSET (0..n) /\ n \in 0..n
        OBVIOUS
    <2> HIDE DEF S
    <2> QED
        BY <1>3, <1>4, <2>1, StepInduction
<1>6. m + 40 - n = m + 32 /\ m + 8 - n = m
    BY <1>2
<1> QED
    BY <1>1, <1>2, <1>5, <1>6

\* The coefficients of a buffer below a place.
Below(buffer, d) == {x \in Coefficients(buffer) : x < d}

\* A byte's coefficients are the byte, reflected, at its place, and no other byte has any there.
LEMMA CoefficientsOfByte ==
    ASSUME NEW buffer \in Seq(Byte), NEW i \in 1..Len(buffer),
           NEW m \in Nat, m = 8 * (Len(buffer) - i)
    PROVE  Below(buffer, m + 40) =
              SymDiff(Up(Reflect(buffer[i], 8), m + 32), Below(buffer, m + 32))
<1>1. PICK n \in Nat : n = Len(buffer)
    OBVIOUS
<1>2. \A k \in 1..n : buffer[k] \in SUBSET (0..7)
    BY <1>1 DEF Byte
<1>3. ASSUME NEW x \in Int
      PROVE  x \in Coefficients(buffer)
                <=> \E k \in 1..n, b \in 0..7 : b \in buffer[k] /\ x = 8 * (n - k) + 39 - b
    <2>1. \A k \in 1..n, b \in 0..7 : 8 * (n - k) + 7 - b + 32 = 8 * (n - k) + 39 - b
        OBVIOUS
    <2>2. DOMAIN buffer = 1..n
        BY <1>1
    <2>3. x \in Coefficients(buffer)
             <=> \E k \in 1..n, b \in 0..7 : b \in buffer[k] /\ x = 8 * (n - k) + 7 - b + 32
        <3>1. Coefficients(buffer) =
                 {8 * (n - p[1]) + 7 - p[2] + 32 :
                    p \in {q \in (1..n) \X (0..7) : q[2] \in buffer[q[1]]}}
            BY <1>1, <2>2, Zenon DEF Coefficients
        <3>2. ASSUME NEW k \in 1..n, NEW b \in 0..7, b \in buffer[k],
                     x = 8 * (n - k) + 7 - b + 32
              PROVE  x \in Coefficients(buffer)
            <4>1. <<k, b>> \in {q \in (1..n) \X (0..7) : q[2] \in buffer[q[1]]}
                BY <3>2
            <4>2. x = 8 * (n - <<k, b>>[1]) + 7 - <<k, b>>[2] + 32
                BY <3>2
            <4> QED
                BY <3>1, <4>1, <4>2, Zenon
        <3>3. ASSUME x \in Coefficients(buffer)
              PROVE  \E k \in 1..n, b \in 0..7 : b \in buffer[k] /\ x = 8 * (n - k) + 7 - b + 32
            <4>1. PICK p \in {q \in (1..n) \X (0..7) : q[2] \in buffer[q[1]]} :
                    x = 8 * (n - p[1]) + 7 - p[2] + 32
                BY <3>1, <3>3, Zenon
            <4>2. p[1] \in 1..n /\ p[2] \in 0..7 /\ p[2] \in buffer[p[1]]
                OBVIOUS
            <4> QED
                BY <4>1, <4>2
        <3> QED
            BY <3>2, <3>3
    <2> QED
        BY <2>1, <2>3
<1>4. Coefficients(buffer) \in SUBSET Int
    <2>1. DOMAIN buffer = 1..n
        BY <1>1
    <2> QED
        BY <1>1, <2>1 DEF Coefficients
<1>5. i \in 1..n /\ m = 8 * (n - i)
    BY <1>1
<1>6. ASSUME NEW x \in Int
      PROVE  x \in Up(Reflect(buffer[i], 8), m + 32)
                <=> x \in (m + 32)..(m + 39) /\ m + 39 - x \in buffer[i]
    <2>1. \A y \in Int : y \in Reflect(buffer[i], 8) <=> y \in 0..7 /\ 7 - y \in buffer[i]
        BY <1>2, <1>5 DEF Reflect
    <2>2. Reflect(buffer[i], 8) \in SUBSET Int
        BY <1>2, <1>5 DEF Reflect
    <2>3. \A y \in Reflect(buffer[i], 8) : y + (m + 32) = x <=> y = x - (m + 32)
        BY <2>2
    <2>4. x \in Up(Reflect(buffer[i], 8), m + 32) <=> x - (m + 32) \in Reflect(buffer[i], 8)
        BY <2>3 DEF Up
    <2>5. x - (m + 32) \in 0..7 <=> x \in (m + 32)..(m + 39)
        OBVIOUS
    <2>6. 7 - (x - (m + 32)) = m + 39 - x /\ x - (m + 32) \in Int
        OBVIOUS
    <2> QED
        BY <2>1, <2>4, <2>5, <2>6
<1>7. ASSUME NEW x \in (m + 32)..(m + 39)
      PROVE  x \in Coefficients(buffer) <=> m + 39 - x \in buffer[i]
    <2>1. ASSUME NEW k \in 1..n, NEW b \in 0..7, x = 8 * (n - k) + 39 - b
          PROVE  k = i /\ b = m + 39 - x
        BY <1>5, <2>1
    <2>2. PICK c \in 0..7 : c = m + 39 - x /\ x = 8 * (n - i) + 39 - c
        BY <1>5, m + 39 - x \in 0..7
    <2>3. ASSUME c \in buffer[i] PROVE x \in Coefficients(buffer)
        BY <1>3, <1>5, <2>2, <2>3, x \in Int
    <2>4. ASSUME x \in Coefficients(buffer) PROVE c \in buffer[i]
        <3>1. PICK k \in 1..n, b \in 0..7 : b \in buffer[k] /\ x = 8 * (n - k) + 39 - b
            BY <1>3, <2>4, x \in Int
        <3> QED
            BY <2>1, <2>2, <3>1
    <2> QED
        BY <2>2, <2>3, <2>4
<1>8. ASSUME NEW x \in Int
      PROVE  x \in Below(buffer, m + 40)
                <=> x \in SymDiff(Up(Reflect(buffer[i], 8), m + 32), Below(buffer, m + 32))
    <2>1. CASE x < m + 32
        <3>1. x \notin Up(Reflect(buffer[i], 8), m + 32)
            BY <1>6, <2>1
        <3>2. x \in Below(buffer, m + 40) <=> x \in Below(buffer, m + 32)
            BY <2>1 DEF Below
        <3> QED
            BY <3>1, <3>2, Zenon DEF SymDiff
    <2>2. CASE x \in (m + 32)..(m + 39)
        <3>1. x \notin Below(buffer, m + 32)
            BY <2>2 DEF Below
        <3>2. x \in Below(buffer, m + 40) <=> x \in Coefficients(buffer)
            BY <2>2 DEF Below
        <3>3. x \in Up(Reflect(buffer[i], 8), m + 32) <=> x \in Coefficients(buffer)
            BY <1>6, <1>7, <2>2
        <3> QED
            BY <3>1, <3>2, <3>3, Zenon DEF SymDiff
    <2>3. CASE x > m + 39
        <3>1. x \notin Up(Reflect(buffer[i], 8), m + 32)
            BY <1>6, <2>3
        <3>2. x \notin Below(buffer, m + 40) /\ x \notin Below(buffer, m + 32)
            BY <2>3 DEF Below
        <3> QED
            BY <3>1, <3>2, Zenon DEF SymDiff
    <2> QED
        BY <2>1, <2>2, <2>3
<1>9. /\ Below(buffer, m + 40) \in SUBSET Int
      /\ SymDiff(Up(Reflect(buffer[i], 8), m + 32), Below(buffer, m + 32)) \in SUBSET Int
    <2>1. Reflect(buffer[i], 8) \in SUBSET Int
        BY <1>2, <1>5 DEF Reflect
    <2>2. Up(Reflect(buffer[i], 8), m + 32) \in SUBSET Int
        BY <2>1 DEF Up
    <2> QED
        BY <1>4, <2>2 DEF SymDiff, Below
<1> QED
    BY <1>8, <1>9

\* A byte on top of a word: both are m places up, and one above the other.
LEMMA UpByte ==
    ASSUME NEW w \in Word, NEW byte \in Byte, NEW m \in Nat, NEW rest \in SUBSET Int
    PROVE  SymDiff(Up(w, m + 8), SymDiff(Up(Reflect(byte, 8), m + 32), rest)) =
              SymDiff(Up(SymDiff(w, ShiftLeft(Reflect(byte, 8), 24)), m + 8), rest)
<1>1. w \in SUBSET (0..31) /\ Reflect(byte, 8) \in SUBSET (0..7)
    BY DEF Word, AllOnes, Reflect
<1> DEFINE r == Reflect(byte, 8)
           h == ShiftLeft(r, 24)
<1>2. h \in SUBSET (24..31) /\ \A y \in Int : y \in h <=> y - 24 \in r
    BY <1>1 DEF ShiftLeft, AllOnes
<1>3. r \in SUBSET (0..7)
    BY <1>1
<1> HIDE DEF h, r
<1>4. SymDiff(w, h) \in SUBSET (0..31)
    BY <1>1, <1>2 DEF SymDiff
<1>5. ASSUME NEW v \in SUBSET Int, NEW k \in Int, NEW x \in Int
      PROVE  x \in Up(v, k) <=> x - k \in v
    <2>1. \A b \in v : b + k = x <=> b = x - k
        OBVIOUS
    <2> QED
        BY <2>1 DEF Up
<1>6. ASSUME NEW x \in Int
      PROVE  x \in SymDiff(Up(w, m + 8), SymDiff(Up(r, m + 32), rest))
                <=> x \in SymDiff(Up(SymDiff(w, h), m + 8), rest)
    <2>1. x \in Up(w, m + 8) <=> x - (m + 8) \in w
        BY <1>1, <1>5
    <2>2. x \in Up(r, m + 32) <=> x - (m + 32) \in r
        BY <1>3, <1>5
    <2>3. x \in Up(SymDiff(w, h), m + 8) <=> x - (m + 8) \in SymDiff(w, h)
        BY <1>4, <1>5
    <2>4. x - (m + 8) \in h <=> x - (m + 32) \in r
        <3>1. x - (m + 8) \in Int /\ (x - (m + 8)) - 24 = x - (m + 32)
            OBVIOUS
        <3> QED
            BY <1>2, <3>1
    <2> QED
        BY <2>1, <2>2, <2>3, <2>4, Zenon DEF SymDiff
<1>7. /\ SymDiff(Up(w, m + 8), SymDiff(Up(r, m + 32), rest)) \in SUBSET Int
      /\ SymDiff(Up(SymDiff(w, h), m + 8), rest) \in SUBSET Int
    <2>1. /\ Up(w, m + 8) \in SUBSET Int /\ Up(r, m + 32) \in SUBSET Int
          /\ Up(SymDiff(w, h), m + 8) \in SUBSET Int
        BY <1>1, <1>3, <1>4 DEF Up
    <2> QED
        BY <2>1 DEF SymDiff
<1> QED
    BY <1>6, <1>7 DEF r, h

\* The table-driven sum of a buffer of any length is the complement of the remainder: behind
\* each byte, what is left of the buffer is the sum, reflected, on top of the bytes behind.
LEMMA SumIsRemainder ==
    ASSUME NEW buffer \in Seq(Byte)
    PROVE  Get_CRC(buffer) = RemainderSum(buffer)
<1>1. PICK n \in Nat : n = Len(buffer)
    OBVIOUS
<1>2. PICK top \in Nat : top = 8 * n
    OBVIOUS
<1>3. PICK left : /\ left[top + 32] = SymDiff(Coefficients(buffer), top..(top + 31))
                  /\ \A d \in 32..(top + 31) : left[d] = Subtract(left[d + 1], d)
                  /\ left[32] = Remainder(buffer)
    BY <1>1, <1>2, DivisionTurns
<1> DEFINE s == Sums(buffer)
<1>4. /\ s \in [0..n -> Word] /\ s[0] = AllOnes
      /\ \A i \in 1..n : s[i] = Absorb(s[i - 1], buffer[i])
    BY <1>1, SumsTurns
<1>5. \A i \in 1..n : buffer[i] \in Byte
    BY <1>1
<1> HIDE DEF s
<1>6. \A w \in Word : Reflect(w, 32) \in Word /\ Reflect(Reflect(w, 32), 32) = w
    BY ReflectWord
<1>7. \A x \in Coefficients(buffer) : x \in Int /\ 32 <= x /\ x < top + 32
    <2>1. DOMAIN buffer = 1..n /\ \A k \in 1..n : 8 * (n - k) \in 0..(8 * n - 8)
        BY <1>1
    <2>2. \A k \in 1..n, b \in 0..7 :
             LET x == 8 * (n - k) + 7 - b + 32 IN x \in Int /\ 32 <= x /\ x < top + 32
        BY <1>2, <2>1
    <2> QED
        <3> SUFFICES ASSUME NEW x \in Coefficients(buffer)
                     PROVE  x \in Int /\ 32 <= x /\ x < top + 32
            OBVIOUS
        <3>1. PICK p \in {q \in (1..n) \X (0..7) : q[2] \in buffer[q[1]]} :
                x = 8 * (n - p[1]) + 7 - p[2] + 32
            BY <1>1, <2>1, Zenon DEF Coefficients
        <3>2. p[1] \in 1..n /\ p[2] \in 0..7
            OBVIOUS
        <3> QED
            BY <2>2, <3>1, <3>2
<1> DEFINE Rest(i) == Below(buffer, 8 * (n - i) + 32)
           S == {i \in 0..n :
                   left[8 * (n - i) + 32] = SymDiff(Up(Reflect(s[i], 32), 8 * (n - i)), Rest(i))}
<1>8. 0 \in S
    <2>1. 8 * (n - 0) = top
        BY <1>2
    <2>2. Rest(0) = Coefficients(buffer)
        BY <1>7, <2>1 DEF Below
    <2>3. Reflect(s[0], 32) = 0..31
        <3>1. \A b \in 0..31 : b \in Reflect(0..31, 32)
            <4>1. \A b \in 0..31 : 31 - b \in 0..31 /\ 32 - 1 - (31 - b) = b
                OBVIOUS
            <4> QED
                BY <4>1 DEF Reflect
        <3>2. Reflect(0..31, 32) \in SUBSET (0..31)
            BY DEF Reflect
        <3> QED
            BY <1>4, <3>1, <3>2 DEF AllOnes
    <2>4. Up(0..31, top) = top..(top + 31)
        <3>1. \A x \in top..(top + 31) : x - top \in 0..31 /\ (x - top) + top = x
            OBVIOUS
        <3>2. \A b \in 0..31 : b + top \in top..(top + 31)
            OBVIOUS
        <3>3. ASSUME NEW x \in top..(top + 31) PROVE x \in Up(0..31, top)
            BY <3>1, Zenon DEF Up
        <3>4. ASSUME NEW x \in Up(0..31, top) PROVE x \in top..(top + 31)
            BY <3>2 DEF Up
        <3> QED
            BY <3>3, <3>4
    <2>5. SymDiff(Coefficients(buffer), top..(top + 31)) =
             SymDiff(top..(top + 31), Coefficients(buffer))
        BY DEF SymDiff
    <2>6. left[8 * (n - 0) + 32] = SymDiff(Up(Reflect(s[0], 32), 8 * (n - 0)), Rest(0))
        BY <1>3, <2>1, <2>2, <2>3, <2>4, <2>5, Zenon
    <2> QED
        BY <2>6
<1>9. ASSUME NEW j \in S, j < n PROVE j + 1 \in S
    <2>1. PICK i \in 1..n : i = j + 1 /\ i - 1 = j /\ j \in 0..n
        BY <1>9
    <2>2. PICK m \in Nat : m = 8 * (n - i)
        BY <2>1
    <2>3. 8 * (n - j) = m + 8 /\ m + 8 + 32 = m + 40 /\ m + 39 <= top + 31 /\ 32 <= m + 32
        BY <1>2, <2>1, <2>2
    <2>4. s[j] \in Word /\ s[i] = Absorb(s[j], buffer[i]) /\ buffer[i] \in Byte
        BY <1>4, <1>5, <2>1
    <2> DEFINE T == SymDiff(Reflect(s[j], 32), ShiftLeft(Reflect(buffer[i], 8), 24))
    <2>5. Reflect(s[i], 32) = Reduced(T)
        BY <2>4, AbsorbReflected
    <2>6. T \in Word
        <3>1. ShiftLeft(Reflect(buffer[i], 8), 24) \in Word
            BY DEF ShiftLeft, Word, AllOnes
        <3> QED
            BY <1>6, <2>4, <3>1, SymDiffWord
    <2>7. left[m + 40] = SymDiff(Up(T, m + 8), Below(buffer, m + 32))
        <3>1. left[m + 40] = SymDiff(Up(Reflect(s[j], 32), m + 8), Below(buffer, m + 40))
            BY <2>3
        <3>2. Below(buffer, m + 40) =
                 SymDiff(Up(Reflect(buffer[i], 8), m + 32), Below(buffer, m + 32))
            BY <1>1, <2>1, <2>2, CoefficientsOfByte
        <3>3. Below(buffer, m + 32) \in SUBSET Int
            BY <1>7 DEF Below
        <3>4. Reflect(s[j], 32) \in Word
            BY <1>6, <2>4
        <3> QED
            BY <2>4, <3>1, <3>2, <3>3, <3>4, UpByte
    <2>8. Below(buffer, m + 32) \in SUBSET (0..(m + 31))
        BY <1>7 DEF Below
    <2>9. \A d \in (m + 32)..(m + 39) : left[d] = Subtract(left[d + 1], d)
        BY <1>3, <2>3
    <2> HIDE DEF T
    <2>10. left[m + 32] = SymDiff(Up(Reduced(T), m), Below(buffer, m + 32))
        BY <2>6, <2>7, <2>8, <2>9, SubtractByte
    <2> QED
        BY <2>1, <2>2, <2>5, <2>10
<1>10. left[32] = SymDiff(Up(Reflect(s[n], 32), 0), {})
    <2>1. S \in SUBSET (0..n) /\ n \in 0..n
        OBVIOUS
    <2> HIDE DEF S
    <2>2. n \in S
        BY <1>8, <1>9, <2>1, StepInduction
    <2>3. 8 * (n - n) = 0 /\ 0 + 32 = 32
        OBVIOUS
    <2>4. Rest(n) = {}
        BY <1>7, <2>3 DEF Below
    <2> QED
        BY <2>2, <2>3, <2>4 DEF S
<1>11. Remainder(buffer) = Reflect(s[n], 32)
    <2>1. s[n] \in Word
        BY <1>4
    <2>2. Reflect(s[n], 32) \in SUBSET Int
        <3>1. Reflect(s[n], 32) \in Word
            BY <1>6, <2>1
        <3>2. \A w \in Word : w \in SUBSET Int
            BY DEF Word, AllOnes
        <3> QED
            BY <3>1, <3>2
    <2>3. \A b \in Reflect(s[n], 32) : b + 0 = b
        BY <2>2
    <2>4. Up(Reflect(s[n], 32), 0) = Reflect(s[n], 32)
        BY <2>3 DEF Up
    <2> QED
        BY <1>3, <1>10, <2>4 DEF SymDiff
<1>12. Reflect(Remainder(buffer), 32) = s[n]
    BY <1>4, <1>6, <1>11
<1> QED
    BY <1>1, <1>12 DEF Get_CRC, RemainderSum, s

-----------------------------------------------------------------------------
(* What reaches a handler.                                                 *)

\* A body that has passed the first check is handed on as it was received, and has the sum
\* declared for it; of one of 8 bytes nothing is handed on.
Checked ==
    /\ sent \in Seq(Byte) /\ pkg.body \in Received(sent)
    /\ at \in {"verified", "current", "handled"} =>
          \/ pPkgBody = NULL
          \/ pPkgBody = pkg.body /\ pkg.crc32 = Get_CRC(pkg.body)

\* A packet is posted as it was received.
LEMMA InitChecked == Init => Checked
BY LogicAssumption DEF Init, Packet, Checked

\* Every check keeps what is known of the body.
LEMMA StepChecked == Checked /\ [Next]_vars => Checked'
<1> SUFFICES ASSUME Checked, [Next]_vars PROVE Checked'
    OBVIOUS
<1> USE DEF Checked
<1>1. CASE Verify
    BY <1>1 DEF Verify
<1>2. CASE CheckSequence
    BY <1>2 DEF CheckSequence
<1>3. CASE Dispatch
    BY <1>3 DEF Dispatch
<1>4. CASE GiveUp
    BY <1>4 DEF GiveUp
<1>5. CASE UNCHANGED vars
    BY <1>5 DEF vars
<1> QED
    BY <1>1, <1>2, <1>3, <1>4, <1>5 DEF Next, threadRecvProcFunc

\* A body received with the sum of the body sent is the body sent.
LEMMA SameSum ==
    ASSUME sent \in Seq(Byte), NEW body \in Received(sent), Get_CRC(body) = Get_CRC(sent)
    PROVE  body = sent
<1>1. ASSUME NEW i \in DOMAIN sent, NEW e \in Errors, body = [sent EXCEPT ![i] = SymDiff(@, e)]
      PROVE  FALSE
    <2>1. e \in Byte /\ e # {} /\ sent[i] \in Byte
        BY LogicAssumption
    <2>2. SymDiff(sent[i], e) \in Byte /\ SymDiff(sent[i], e) # sent[i]
        BY <2>1 DEF SymDiff, Byte
    <2> QED
        BY <1>1, <2>2, ChangeDetected
<1> QED
    BY <1>1 DEF Received

\* For every set of bodies, whatever their length, and every set of errors: a body that was
\* changed on the way reaches no handler when its client declared its sum, because no change
\* of a byte leaves the sum as it was.
THEOREM IntactBodies == Spec => []OnlyIntactHandled
<1>1. Checked => OnlyIntactHandled
    BY SameSum DEF Checked, OnlyIntactHandled
<1> QED
    BY InitChecked, StepChecked, <1>1, PTL DEF Spec

\* For every set of bodies, whatever their length, as sent and with any byte changed: what
\* Get_CRC makes with its table is the remainder of the division that CRC-32 is defined by.
THEOREM SumsAreRemainders == Spec => []CrcIsRemainder
<1>1. Checked => CrcIsRemainder
    <2> SUFFICES ASSUME Checked PROVE CrcIsRemainder
        OBVIOUS
    <2>1. sent \in Seq(Byte) /\ pkg.body \in Received(sent)
        BY DEF Checked
    <2>2. ASSUME NEW i \in DOMAIN sent, NEW e \in Errors
          PROVE  [sent EXCEPT ![i] = SymDiff(@, e)] \in Seq(Byte)
        <3>1. SymDiff(sent[i], e) \in Byte
            BY <2>1, LogicAssumption DEF SymDiff, Byte
        <3> QED
            BY <2>1, <3>1
    <2>3. pkg.body \in Seq(Byte)
        BY <2>1, <2>2 DEF Received
    <2> QED
        BY <2>1, <2>3, SumIsRemainder DEF CrcIsRemainder
<1> QED
    BY InitChecked, StepChecked, <1>1, PTL DEF Spec
=============================================================================
