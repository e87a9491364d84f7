--------------------------- MODULE SendQueueProofs ---------------------------
(***************************************************************************)
(* The send queue for any number of connections, messages and pieces: the   *)
(* counters follow the list, no message for a connected client that reads   *)
(* is lost, and what such a client receives are whole messages, though the  *)
(* send thread and the event loop write them in turn.  All of it rests on   *)
(* what iThrowsendCount means for such a client, in AtWork.                 *)
(***************************************************************************)
EXTENDS SendQueue, TLAPS, FiniteSetTheorems, SequenceTheorems

-----------------------------------------------------------------------------
(* What push_back and erase do to the set of the elements of a list.        *)

\* No element is in the list twice.
NoRepeats(q) == \A i, j \in 1..Len(q) : q[i] = q[j] => i = j

\* Appending what is not there.
LEMMA AppendSet ==
    ASSUME NEW S, NEW q \in Seq(S), NEW e \in S
    PROVE  /\ Append(q, e) \in Seq(S) /\ Len(Append(q, e)) = Len(q) + 1
           /\ ToSet(Append(q, e)) = ToSet(q) \cup {e}
           /\ NoRepeats(q) /\ e \notin ToSet(q) => NoRepeats(Append(q, e))
<1>1. /\ Append(q, e) \in Seq(S) /\ Len(Append(q, e)) = Len(q) + 1
      /\ \A i \in 1..Len(q) : Append(q, e)[i] = q[i]
      /\ Append(q, e)[Len(q) + 1] = e
    BY AppendProperties
<1>2. DOMAIN q = 1..Len(q) /\ DOMAIN Append(q, e) = 1..(Len(q) + 1) /\ Len(q) \in Nat
    BY <1>1, LenProperties
<1>3. ToSet(Append(q, e)) = ToSet(q) \cup {e}
    BY <1>1, <1>2 DEF ToSet
<1>4. ASSUME NoRepeats(q), e \notin ToSet(q) PROVE NoRepeats(Append(q, e))
    BY <1>1, <1>2, <1>4 DEF ToSet, NoRepeats
<1> QED
    BY <1>1, <1>3, <1>4

\* Taking the element at one place.
LEMMA RemoveSet ==
    ASSUME NEW S, NEW q \in Seq(S), NEW p \in 1..Len(q)
    PROVE  /\ RemoveAt(q, p) \in Seq(S) /\ Len(RemoveAt(q, p)) = Len(q) - 1
           /\ q[p] \in ToSet(q) /\ q[p] \in S
           /\ ToSet(q) \ {q[p]} \subseteq ToSet(RemoveAt(q, p))
           /\ NoRepeats(q) => /\ ToSet(RemoveAt(q, p)) = ToSet(q) \ {q[p]}
                              /\ NoRepeats(RemoveAt(q, p))
<1> DEFINE a == SubSeq(q, 1, p - 1)
           b == SubSeq(q, p + 1, Len(q))
           r == RemoveAt(q, p)
<1>1. DOMAIN q = 1..Len(q) /\ Len(q) \in Nat /\ \A i \in 1..Len(q) : q[i] \in S
    BY LenProperties, ElementOfSeq
<1>2. a \in Seq(S) /\ Len(a) = p - 1 /\ \A i \in 1..(p - 1) : a[i] = q[i]
  <2>1. \A i \in 1..(p - 1) : q[i] \in S
    BY <1>1
  <2>2. /\ a \in Seq(S)
        /\ Len(a) = IF 1 <= p - 1 THEN (p - 1) - 1 + 1 ELSE 0
        /\ \A i \in 1..((p - 1) - 1 + 1) : a[i] = q[1 + i - 1]
    BY <1>1, <2>1, SubSeqProperties
  <2> QED
    BY <1>1, <2>2
<1>3. b \in Seq(S) /\ Len(b) = Len(q) - p /\ \A i \in 1..(Len(q) - p) : b[i] = q[p + i]
  <2>1. \A i \in (p + 1)..Len(q) : q[i] \in S
    BY <1>1
  <2>2. /\ b \in Seq(S)
        /\ Len(b) = IF p + 1 <= Len(q) THEN Len(q) - (p + 1) + 1 ELSE 0
        /\ \A i \in 1..(Len(q) - (p + 1) + 1) : b[i] = q[(p + 1) + i - 1]
    BY <1>1, <2>1, SubSeqProperties
  <2> HIDE DEF b
  <2>3. Len(b) = Len(q) - p
    <3>1. CASE p + 1 <= Len(q)
      BY <1>1, <2>2, <3>1
    <3>2. CASE ~(p + 1 <= Len(q))
      <4>1. p \in Nat /\ Len(q) \in Nat /\ p <= Len(q)
        BY <1>1
      <4>2. Len(q) = p
        BY <3>2, <4>1
      <4> QED
        BY <2>2, <3>2, <4>1, <4>2
    <3> QED
      BY <3>1, <3>2
  <2>4. ASSUME NEW i \in 1..(Len(q) - p) PROVE b[i] = q[p + i]
    <3>1. (p + 1) + i - 1 = p + i /\ i \in 1..(Len(q) - (p + 1) + 1)
      BY <1>1
    <3> QED
      BY <2>2, <3>1
  <2> QED
    BY <2>2, <2>3, <2>4
<1>4. /\ r \in Seq(S) /\ Len(r) = Len(q) - 1
      /\ \A i \in 1..(Len(q) - 1) : r[i] = IF i < p THEN q[i] ELSE q[i + 1]
  <2>1. r = a \o b
    BY DEF RemoveAt
  <2> HIDE DEF a, b, r
  <2>2. /\ r \in Seq(S) /\ Len(r) = Len(a) + Len(b)
        /\ \A i \in 1..(Len(a) + Len(b)) : r[i] = IF i <= Len(a) THEN a[i] ELSE b[i - Len(a)]
    BY <1>2, <1>3, <2>1, ConcatProperties
  <2>3. Len(r) = Len(q) - 1
    BY <1>1, <1>2, <1>3, <2>2
  <2>4. \A i \in 1..(Len(q) - 1) : r[i] = IF i <= p - 1 THEN a[i] ELSE b[i - (p - 1)]
    BY <1>1, <1>2, <1>3, <2>2
  <2>5. ASSUME NEW i \in 1..(Len(q) - 1) PROVE r[i] = IF i < p THEN q[i] ELSE q[i + 1]
    <3>1. CASE i < p
      <4>1. i <= p - 1 /\ i \in 1..(p - 1)
        BY <1>1, <3>1
      <4> QED
        BY <1>2, <2>4, <3>1, <4>1
    <3>2. CASE ~(i < p)
      <4>1. i - (p - 1) \in 1..(Len(q) - p) /\ p + (i - (p - 1)) = i + 1 /\ ~(i <= p - 1)
        BY <1>1, <3>2
      <4>2. b[i - (p - 1)] = q[i + 1]
        BY <1>3, <4>1
      <4> QED
        BY <2>4, <3>2, <4>1, <4>2
    <3> QED
      BY <3>1, <3>2
  <2> QED
    BY <2>2, <2>3, <2>5
<1> HIDE DEF a, b, r
<1>5. DOMAIN r = 1..(Len(q) - 1)
    BY <1>4, LenProperties
<1>6. q[p] \in ToSet(q) /\ q[p] \in S
    BY <1>1 DEF ToSet
<1>7. ToSet(q) \ {q[p]} \subseteq ToSet(r)
  <2> SUFFICES ASSUME NEW x \in ToSet(q) \ {q[p]} PROVE x \in ToSet(r)
    OBVIOUS
  <2>1. PICK i \in 1..Len(q) : x = q[i]
    BY <1>1 DEF ToSet
  <2>2. CASE i < p
    BY <1>1, <1>4, <1>5, <2>1, <2>2 DEF ToSet
  <2>3. CASE i > p
    <3>1. i - 1 \in 1..(Len(q) - 1) /\ r[i - 1] = q[i]
      BY <1>1, <1>4, <2>3
    <3> QED
      BY <1>5, <2>1, <3>1 DEF ToSet
  <2> QED
    BY <1>1, <2>1, <2>2, <2>3
<1>8. ASSUME NoRepeats(q) PROVE ToSet(r) \subseteq ToSet(q) \ {q[p]}
  <2> SUFFICES ASSUME NEW x \in ToSet(r) PROVE x \in ToSet(q) \ {q[p]}
    OBVIOUS
  <2>1. PICK i \in 1..(Len(q) - 1) : x = r[i]
    BY <1>5 DEF ToSet
  <2>2. PICK j \in 1..Len(q) : x = q[j] /\ j # p
    BY <1>1, <1>4, <2>1
  <2> QED
    BY <1>1, <1>8, <2>2 DEF ToSet, NoRepeats
<1>9. ASSUME NoRepeats(q) PROVE NoRepeats(r)
  <2> SUFFICES ASSUME NEW i \in 1..(Len(q) - 1), NEW j \in 1..(Len(q) - 1), r[i] = r[j]
               PROVE  i = j
    BY <1>4 DEF NoRepeats
  <2>1. (IF i < p THEN i ELSE i + 1) = (IF j < p THEN j ELSE j + 1)
    BY <1>1, <1>4, <1>9 DEF NoRepeats
  <2> QED
    BY <1>1, <2>1
<1> QED
    BY <1>4, <1>6, <1>7, <1>8, <1>9 DEF r

\* A list without repetition has as many elements as places.
LEMMA NoRepeatsCardinality ==
    ASSUME NEW S, NEW q \in Seq(S), NoRepeats(q)
    PROVE  IsFiniteSet(ToSet(q)) /\ Cardinality(ToSet(q)) = Len(q)
<1>1. DOMAIN q = 1..Len(q) /\ Len(q) \in Nat /\ q \in [1..Len(q) -> S]
    BY LenProperties
<1>2. q \in Bijection(1..Len(q), ToSet(q))
    BY <1>1 DEF ToSet, NoRepeats, Bijection, Injection, Surjection, IsInjective
<1>3. IsFiniteSet(1..Len(q)) /\ Cardinality(1..Len(q)) = Len(q)
  <2>1. PICK n \in Nat : n = Len(q)
    BY <1>1
  <2>2. /\ IsFiniteSet(1..n)
        /\ Cardinality(1..n) = IF 1 > n THEN 0 ELSE n - 1 + 1
    BY FS_Interval
  <2> QED
    BY <2>1, <2>2
<1>4. ExistsBijection(1..Len(q), ToSet(q))
    BY <1>2 DEF ExistsBijection
<1> QED
    BY <1>3, <1>4, FS_Bijection

-----------------------------------------------------------------------------
(* The inductive invariant.                                                *)

\* Messages are numbered as they are given to sendMsg, no message is in the list twice, and
\* a message made for an earlier use of its connection has an earlier number.
Numbers ==
    /\ Len(stamp) = Len(conn) /\ Len(conn) <= MaxMsgs
    /\ NoRepeats(queue) /\ ToSet(queue) \subseteq 1..Len(conn)
    /\ \A c \in Conns : seq[c] # 0
    /\ \A m \in 1..Len(conn) :
          /\ stamp[m] <= seq[conn[m]]
          /\ life[conn[m]] \in {"recy", "free"} => stamp[m] < seq[conn[m]]

\* Each thread has a connection in hand exactly on the stretch it works on a message, and the
\* connection does not go back to the pool meanwhile.
Hands ==
    /\ p_Conn = NoConn <=> sender \in {"wait", "scan"}
    /\ handled = NoConn <=> main = "epoll"
    /\ p_Conn # NoConn => life[p_Conn] # "free"
    /\ handled # NoConn => life[handled] # "free"

\* EPOLLOUT goes with the socket.
Sockets ==
    \A c \in Conns :
        /\ life[c] = "open" => (calm[c] <=> peer[c] = "up")
        /\ epollout[c] => life[c] = "open"

\* The client is connected and reads as far as the event loop can know: if it has sent a
\* FIN, then after the events at hand were collected.
Reads(c) == life[c] = "open" /\ peer[c] \in {"up", "fin"}

\* What a connection is writing or has written is in the list no more, and what it is
\* writing was made for it.
Taken ==
    \A c \in Conns :
        /\ psendMem[c] # NoMsg => /\ psendMem[c] \in 1..Len(conn) \ ToSet(queue)
                                  /\ conn[psendMem[c]] = c
        /\ \A i \in 1..Len(wire[c]) : wire[c][i][1] \in 1..Len(conn) \ ToSet(queue)

\* What iThrowsendCount means for a client that reads: between two messages, that the event
\* loop has the rest of one; it is already 1 when the send thread is about to register
\* EPOLLOUT, and still 1 when the event loop has freed the message.
Writing(c) ==
    /\ iThrowsendCount[c] \in {0, 1}
    /\ c = p_Conn =>
          /\ c # handled /\ psendMem[c] # NoMsg /\ ~epollout[c]
          /\ iThrowsendCount[c] = 1 <=> sender = "register"
          /\ sender = "settle" /\ result = "all" => isendlen[c] = 0
    /\ c = handled => psendMem[c] = NoMsg /\ ~epollout[c] /\ iThrowsendCount[c] = 1
    /\ Settled(c) =>
          /\ iThrowsendCount[c] = 1 <=> psendMem[c] # NoMsg
          /\ iThrowsendCount[c] = 1 <=> epollout[c]

\* And the send thread sees it when the client is gone.
AtWork ==
    /\ sender = "send" => psendMem[p_Conn] # NoMsg \/ peer[p_Conn] = "gone"
    /\ sender = "settle" /\ result = "error" => ~Reads(p_Conn)
    /\ \A c \in Conns : Reads(c) => Writing(c)

\* The parts of WireOfWholeMessages; and of the message k pieces of which are written no
\* other piece has reached the wire, which ends with them.
Chain(w) == \A i \in 1..(Len(w) - 1) : Follows(w[i], w[i + 1])
First(w) == w # <<>> => w[1][2] = 1
Finished(w) == w # <<>> => w[Len(w)][2] = MsgLen
Upto(w, m, k) ==
    /\ \A i \in 1..Len(w) : w[i][1] = m => w[i][2] <= k
    /\ IF k = 0 THEN Finished(w) ELSE w # <<>> /\ w[Len(w)] = <<m, k>>

Whole(c) ==
    /\ Chain(wire[c]) /\ First(wire[c]) /\ NoRepeats(wire[c])
    /\ IF psendMem[c] = NoMsg THEN Finished(wire[c])
       ELSE Upto(wire[c], psendMem[c], MsgLen - isendlen[c])

Pieces == \A c \in Conns : Reads(c) => Whole(c)

\* The second part of NoneLost, for these clients.
Kept ==
    \A m \in 1..Len(conn) :
        (Reads(conn[m]) /\ stamp[m] = seq[conn[m]]) =>
            IF m \in freed THEN m \in refused \/ Written(m)
            ELSE m \in ToSet(queue) \/ psendMem[conn[m]] = m

\* Only messages given to sendMsg are freed.
Given == freed \subseteq 1..Len(conn)

SendInv ==
    /\ TypeOK /\ Numbers /\ Hands /\ Sockets /\ Taken /\ AtWork /\ Pieces /\ Kept
    /\ Given /\ QueueCounted

-----------------------------------------------------------------------------
(* Writing.                                                                *)

Piece == Ids \X (1..MsgLen)

\* n pieces p behind what is written.
LEMMA WriteAppends ==
    ASSUME NEW w \in Seq(Piece), NEW n \in Nat, NEW p \in [1..n -> Piece]
    PROVE  /\ w \o p \in Seq(Piece) /\ Len(w \o p) = Len(w) + n
           /\ \A i \in 1..Len(w) : (w \o p)[i] = w[i]
           /\ \A j \in 1..n : (w \o p)[Len(w) + j] = p[j]
<1> DEFINE v == w \o p
<1>1. p \in Seq(Piece) /\ Len(p) = n
    OBVIOUS
<1>2. /\ v \in Seq(Piece) /\ Len(v) = Len(w) + n
      /\ \A i \in 1..(Len(w) + n) : v[i] = IF i <= Len(w) THEN w[i] ELSE p[i - Len(w)]
    BY <1>1, ConcatProperties
<1> HIDE DEF v
<1>3. Len(w) \in Nat
    BY LenProperties
<1>4. \A i \in 1..Len(w) : v[i] = w[i]
    BY <1>2, <1>3
<1>5. ASSUME NEW j \in 1..n PROVE v[Len(w) + j] = p[j]
  <2>1. /\ Len(w) + j \in 1..(Len(w) + n) /\ ~(Len(w) + j <= Len(w))
        /\ (Len(w) + j) - Len(w) = j
    BY <1>3
  <2> QED
    BY <1>2, <2>1
<1> QED
    BY <1>2, <1>4, <1>5 DEF v

\* The next n pieces of a message, after the k that are written, continue the wire as it is.
LEMMA WriteExtends ==
    ASSUME NEW w \in Seq(Piece), NEW m \in Ids, NEW k \in Nat, NEW n \in Nat \ {0},
           k + n <= MsgLen, Chain(w), First(w), NoRepeats(w), Upto(w, m, k),
           NEW v \in Seq(Piece), Len(v) = Len(w) + n,
           \A i \in 1..Len(w) : v[i] = w[i],
           \A j \in 1..n : v[Len(w) + j] = <<m, k + j>>
    PROVE  Chain(v) /\ First(v) /\ NoRepeats(v) /\ Upto(v, m, k + n)
<1> DEFINE l == Len(w)
<1>1. MsgLen \in Nat \ {0}
    BY SendAssumption
<1>2. \A i \in 1..l : w[i] \in Piece
    BY LenProperties, ElementOfSeq
<1>3. l \in Nat
    BY LenProperties
<1>4. Len(v) = l + n
    OBVIOUS
<1>5. \A i \in 1..l : v[i] = w[i]
    OBVIOUS
<1>6. \A j \in 1..n : v[l + j] = <<m, k + j>>
    OBVIOUS
<1> HIDE DEF l
\* A place is one of w's, or the j-th behind them.
<1>7. \A i \in 1..(l + n) : i \in 1..l \/ \E j \in 1..n : i = l + j
  <2> SUFFICES ASSUME NEW i \in 1..(l + n), ~(i \in 1..l) PROVE \E j \in 1..n : i = l + j
    OBVIOUS
  <2>1. i - l \in 1..n /\ i = l + (i - l)
    BY <1>3
  <2> QED
    BY <2>1
<1>8. (w # <<>> <=> l # 0) /\ v # <<>>
  <2>1. w # <<>> <=> l # 0
    BY EmptySeq DEF l
  <2>2. v # <<>>
    <3>1. Len(v) # 0
      BY <1>3, <1>4
    <3> QED
      BY <3>1, EmptySeq
  <2> QED
    BY <2>1, <2>2
<1>9. \A i \in 1..l : w[i][1] = m => w[i][2] <= k /\ w[i][2] \in 1..MsgLen
    BY <1>2 DEF Upto, l, Piece
<1>10. ASSUME NEW x \in Nat, x < MsgLen PROVE Follows(<<m, x>>, <<m, x + 1>>)
    BY <1>10 DEF Follows
<1>11. ASSUME NEW a, a[1] # m, a[2] = MsgLen PROVE Follows(a, <<m, 1>>)
    BY <1>1, <1>11 DEF Follows
<1>12. Chain(v)
  <2> SUFFICES ASSUME NEW i \in 1..(Len(v) - 1) PROVE Follows(v[i], v[i + 1])
    BY DEF Chain
  <2>1. i \in 1..(l + n - 1)
    BY <1>3 DEF l
  <2>2. CASE i < l
    <3>1. i \in 1..l /\ i + 1 \in 1..l /\ i \in 1..(l - 1)
      BY <1>3, <2>1, <2>2
    <3>2. Follows(w[i], w[i + 1])
      BY <3>1 DEF Chain, l
    <3> QED
      BY <1>5, <3>1, <3>2
  <2>3. CASE i = l
    <3>1. l \in 1..l /\ 1 \in 1..n /\ l # 0
      BY <1>3, <2>1, <2>3
    <3>2. v[l] = w[l] /\ v[l + 1] = <<m, k + 1>>
      BY <1>5, <1>6, <3>1
    <3>3. CASE k = 0
      <4>1. w[l][2] = MsgLen
        BY <1>8, <3>1, <3>3 DEF Upto, Finished, l
      <4>2. w[l][1] # m
        <5>1. ~(MsgLen <= 0)
          BY <1>1
        <5> QED
          BY <1>9, <3>1, <3>3, <4>1, <5>1
      <4>3. k + 1 = 1
        BY <3>3
      <4> QED
        BY <1>11, <2>3, <3>2, <4>1, <4>2, <4>3
    <3>4. CASE k # 0
      <4>1. w[l] = <<m, k>> /\ k < MsgLen
        BY <1>1, <3>4 DEF Upto, l
      <4> QED
        BY <1>10, <2>3, <3>2, <4>1
    <3> QED
      BY <3>3, <3>4
  <2>4. CASE i > l
    <3>1. i \in 1..(l + n) /\ ~(i \in 1..l)
      BY <1>3, <2>1, <2>4
    <3>2. PICK j \in 1..n : i = l + j
      BY <1>7, <3>1
    <3>3. j + 1 \in 1..n /\ i + 1 = l + (j + 1) /\ k + (j + 1) = (k + j) + 1
      BY <1>3, <2>1, <3>2
    <3>4. k + j \in Nat /\ k + j < MsgLen
      BY <1>1, <3>3
    <3>5. v[i] = <<m, k + j>> /\ v[i + 1] = <<m, (k + j) + 1>>
      BY <1>6, <3>2, <3>3
    <3> QED
      BY <1>10, <3>4, <3>5
  <2> QED
    BY <1>3, <2>1, <2>2, <2>3, <2>4
<1>13. First(v)
  <2>1. CASE l = 0
    <3>1. k = 0 /\ 1 \in 1..n /\ l + 1 = 1 /\ k + 1 = 1
      BY <1>8, <2>1 DEF Upto
    <3>2. v[1] = <<m, 1>>
      BY <1>6, <3>1
    <3> QED
      BY <3>2 DEF First
  <2>2. CASE l # 0
    <3>1. 1 \in 1..l
      BY <1>3, <2>2
    <3> QED
      BY <1>5, <1>8, <2>2, <3>1 DEF First
  <2> QED
    BY <2>1, <2>2
<1>14. NoRepeats(v)
  <2>1. ASSUME NEW i \in 1..l, NEW j \in 1..n, v[i] = v[l + j] PROVE FALSE
    <3>1. w[i] = <<m, k + j>>
      BY <1>5, <1>6, <2>1
    <3>2. w[i][1] = m /\ w[i][2] = k + j
      BY <3>1
    <3>3. k + j <= k
      BY <1>9, <3>2
    <3> QED
      BY <3>3
  <2>2. ASSUME NEW i \in 1..n, NEW j \in 1..n, v[l + i] = v[l + j] PROVE i = j
    <3>1. <<m, k + i>> = <<m, k + j>>
      BY <1>6, <2>2
    <3>2. k + i = k + j
      BY <3>1
    <3> QED
      BY <3>2
  <2> SUFFICES ASSUME NEW i \in 1..(l + n), NEW j \in 1..(l + n), v[i] = v[j]
               PROVE  i = j
    BY <1>4 DEF NoRepeats
  <2>3. CASE i \in 1..l /\ j \in 1..l
    BY <1>5, <2>3 DEF NoRepeats, l
  <2> QED
    BY <1>7, <2>1, <2>2, <2>3
<1>15. Upto(v, m, k + n)
  <2>1. ASSUME NEW i \in 1..(l + n), v[i][1] = m PROVE v[i][2] <= k + n
    <3>1. CASE i \in 1..l
      <4>1. v[i][2] <= k /\ v[i][2] \in 1..MsgLen
        BY <1>5, <1>9, <2>1, <3>1
      <4> QED
        BY <1>1, <4>1
    <3>2. ASSUME NEW j \in 1..n, i = l + j PROVE v[i][2] <= k + n
      <4>1. v[i][2] = k + j
        BY <1>6, <3>2
      <4> QED
        BY <4>1
    <3> QED
      BY <1>7, <3>1, <3>2
  <2>2. n \in 1..n /\ k + n # 0
    OBVIOUS
  <2>3. v[l + n] = <<m, k + n>>
    BY <1>6, <2>2
  <2> QED
    BY <1>4, <1>8, <2>1, <2>2, <2>3 DEF Upto
<1> QED
    BY <1>12, <1>13, <1>14, <1>15

-----------------------------------------------------------------------------
(* What the invariant says of the messages.                                *)

\* Of the messages given to sendMsg, and of those in the list.
LEMMA MessageFacts ==
    ASSUME SendInv
    PROVE  /\ Len(conn) \in Nat /\ Len(conn) <= MaxMsgs /\ 1..Len(conn) \subseteq Ids
           /\ queue \in Seq(Ids) /\ conn \in Seq(Conns) /\ stamp \in Seq(Nat)
           /\ Len(stamp) = Len(conn)
           /\ \A m \in 1..Len(conn) : conn[m] \in Conns /\ stamp[m] \in Nat
           /\ ToSet(queue) \subseteq 1..Len(conn) /\ NoRepeats(queue)
           /\ Len(queue) \in Nat /\ IsFiniteSet(ToSet(queue))
           /\ NoMsg \notin Ids /\ NoConn \notin Conns
<1>1. /\ queue \in Seq(Ids) /\ conn \in Seq(Conns) /\ stamp \in Seq(Nat)
      /\ Len(stamp) = Len(conn) /\ Len(conn) <= MaxMsgs
      /\ ToSet(queue) \subseteq 1..Len(conn) /\ NoRepeats(queue)
    BY DEF SendInv, TypeOK, Numbers
<1>2. Len(conn) \in Nat /\ Len(queue) \in Nat
    BY <1>1, LenProperties
<1>3. 1..Len(conn) \subseteq Ids
    BY <1>1, <1>2, SendAssumption DEF Ids
<1>4. \A m \in 1..Len(conn) : conn[m] \in Conns /\ stamp[m] \in Nat
    BY <1>1, ElementOfSeq
<1>5. IsFiniteSet(ToSet(queue))
    BY <1>1, NoRepeatsCardinality
<1>6. NoMsg \notin Ids /\ NoConn \notin Conns
    BY SendAssumption DEF Ids
<1> QED
    BY <1>1, <1>2, <1>3, <1>4, <1>5, <1>6

\* sendMsg makes a message that no one has seen yet, and leaves the others as they are.
LEMMA CallFacts ==
    ASSUME SendInv, NEW c \in Conns, Call(c)
    PROVE  /\ ThisMsg \in Ids /\ ThisMsg \notin 1..Len(conn) /\ ThisMsg \notin ToSet(queue)
           /\ conn' \in Seq(Conns) /\ stamp' \in Seq(Nat)
           /\ Len(conn') = ThisMsg /\ Len(stamp') = ThisMsg /\ ThisMsg <= MaxMsgs
           /\ 1..Len(conn') = 1..Len(conn) \cup {ThisMsg}
           /\ \A m \in 1..Len(conn) : conn'[m] = conn[m] /\ stamp'[m] = stamp[m]
           /\ conn'[ThisMsg] = c /\ life[c] # "free"
           /\ stamp'[ThisMsg] = IF life[c] = "recy" THEN seq[c] - 1 ELSE seq[c]
<1>1. /\ Len(conn) \in Nat /\ conn \in Seq(Conns) /\ stamp \in Seq(Nat)
      /\ Len(stamp) = Len(conn) /\ ToSet(queue) \subseteq 1..Len(conn)
    BY MessageFacts
<1>2. Len(conn) < MaxMsgs /\ MaxMsgs \in Nat
    BY SendAssumption DEF Call
<1> DEFINE s == IF life[c] = "recy" THEN seq[c] - 1 ELSE seq[c]
<1>3. s \in Nat
  <2>1. seq[c] \in Nat /\ seq[c] # 0
    BY DEF SendInv, TypeOK, Numbers
  <2> QED
    BY <2>1
<1>4. conn' = Append(conn, c) /\ stamp' = Append(stamp, s) /\ life[c] # "free"
    BY DEF Call
<1> HIDE DEF s
<1>5. /\ conn' \in Seq(Conns) /\ Len(conn') = Len(conn) + 1
      /\ \A m \in 1..Len(conn) : conn'[m] = conn[m]
      /\ conn'[Len(conn) + 1] = c
    BY <1>1, <1>4, AppendProperties
<1>6. /\ stamp' \in Seq(Nat) /\ Len(stamp') = Len(conn) + 1
      /\ \A m \in 1..Len(conn) : stamp'[m] = stamp[m]
      /\ stamp'[Len(conn) + 1] = s
    BY <1>1, <1>3, <1>4, AppendProperties
<1>7. /\ ThisMsg = Len(conn) + 1 /\ ThisMsg \in Ids /\ ThisMsg \notin 1..Len(conn)
      /\ ThisMsg <= MaxMsgs /\ 1..(Len(conn) + 1) = 1..Len(conn) \cup {ThisMsg}
    BY <1>1, <1>2 DEF ThisMsg, Ids
<1> QED
    BY <1>1, <1>4, <1>5, <1>6, <1>7 DEF s

\* The message at the iterator, and the list without it.
LEMMA AtFacts ==
    ASSUME SendInv, NEW m \in Ids, AtMessage(m)
    PROVE  /\ m \in ToSet(queue) /\ m \in 1..Len(conn) /\ conn[m] \in Conns /\ sender = "scan"
           /\ Unlist(m) => /\ queue' \in Seq(Ids) /\ NoRepeats(queue')
                           /\ ToSet(queue') = ToSet(queue) \ {m}
                           /\ Len(queue') = Len(queue) - 1
<1>1. /\ queue \in Seq(Ids) /\ ToSet(queue) \subseteq 1..Len(conn) /\ NoRepeats(queue)
      /\ Len(queue) \in Nat /\ \A i \in 1..Len(conn) : conn[i] \in Conns
    BY MessageFacts
<1>2. pos \in 1..Len(queue) /\ m = queue[pos]
    BY <1>1 DEF AtMessage, SendInv, TypeOK
<1>3. /\ RemoveAt(queue, pos) \in Seq(Ids) /\ NoRepeats(RemoveAt(queue, pos))
      /\ ToSet(RemoveAt(queue, pos)) = ToSet(queue) \ {m}
      /\ Len(RemoveAt(queue, pos)) = Len(queue) - 1 /\ m \in ToSet(queue)
    BY <1>1, <1>2, RemoveSet
<1> QED
    BY <1>1, <1>3 DEF Unlist, AtMessage

\* At the start nothing is connected, queued or written.
LEMMA InitSend == Init => SendInv
<1> SUFFICES ASSUME Init PROVE SendInv
    OBVIOUS
<1>1. /\ Len(queue) = 0 /\ Len(conn) = 0 /\ Len(stamp) = 0 /\ ToSet(queue) = {}
      /\ queue \in Seq(Ids) /\ conn \in Seq(Conns) /\ stamp \in Seq(Nat)
      /\ \A c \in Conns : wire[c] = <<>> /\ Len(wire[c]) = 0
      /\ wire \in [Conns -> Seq(Ids \X (1..MsgLen))]
    BY EmptySeq DEF Init, ToSet
<1>2. TypeOK
  <2>1. /\ seq \in [Conns -> Nat] /\ iSendCount \in [Conns -> Int]
        /\ iThrowsendCount \in [Conns -> Int]
        /\ psendMem \in [Conns -> Ids \cup {NoMsg}] /\ isendlen \in [Conns -> 0..MsgLen]
    BY SendAssumption DEF Init
  <2>2. /\ epollout \in [Conns -> BOOLEAN] /\ calm \in [Conns -> BOOLEAN]
        /\ mutex \in BOOLEAN
    BY Zenon DEF Init
  <2>3. /\ life \in [Conns -> {"open", "closed", "recy", "free"}]
        /\ peer \in [Conns -> {"up", "fin", "half", "reset", "gone"}]
    BY DEF Init
  <2>4. /\ process \in {"up", "killed"} /\ main \in {"epoll", "count"}
        /\ result \in {"all", "part", "again", "error"}
        /\ sender \in {"wait", "scan", "send", "settle", "register"}
    BY DEF Init
  <2>5. /\ count \in Int /\ sem \in Nat /\ pos \in Nat \ {0}
        /\ p_Conn \in Conns \cup {NoConn} /\ handled \in Conns \cup {NoConn}
        /\ refused \subseteq Ids /\ freed \subseteq Ids /\ skipped \subseteq Ids
    BY DEF Init
  <2> QED
    BY <1>1, <2>1, <2>2, <2>3, <2>4, <2>5 DEF TypeOK
<1>3. Numbers /\ Hands /\ Sockets /\ Taken /\ AtWork /\ Kept /\ Given
    BY <1>1, SendAssumption DEF Init, Numbers, NoRepeats, Hands, Sockets, Taken, AtWork,
                                  Reads, Kept, Given
<1>4. Pieces
    BY DEF Init, Pieces, Reads
<1>5. QueueCounted
    BY <1>1, SendAssumption DEF Init, QueueCounted
<1> QED
    BY <1>2, <1>3, <1>4, <1>5 DEF SendInv

-----------------------------------------------------------------------------
(* The actions, variable by variable.                                      *)

\* The actions that write each variable.
LEMMA Writers ==
    ASSUME Next
    PROVE  /\ process = "up" /\ (UNCHANGED process \/ BrokenPipe)
           /\ \/ UNCHANGED <<queue, count>>
              \/ \E c \in Conns : SendMsgQueues(c)
              \/ \E m \in Ids : DropStale(m) \/ Take(m)
           /\ UNCHANGED skipped \/ \E m \in Ids : DropStale(m) \/ SkipBusy(m) \/ Take(m)
           /\ UNCHANGED sem \/ SenderWakes \/ \E c \in Conns : SendMsgQueues(c)
           /\ UNCHANGED mutex \/ SenderWakes \/ SenderInterrupted \/ SenderUnlocks
           /\ \/ UNCHANGED pos \/ SenderWakes \/ SenderInterrupted \/ SenderUnlocks
              \/ \E m \in Ids : SkipBusy(m)
           /\ \/ UNCHANGED <<sender, p_Conn, result>>
              \/ UNCHANGED <<p_Conn, result>>
                 /\ (SenderWakes \/ SenderInterrupted \/ SettleLater \/ SenderUnlocks)
              \/ \E m \in Ids : Take(m)
              \/ SenderSends \/ SenderSendFails \/ SettleDone \/ SenderRegisters
           /\ \/ UNCHANGED <<main, handled>> \/ HandlerCounts
              \/ \E c \in Conns : HandlerSends(c) \/ HandlerFails(c)
           /\ \/ UNCHANGED life
              \/ \E c \in Conns :
                    \/ Open(c) \/ GiveUp(c) \/ Free(c) \/ SendMsgCutsOff(c)
                    \/ \E closes, out \in BOOLEAN : Hangup(c, closes, out)
           /\ \/ UNCHANGED peer
              \/ \E c \in Conns :
                    \/ Open(c) \/ HandlerSends(c) \/ HandlerFails(c)
                    \/ \E how \in {"fin", "reset"} : PeerLeaves(c, how)
                    \/ \E closes, out \in BOOLEAN : Hangup(c, closes, out)
           /\ UNCHANGED seq \/ \E c \in Conns : Open(c) \/ GiveUp(c) \/ Free(c)
           /\ \/ UNCHANGED calm
              \/ \E c \in Conns :
                    \/ Open(c) \/ SendMsgCutsOff(c)
                    \/ \E how \in {"fin", "reset"} : PeerLeaves(c, how)
           /\ \/ UNCHANGED iSendCount
              \/ \E c \in Conns : Open(c) \/ SendMsgQueues(c)
              \/ \E m \in Ids : Take(m)
           /\ \/ UNCHANGED iThrowsendCount \/ SettleDone \/ SettleLater \/ HandlerCounts
              \/ \E c \in Conns :
                    \/ Open(c) \/ Free(c) \/ SendMsgCutsOff(c)
                    \/ \E closes, out \in BOOLEAN : Hangup(c, closes, out)
           /\ \/ UNCHANGED psendMem \/ SettleDone
              \/ \E m \in Ids : Take(m)
              \/ \E c \in Conns : Open(c) \/ Free(c) \/ HandlerSends(c) \/ HandlerFails(c)
           /\ \/ UNCHANGED isendlen \/ SenderSends
              \/ \E m \in Ids : Take(m)
              \/ \E c \in Conns : HandlerSends(c)
           /\ \/ UNCHANGED epollout \/ SenderRegisters
              \/ \E c \in Conns :
                    \/ SendMsgCutsOff(c) \/ HandlerSends(c)
                    \/ \E closes, out \in BOOLEAN : Hangup(c, closes, out)
           /\ UNCHANGED messages \/ \E c \in Conns : Call(c) /\ sendMsg(c)
           /\ \/ UNCHANGED refused
              \/ \E c \in Conns : SendMsgDrops(c) \/ SendMsgCutsOff(c)
           /\ \/ UNCHANGED freed \/ SettleDone
              \/ \E m \in Ids : DropStale(m)
              \/ \E c \in Conns :
                    \/ Free(c) \/ SendMsgDrops(c) \/ SendMsgCutsOff(c)
                    \/ HandlerSends(c) \/ HandlerFails(c)
           /\ UNCHANGED wire \/ SenderSends \/ \E c \in Conns : Open(c) \/ HandlerSends(c)
<1> USE DEF list, senderVars, mainVars, connVars, sending, messages
<1>1. process = "up"
    BY DEF Next
<1>2. CASE \E c \in Conns : \/ Open(c) \/ GiveUp(c) \/ Free(c)
                            \/ \E how \in {"fin", "reset"} : PeerLeaves(c, how)
  <2>1. CASE \E c \in Conns : Open(c)
    BY <1>1, <2>1 DEF Open
  <2>2. CASE \E c \in Conns : GiveUp(c)
    BY <1>1, <2>2 DEF GiveUp
  <2>3. CASE \E c \in Conns : Free(c)
    BY <1>1, <2>3 DEF Free
  <2>4. CASE \E c \in Conns : \E how \in {"fin", "reset"} : PeerLeaves(c, how)
    BY <1>1, <2>4 DEF PeerLeaves
  <2> QED
    BY <1>2, <2>1, <2>2, <2>3, <2>4
<1>3. CASE \E c \in Conns : sendMsg(c)
    BY <1>1, <1>3 DEF sendMsg, SendMsgDrops, SendMsgCutsOff, SendMsgQueues
<1>4. CASE \E c \in Conns : \/ HandlerSends(c) \/ HandlerFails(c)
                            \/ \E closes, out \in BOOLEAN : Hangup(c, closes, out)
    BY <1>1, <1>4 DEF HandlerSends, HandlerFails, Hangup
<1>5. CASE SenderWakes \/ SenderInterrupted \/ SenderUnlocks \/ HandlerCounts \/ BrokenPipe
    BY <1>1, <1>5 DEF SenderWakes, SenderInterrupted, Scanning, SenderUnlocks, HandlerCounts,
                      BrokenPipe
<1>6. CASE \E m \in Ids : DropStale(m) \/ SkipBusy(m) \/ Take(m)
    BY <1>1, <1>6 DEF DropStale, SkipBusy, Take
<1>7. CASE SenderSends \/ SenderSendFails \/ SettleDone \/ SettleLater \/ SenderRegisters
    BY <1>1, <1>7 DEF SenderSends, SenderSendFails, SettleDone, SettleLater, SenderRegisters
<1> QED
    BY <1>2, <1>3, <1>4, <1>5, <1>6, <1>7 DEF Next, ServerSendQueueThread

\* Of them, those that open, close, give up and free a connection.
LEMMA LifeWriters ==
    ASSUME Next
    PROVE  \/ UNCHANGED life
           \/ \E c \in Conns :
                 \/ Open(c) \/ GiveUp(c) \/ Free(c) \/ SendMsgCutsOff(c)
                 \/ \E closes, out \in BOOLEAN : Hangup(c, closes, out)
<1> QED
    BY Writers

\* Those that raise its number.
LEMMA SeqWriters ==
    ASSUME Next
    PROVE  UNCHANGED seq \/ \E c \in Conns : Open(c) \/ GiveUp(c) \/ Free(c)
<1> QED
    BY Writers

\* Those that give it a message to send, or take it away.
LEMMA MemWriters ==
    ASSUME Next
    PROVE  \/ UNCHANGED psendMem \/ SettleDone
           \/ \E m \in Ids : Take(m)
           \/ \E c \in Conns : Open(c) \/ Free(c) \/ HandlerSends(c) \/ HandlerFails(c)
<1> QED
    BY Writers

\* Those that count its messages in the list.
LEMMA SendCountWriters ==
    ASSUME Next
    PROVE  \/ UNCHANGED iSendCount
           \/ \E c \in Conns : Open(c) \/ SendMsgQueues(c)
           \/ \E m \in Ids : Take(m)
<1> QED
    BY Writers

-----------------------------------------------------------------------------
(* Every step keeps the types.                                             *)

\* Who is at work has a connection in hand.
LEMMA HandFacts ==
    ASSUME SendInv
    PROVE  /\ sender \in {"send", "settle", "register"} => p_Conn \in Conns
           /\ main = "count" => handled \in Conns
<1>1. p_Conn \in Conns \cup {NoConn} /\ handled \in Conns \cup {NoConn}
    BY DEF SendInv, TypeOK
<1> QED
    BY <1>1 DEF SendInv, Hands

\* The object a write goes to, the message it is of and how far that is written.
LEMMA WriteFacts ==
    ASSUME SendInv, NEW c \in Conns, NEW n \in 1..isendlen[c], Writes(c, n),
           \/ sender = "send" /\ c = p_Conn /\ life[c] = "open" /\ ~Broken(c)
           \/ main = "epoll" /\ Reads(c) /\ epollout[c]
    PROVE  /\ psendMem[c] \in Ids /\ n \in Nat \ {0}
           /\ isendlen[c] \in Nat /\ MsgLen - isendlen[c] \in Nat
           /\ (MsgLen - isendlen[c]) + n <= MsgLen
           /\ (MsgLen - isendlen[c]) + n = MsgLen - (isendlen[c] - n)
           /\ isendlen[c] - n \in 0..MsgLen
           /\ isendlen' = [isendlen EXCEPT ![c] = isendlen[c] - n]
           /\ wire[c] \in Seq(Piece)
           /\ \E v \in Seq(Piece) :
                 /\ wire' = [wire EXCEPT ![c] = v] /\ Len(v) = Len(wire[c]) + n
                 /\ \A i \in 1..Len(wire[c]) : v[i] = wire[c][i]
                 /\ \A j \in 1..n :
                       v[Len(wire[c]) + j] = <<psendMem[c], (MsgLen - isendlen[c]) + j>>
<1>1. isendlen[c] \in 0..MsgLen /\ MsgLen \in Nat \ {0}
    BY SendAssumption DEF SendInv, TypeOK
<1>2. /\ n \in Nat \ {0} /\ isendlen[c] \in Nat /\ MsgLen - isendlen[c] \in Nat
      /\ (MsgLen - isendlen[c]) + n <= MsgLen /\ isendlen[c] - n \in 0..MsgLen
      /\ (MsgLen - isendlen[c]) + n = MsgLen - (isendlen[c] - n)
    BY <1>1
<1>3. wire[c] \in Seq(Piece) /\ psendMem[c] \in Ids \cup {NoMsg}
    BY DEF SendInv, TypeOK, Piece
<1>4. psendMem[c] # NoMsg
  <2>1. CASE sender = "send" /\ c = p_Conn /\ ~Broken(c)
    BY <2>1 DEF SendInv, AtWork, Broken
  <2>2. CASE main = "epoll" /\ Reads(c) /\ epollout[c]
    <3>1. Reads(c) /\ c # handled
      <4>1. Reads(c)
        BY <2>2
      <4>2. handled = NoConn
        BY <2>2 DEF SendInv, Hands
      <4> QED
        BY <4>1, <4>2, SendAssumption
    <3>2. c # p_Conn
      BY <2>2, <3>1 DEF SendInv, AtWork, Writing
    <3> QED
      BY <2>2, <3>1, <3>2 DEF SendInv, AtWork, Writing, Settled
  <2> QED
    BY <2>1, <2>2
<1>5. /\ isendlen' = [isendlen EXCEPT ![c] = isendlen[c] - n]
      /\ wire' = [wire EXCEPT ![c] = wire[c] \o [i \in 1..n |->
                                        <<psendMem[c], MsgLen - isendlen[c] + i>>]]
    BY DEF Writes
<1> DEFINE m == psendMem[c]
           k == MsgLen - isendlen[c]
           w == wire[c]
           p == [i \in 1..n |-> <<m, k + i>>]
<1>6. m \in Ids /\ k \in Nat /\ w \in Seq(Piece) /\ n \in Nat /\ k + n <= MsgLen
    BY <1>2, <1>3, <1>4
<1>7. wire' = [wire EXCEPT ![c] = w \o p]
    BY <1>5
<1>8. p \in [1..n -> Piece] /\ \A i \in 1..n : p[i] = <<m, k + i>>
  <2> HIDE DEF m, k
  <2>1. \A i \in 1..n : <<m, k + i>> \in Piece
    BY <1>6, SendAssumption DEF Piece
  <2> QED
    BY <2>1
<1>9. /\ w \o p \in Seq(Piece) /\ Len(w \o p) = Len(w) + n
      /\ \A i \in 1..Len(w) : (w \o p)[i] = w[i]
      /\ \A j \in 1..n : (w \o p)[Len(w) + j] = <<m, k + j>>
  <2> HIDE DEF m, k, w, p
  <2> QED
    BY <1>6, <1>8, WriteAppends
<1> HIDE DEF p
<1> QED
    BY <1>2, <1>3, <1>5, <1>6, <1>7, <1>9

\* Every action of the send path keeps the types of its variables.
LEMMA StepSendType ==
    ASSUME SendInv, Next
    PROVE  TypeOK'
<1> USE DEF list, senderVars, mainVars, connVars, sending, messages
<1>1. /\ TypeOK /\ queue \in Seq(Ids) /\ conn \in Seq(Conns) /\ stamp \in Seq(Nat)
    BY MessageFacts DEF SendInv
<1>2. /\ sender \in {"send", "settle", "register"} => p_Conn \in Conns
      /\ main = "count" => handled \in Conns
    BY HandFacts
<1>3. /\ \A c \in Conns : Call(c) => /\ ThisMsg \in Ids /\ ThisMsg \notin ToSet(queue)
                                     /\ conn' \in Seq(Conns) /\ stamp' \in Seq(Nat)
      /\ \A m \in Ids : AtMessage(m) => conn[m] \in Conns
    BY CallFacts, AtFacts
<1>4. queue' \in Seq(Ids) /\ count' \in Int
  <2>1. count \in Int
    BY <1>1 DEF TypeOK
  <2>2. CASE \E c \in Conns : SendMsgQueues(c)
    BY <1>1, <1>3, <2>1, <2>2, AppendSet DEF SendMsgQueues
  <2>3. CASE \E m \in Ids : DropStale(m) \/ Take(m)
    <3>1. PICK m \in Ids : DropStale(m) \/ Take(m)
      BY <2>3
    <3>2. AtMessage(m) /\ Unlist(m)
      BY <3>1 DEF DropStale, Take
    <3>3. queue' \in Seq(Ids)
      BY <3>2, AtFacts
    <3>4. count' = count - 1
      BY <3>2 DEF Unlist
    <3> QED
      BY <2>1, <3>3, <3>4
  <2> QED
    BY <1>1, <2>1, <2>2, <2>3, Writers
<1>5. conn' \in Seq(Conns) /\ stamp' \in Seq(Nat)
    BY <1>1, <1>3, Writers
<1>6. sem' \in Nat
  <2>1. sem \in Nat
    BY <1>1 DEF TypeOK
  <2>2. UNCHANGED sem \/ sem' = sem + 1 \/ (sem > 0 /\ sem' = sem - 1)
    BY Writers DEF SenderWakes, SendMsgQueues
  <2> QED
    BY <2>1, <2>2
<1>7. pos' \in Nat \ {0}
  <2>1. pos \in Nat \ {0}
    BY <1>1 DEF TypeOK
  <2>2. pos' \in {pos, 1, pos + 1}
    BY Writers DEF SenderWakes, SenderInterrupted, Scanning, SenderUnlocks, SkipBusy
  <2> QED
    BY <2>1, <2>2
<1>8. mutex' \in BOOLEAN
  <2>1. mutex \in BOOLEAN
    BY <1>1 DEF TypeOK
  <2>2. UNCHANGED mutex \/ mutex' = TRUE \/ mutex' = FALSE
    BY Writers DEF SenderWakes, SenderInterrupted, Scanning, SenderUnlocks
  <2> QED
    BY <2>1, <2>2, Zenon
<1>9. process' \in {"up", "killed"} /\ main' \in {"epoll", "count"}
  <2>1. process \in {"up", "killed"} /\ main \in {"epoll", "count"}
    BY <1>1 DEF TypeOK
  <2>2. process' \in {process, "killed"} /\ main' \in {main, "epoll", "count"}
    BY Writers DEF BrokenPipe, HandlerCounts, HandlerSends, HandlerFails
  <2> QED
    BY <2>1, <2>2
<1>10. /\ sender' \in {"wait", "scan", "send", "settle", "register"}
       /\ result' \in {"all", "part", "again", "error"}
  <2>1. /\ sender \in {"wait", "scan", "send", "settle", "register"}
        /\ result \in {"all", "part", "again", "error"}
    BY <1>1 DEF TypeOK
  <2>2. /\ sender' \in {sender, "wait", "scan", "send", "settle", "register"}
        /\ result' \in {result, "all", "part", "again", "error"}
    BY Writers DEF SenderWakes, SenderInterrupted, Scanning, SenderUnlocks, Take, SenderSends,
                   SenderSendFails, SettleDone, SettleLater, SenderRegisters
  <2> QED
    BY <2>1, <2>2
<1>11. p_Conn' \in Conns \cup {NoConn} /\ handled' \in Conns \cup {NoConn}
  <2>1. p_Conn \in Conns \cup {NoConn} /\ handled \in Conns \cup {NoConn}
    BY <1>1 DEF TypeOK
  <2>2. \/ p_Conn' \in {p_Conn, NoConn}
        \/ \E m \in Ids : AtMessage(m) /\ p_Conn' = conn[m]
    BY Writers DEF Take, SenderSends, SenderSendFails, SettleDone, SenderRegisters
  <2>3. handled' \in Conns \cup {NoConn, handled}
    BY Writers DEF HandlerCounts, HandlerSends, HandlerFails
  <2> QED
    BY <1>3, <2>1, <2>2, <2>3
<1>12. refused' \subseteq Ids /\ freed' \subseteq Ids /\ skipped' \subseteq Ids
  <2>1. /\ refused \subseteq Ids /\ freed \subseteq Ids /\ skipped \subseteq Ids
        /\ \A c \in Conns : {psendMem[c]} \ {NoMsg} \subseteq Ids
    BY <1>1 DEF TypeOK
  <2>2. \/ UNCHANGED freed
        \/ \E c \in Conns : Call(c) /\ freed' = freed \cup {ThisMsg}
        \/ \E c \in Conns : freed' = freed \cup ({psendMem[c]} \ {NoMsg})
        \/ \E m \in Ids : freed' = freed \cup {m}
    BY <1>2, Writers DEF DropStale, SettleDone, Free, SendMsgDrops, SendMsgCutsOff,
                         HandlerSends, HandlerFails
  <2>3. \/ UNCHANGED skipped
        \/ \E m \in Ids : skipped' = skipped \cup {m} \/ skipped' = skipped \ {m}
    BY Writers DEF DropStale, SkipBusy, Take, Unlist
  <2>4. \/ UNCHANGED refused
        \/ \E c \in Conns : Call(c) /\ refused' = refused \cup {ThisMsg}
    BY Writers DEF SendMsgDrops, SendMsgCutsOff
  <2> QED
    BY <1>3, <2>1, <2>2, <2>3, <2>4
\* The fields of the objects.
<1>13. life' \in [Conns -> {"open", "closed", "recy", "free"}]
  <2>1. life \in [Conns -> {"open", "closed", "recy", "free"}]
    BY <1>1 DEF TypeOK
  <2>2. UNCHANGED life \/ \E c \in Conns : \E v \in {"open", "closed", "recy", "free", life[c]} :
                              life' = [life EXCEPT ![c] = v]
    BY LifeWriters DEF Open, GiveUp, Free, SendMsgCutsOff, Hangup
  <2> QED
    BY <2>1, <2>2
<1>14. peer' \in [Conns -> {"up", "fin", "half", "reset", "gone"}]
  <2>1. peer \in [Conns -> {"up", "fin", "half", "reset", "gone"}]
    BY <1>1 DEF TypeOK
  <2>2. UNCHANGED peer \/ \E c \in Conns :
                              \E v \in {"up", "fin", "half", "reset", "gone", peer[c]} :
                                 peer' = [peer EXCEPT ![c] = v]
    <3>1. CASE \E c \in Conns : Open(c)
      BY <3>1 DEF Open
    <3>2. CASE \E c \in Conns : HandlerSends(c)
      BY <3>2 DEF HandlerSends, Collected
    <3>3. CASE \E c \in Conns : HandlerFails(c)
      BY <3>3 DEF HandlerFails, Collected
    <3>4. CASE \E c \in Conns : \E how \in {"fin", "reset"} : PeerLeaves(c, how)
      BY <3>4 DEF PeerLeaves
    <3>5. CASE \E c \in Conns : \E closes, out \in BOOLEAN : Hangup(c, closes, out)
      BY <3>5 DEF Hangup, Collected
    <3> QED
      BY <3>1, <3>2, <3>3, <3>4, <3>5, Writers
  <2> QED
    BY <2>1, <2>2
<1>15. seq' \in [Conns -> Nat]
  <2>1. seq \in [Conns -> Nat]
    BY <1>1 DEF TypeOK
  <2>2. UNCHANGED seq \/ \E c \in Conns : seq' = [seq EXCEPT ![c] = @ + 1]
    BY Writers DEF Open, GiveUp, Free
  <2> QED
    BY <2>1, <2>2
<1>16. iSendCount' \in [Conns -> Int]
  <2>1. iSendCount \in [Conns -> Int]
    BY <1>1 DEF TypeOK
  <2>2. \/ UNCHANGED iSendCount
        \/ \E c : \/ iSendCount' = [iSendCount EXCEPT ![c] = 0]
                  \/ iSendCount' = [iSendCount EXCEPT ![c] = @ + 1]
                  \/ iSendCount' = [iSendCount EXCEPT ![c] = @ - 1]
    BY Writers DEF Open, SendMsgQueues, Take
  <2> QED
    BY <2>1, <2>2
<1>17. iThrowsendCount' \in [Conns -> Int]
  <2>1. iThrowsendCount \in [Conns -> Int] /\ \A c \in Conns : CloseCount(c) \in Int
    BY <1>1 DEF TypeOK, CloseCount
  <2>2. \/ UNCHANGED iThrowsendCount
        \/ \E c : \/ iThrowsendCount' = [iThrowsendCount EXCEPT ![c] = 0]
                  \/ iThrowsendCount' = [iThrowsendCount EXCEPT ![c] = @ + 1]
                  \/ iThrowsendCount' = [iThrowsendCount EXCEPT ![c] = @ - 1]
        \/ \E c \in Conns, out \in BOOLEAN :
              \E n \in {CloseCount(c), iThrowsendCount[c]} :
                 iThrowsendCount' = [iThrowsendCount EXCEPT ![c] = IF out THEN n - 1 ELSE n]
    <3>1. CASE \E c \in Conns : SendMsgCutsOff(c)
      BY <3>1 DEF SendMsgCutsOff
    <3>2. CASE \E c \in Conns, closes, out \in BOOLEAN : Hangup(c, closes, out)
      <4>1. PICK c \in Conns, closes \in BOOLEAN, out \in BOOLEAN : Hangup(c, closes, out)
        BY <3>2
      <4>2. \E n \in {CloseCount(c), iThrowsendCount[c]} :
               iThrowsendCount' = [iThrowsendCount EXCEPT ![c] = IF out THEN n - 1 ELSE n]
        BY <4>1, Zenon DEF Hangup
      <4> QED
        BY <4>2
    <3> QED
      BY <3>1, <3>2, Writers DEF SettleDone, SettleLater, HandlerCounts, Open, Free
  <2> QED
    BY <2>1, <2>2
<1>18. psendMem' \in [Conns -> Ids \cup {NoMsg}]
  <2>1. psendMem \in [Conns -> Ids \cup {NoMsg}]
    BY <1>1 DEF TypeOK
  <2>2. UNCHANGED psendMem \/ \E c, v : /\ v \in Ids \cup {NoMsg}
                                        /\ psendMem' = [psendMem EXCEPT ![c] = v]
    <3>1. CASE SettleDone
      BY <3>1 DEF SettleDone
    <3>2. CASE \E m \in Ids : Take(m)
      BY <3>2 DEF Take
    <3>3. CASE \E c \in Conns : Open(c) \/ Free(c)
      BY <3>3 DEF Open, Free
    <3>4. CASE \E c \in Conns : HandlerSends(c)
      <4>1. PICK c \in Conns : HandlerSends(c)
        BY <3>4
      <4>2. UNCHANGED psendMem \/ psendMem' = [psendMem EXCEPT ![c] = NoMsg]
        BY <4>1, Zenon DEF HandlerSends
      <4> QED
        BY <4>2
    <3>5. CASE \E c \in Conns : HandlerFails(c)
      <4>1. PICK c \in Conns : HandlerFails(c)
        BY <3>5
      <4>2. psendMem' = [psendMem EXCEPT ![c] = NoMsg]
        BY <4>1, Zenon DEF HandlerFails
      <4> QED
        BY <4>2
    <3> QED
      BY MemWriters, <3>1, <3>2, <3>3, <3>4, <3>5
  <2> QED
    BY <2>1, <2>2
<1>19. ASSUME SenderSends \/ \E c \in Conns : HandlerSends(c)
       PROVE  isendlen' \in [Conns -> 0..MsgLen] /\ wire' \in [Conns -> Seq(Piece)]
  <2>1. PICK c, n :
           /\ c \in Conns /\ n \in 1..isendlen[c]
           /\ Writes(c, n)
           /\ \/ sender = "send" /\ c = p_Conn /\ life[c] = "open" /\ ~Broken(c)
              \/ main = "epoll" /\ Reads(c) /\ epollout[c]
    BY <1>2, <1>19 DEF SenderSends, HandlerSends, Reads
  <2>2. /\ isendlen \in [Conns -> 0..MsgLen] /\ wire \in [Conns -> Seq(Piece)]
    BY <1>1 DEF TypeOK, Piece
  <2>3. /\ isendlen[c] - n \in 0..MsgLen
        /\ isendlen' = [isendlen EXCEPT ![c] = isendlen[c] - n]
        /\ \E v \in Seq(Piece) : wire' = [wire EXCEPT ![c] = v]
    BY <2>1, WriteFacts, ZenonT(30)
  <2> QED
    BY <2>2, <2>3
<1>20. isendlen' \in [Conns -> 0..MsgLen] /\ wire' \in [Conns -> Seq(Piece)]
  <2>1. isendlen \in [Conns -> 0..MsgLen] /\ MsgLen \in 0..MsgLen
    BY <1>1, SendAssumption DEF TypeOK
  <2>2. wire \in [Conns -> Seq(Piece)] /\ <<>> \in Seq(Piece)
    BY <1>1 DEF TypeOK, Piece
  <2>3. CASE ~(SenderSends \/ \E c \in Conns : HandlerSends(c))
    <3>1. isendlen' \in [Conns -> 0..MsgLen]
      BY <2>1, <2>3, Writers DEF Take
    <3>2. wire' \in [Conns -> Seq(Piece)]
      BY <2>2, <2>3, Writers DEF Open
    <3> QED
      BY <3>1, <3>2
  <2> QED
    BY <1>19, <2>3
<1>21. epollout' \in [Conns -> BOOLEAN]
  <2>1. epollout \in [Conns -> BOOLEAN]
    BY <1>1 DEF TypeOK
  <2>2. UNCHANGED epollout \/ \E c, v : v \in BOOLEAN /\ epollout' = [epollout EXCEPT ![c] = v]
    <3>1. CASE \E c \in Conns, closes, out \in BOOLEAN : Hangup(c, closes, out)
      BY <2>1, <3>1, Zenon DEF Hangup
    <3>2. CASE SenderRegisters
      <4>1. (life[p_Conn] = "open") \in BOOLEAN
        OBVIOUS
      <4> QED
        BY <3>2, <4>1, Zenon DEF SenderRegisters
    <3> QED
      BY <3>1, <3>2, Writers DEF SendMsgCutsOff, HandlerSends
  <2> QED
    BY <2>1, <2>2, Zenon
<1>22. calm' \in [Conns -> BOOLEAN]
  <2>1. calm \in [Conns -> BOOLEAN]
    BY <1>1 DEF TypeOK
  <2>2. UNCHANGED calm \/ \E c, v : v \in BOOLEAN /\ calm' = [calm EXCEPT ![c] = v]
    BY Writers DEF Open, SendMsgCutsOff, PeerLeaves
  <2> QED
    BY <2>1, <2>2, Zenon
<1> QED
    BY <1>4, <1>5, <1>6, <1>7, <1>8, <1>9, <1>10, <1>11, <1>12, <1>13, <1>14, <1>15, <1>16,
       <1>17, <1>18, <1>20, <1>21, <1>22 DEF TypeOK, Piece

-----------------------------------------------------------------------------
(* Numbers, and what a connection has in hand.                             *)

\* What sendMsg has numbered stays; what is new was given to it in this very step.
LEMMA MessagesStay ==
    ASSUME SendInv, Next
    PROVE  /\ Len(conn') \in Nat /\ Len(stamp') = Len(conn') /\ Len(conn') <= MaxMsgs
           /\ 1..Len(conn) \subseteq 1..Len(conn')
           /\ \A m \in 1..Len(conn) : conn'[m] = conn[m] /\ stamp'[m] = stamp[m]
           /\ \A m \in 1..Len(conn') : m \notin 1..Len(conn) =>
                 /\ m = ThisMsg /\ conn'[m] \in Conns /\ sendMsg(conn'[m])
                 /\ life[conn'[m]] # "free"
                 /\ stamp'[m] = IF life[conn'[m]] = "recy" THEN seq[conn'[m]] - 1
                                                           ELSE seq[conn'[m]]
<1>1. /\ Len(conn) \in Nat /\ Len(stamp) = Len(conn) /\ Len(conn) <= MaxMsgs
    BY MessageFacts
<1>2. CASE UNCHANGED messages
    BY <1>1, <1>2 DEF messages
<1>3. CASE \E c \in Conns : Call(c) /\ sendMsg(c)
  <2>1. PICK c \in Conns : Call(c) /\ sendMsg(c)
    BY <1>3
  <2>2. /\ Len(conn') = ThisMsg /\ Len(stamp') = ThisMsg /\ ThisMsg <= MaxMsgs
        /\ 1..Len(conn') = 1..Len(conn) \cup {ThisMsg}
        /\ \A m \in 1..Len(conn) : conn'[m] = conn[m] /\ stamp'[m] = stamp[m]
        /\ conn'[ThisMsg] = c /\ life[c] # "free"
        /\ stamp'[ThisMsg] = IF life[c] = "recy" THEN seq[c] - 1 ELSE seq[c]
    BY <2>1, CallFacts
  <2>3. ThisMsg \in Nat
    BY <1>1 DEF ThisMsg
  <2> QED
    BY <2>1, <2>2, <2>3
<1> QED
    BY <1>2, <1>3, Writers

\* How the list changes.
LEMMA ListChanges ==
    ASSUME SendInv, Next
    PROVE  /\ \/ UNCHANGED <<queue, count>>
              \/ /\ \E c \in Conns : SendMsgQueues(c)
                 /\ ToSet(queue') = ToSet(queue) \cup {ThisMsg} /\ ThisMsg \notin ToSet(queue)
                 /\ Len(queue') = Len(queue) + 1 /\ count' = count + 1
              \/ \E m \in Ids :
                 /\ (DropStale(m) \/ Take(m)) /\ m \in ToSet(queue)
                 /\ ToSet(queue') = ToSet(queue) \ {m}
                 /\ Len(queue') = Len(queue) - 1 /\ count' = count - 1
           /\ NoRepeats(queue') /\ ToSet(queue') \subseteq 1..Len(conn')
<1>1. /\ queue \in Seq(Ids) /\ NoRepeats(queue) /\ ToSet(queue) \subseteq 1..Len(conn)
      /\ 1..Len(conn) \subseteq 1..Len(conn')
    BY MessageFacts, MessagesStay
<1>2. CASE UNCHANGED <<queue, count>>
    BY <1>1, <1>2
<1>3. CASE \E c \in Conns : SendMsgQueues(c)
  <2>1. PICK c \in Conns : SendMsgQueues(c)
    BY <1>3
  <2>2. /\ ThisMsg \in Ids /\ ThisMsg \notin ToSet(queue)
        /\ 1..Len(conn') = 1..Len(conn) \cup {ThisMsg}
    BY <2>1, CallFacts DEF SendMsgQueues
  <2>3. queue' = Append(queue, ThisMsg) /\ count' = count + 1
    BY <2>1 DEF SendMsgQueues
  <2>4. /\ Len(queue') = Len(queue) + 1 /\ ToSet(queue') = ToSet(queue) \cup {ThisMsg}
        /\ NoRepeats(queue')
    BY <1>1, <2>2, <2>3, AppendSet
  <2> QED
    BY <1>1, <1>3, <2>2, <2>3, <2>4
<1>4. CASE \E m \in Ids : DropStale(m) \/ Take(m)
  <2>1. PICK m \in Ids : DropStale(m) \/ Take(m)
    BY <1>4
  <2>2. AtMessage(m) /\ Unlist(m)
    BY <2>1 DEF DropStale, Take
  <2>3. /\ m \in ToSet(queue) /\ NoRepeats(queue') /\ ToSet(queue') = ToSet(queue) \ {m}
        /\ Len(queue') = Len(queue) - 1
    BY <2>2, AtFacts
  <2>4. count' = count - 1
    BY <2>2 DEF Unlist
  <2> QED
    BY <1>1, <2>1, <2>3, <2>4
<1> QED
    BY <1>2, <1>3, <1>4, Writers

\* The number of an object rises by one whenever it changes hands.
LEMMA NumberRises ==
    ASSUME SendInv, Next, NEW c \in Conns
    PROVE  /\ seq[c] \in Nat \ {0} /\ seq'[c] \in {seq[c], seq[c] + 1}
           /\ life'[c] \in {"recy", "free"} =>
                 seq'[c] = seq[c] + 1 \/ life'[c] = life[c]
           /\ life'[c] = "open" => life[c] \in {"open", "free"}
           /\ life[c] = "open" => life'[c] \in {"open", "closed"} /\ seq'[c] = seq[c]
<1>1. /\ seq \in [Conns -> Nat] /\ seq[c] \in Nat \ {0}
      /\ life \in [Conns -> {"open", "closed", "recy", "free"}]
    BY DEF SendInv, TypeOK, Numbers
<1>2. seq'[c] \in {seq[c], seq[c] + 1}
  <2>1. UNCHANGED seq \/ \E d \in Conns : seq' = [seq EXCEPT ![d] = @ + 1]
    BY Writers DEF Open, GiveUp, Free
  <2> QED
    BY <1>1, <2>1
<1>3. CASE UNCHANGED life /\ UNCHANGED seq
    BY <1>1, <1>3
<1>4. CASE \E d \in Conns : Open(d) \/ GiveUp(d) \/ Free(d)
    BY <1>1, <1>2, <1>4 DEF Open, GiveUp, Free
<1>5. CASE \E d \in Conns : \/ SendMsgCutsOff(d)
                            \/ \E closes, out \in BOOLEAN : Hangup(d, closes, out)
    BY <1>1, <1>5 DEF SendMsgCutsOff, Hangup, connVars
<1> QED
    BY <1>1, <1>2, <1>3, <1>4, <1>5, Writers

\* Every action keeps the messages in the list apart and their stamps ordered: a reuse
\* of an object raises its number above those of the messages made for it before.
LEMMA StepNumbers ==
    ASSUME SendInv, Next
    PROVE  Numbers'
<1>1. \A c \in Conns : seq'[c] # 0
    BY NumberRises
<1>2. ASSUME NEW m \in 1..Len(conn')
      PROVE  /\ stamp'[m] <= seq'[conn'[m]]
             /\ life'[conn'[m]] \in {"recy", "free"} => stamp'[m] < seq'[conn'[m]]
  <2>1. CASE m \in 1..Len(conn)
    <3> DEFINE c == conn[m]
    <3>1. c \in Conns /\ conn'[m] = c /\ stamp'[m] = stamp[m] /\ stamp[m] \in Nat
      BY <2>1, MessageFacts, MessagesStay
    <3>2. stamp[m] <= seq[c] /\ (life[c] \in {"recy", "free"} => stamp[m] < seq[c])
      BY <2>1 DEF SendInv, Numbers
    <3>3. /\ seq[c] \in Nat /\ seq'[c] \in {seq[c], seq[c] + 1}
          /\ life'[c] \in {"recy", "free"} => seq'[c] = seq[c] + 1 \/ life'[c] = life[c]
      BY <3>1, NumberRises
    <3> HIDE DEF c
    <3> QED
      BY <3>1, <3>2, <3>3
  <2>2. CASE m \notin 1..Len(conn)
    <3> DEFINE c == conn'[m]
    <3>1. /\ c \in Conns /\ sendMsg(c) /\ life[c] # "free"
          /\ stamp'[m] = IF life[c] = "recy" THEN seq[c] - 1 ELSE seq[c]
      BY <2>2, MessagesStay
    <3>2. /\ seq[c] \in Nat /\ seq' = seq
          /\ life'[c] \in {"recy", "free"} => life'[c] = life[c]
      <4>1. seq[c] \in Nat /\ life \in [Conns -> {"open", "closed", "recy", "free"}]
        BY <3>1 DEF SendInv, TypeOK
      <4> QED
        BY <3>1, <4>1 DEF sendMsg, SendMsgDrops, SendMsgCutsOff, SendMsgQueues, connVars
    <3> HIDE DEF c
    <3>3. stamp'[m] \in {seq[c], seq[c] - 1} /\ (life[c] = "recy" => stamp'[m] = seq[c] - 1)
      BY <3>1
    <3>4. life'[c] \in {"recy", "free"} => stamp'[m] = seq[c] - 1
      BY <3>1, <3>2, <3>3
    <3> QED
      BY <3>2, <3>3, <3>4 DEF c
  <2> QED
    BY <2>1, <2>2
<1> QED
    BY <1>1, <1>2, MessagesStay, ListChanges DEF Numbers

\* Every action leaves a thread with a connection in hand just when it is at work on it.
LEMMA StepHands ==
    ASSUME SendInv, Next
    PROVE  Hands'
<1> USE DEF senderVars, mainVars
<1>1. /\ Hands /\ NoConn \notin Conns /\ life \in [Conns -> {"open", "closed", "recy", "free"}]
      /\ p_Conn \in Conns \cup {NoConn} /\ handled \in Conns \cup {NoConn}
    BY MessageFacts DEF SendInv, TypeOK
<1>2. p_Conn' = NoConn <=> sender' \in {"wait", "scan"}
  <2>1. CASE \E m \in Ids : Take(m)
    BY <1>1, <2>1, AtFacts DEF Take
  <2> QED
    BY <1>1, <2>1, Writers
       DEF Hands, SenderWakes, SenderInterrupted, Scanning, SettleLater, SenderUnlocks, SenderSends,
           SenderSendFails, SettleDone, SenderRegisters
<1>3. handled' = NoConn <=> main' = "epoll"
    BY <1>1, Writers DEF Hands, HandlerCounts, HandlerSends, HandlerFails
\* An object becomes free by Free only.
<1>4. ASSUME NEW c \in Conns, life'[c] = "free"
      PROVE  life[c] = "free" \/ Free(c)
    BY <1>1, <1>4, LifeWriters DEF Open, GiveUp, Free, SendMsgCutsOff, Hangup
<1>5. ASSUME p_Conn' # NoConn PROVE life'[p_Conn'] # "free"
  <2>1. CASE \E m \in Ids : Take(m)
    <3>1. PICK m \in Ids : Take(m)
      BY <2>1
    <3>2. /\ m \in 1..Len(conn) /\ conn[m] \in Conns /\ p_Conn' = conn[m]
          /\ seq[conn[m]] = stamp[m] /\ life' = life
      BY <3>1, AtFacts DEF Take, connVars
    <3>3. life[conn[m]] # "free"
      BY <3>2 DEF SendInv, Numbers, TypeOK
    <3> QED
      BY <3>2, <3>3
  <2>2. CASE p_Conn' = p_Conn
    <3>1. p_Conn \in Conns /\ life[p_Conn] # "free"
      BY <1>1, <1>5, <2>2 DEF Hands
    <3>2. ~Free(p_Conn)
      BY DEF Free
    <3> QED
      BY <1>4, <2>2, <3>1, <3>2
  <2>3. p_Conn' \in {p_Conn, NoConn} \/ \E m \in Ids : Take(m)
    BY Writers DEF SenderSends, SenderSendFails, SettleDone, SenderRegisters
  <2> QED
    BY <1>5, <2>1, <2>2, <2>3
<1>6. ASSUME handled' # NoConn PROVE life'[handled'] # "free"
  <2>1. CASE handled' = handled
    <3>1. handled \in Conns /\ life[handled] # "free" /\ ~Free(handled)
      BY <1>1, <1>6, <2>1 DEF Hands, Free
    <3> QED
      BY <1>4, <2>1, <3>1
  <2>2. CASE \E c \in Conns : HandlerSends(c) \/ HandlerFails(c)
    BY <1>1, <1>6, <2>1, <2>2 DEF HandlerSends, HandlerFails, connVars
  <2> QED
    BY <1>6, <2>1, <2>2, Writers DEF HandlerCounts
<1> QED
    BY <1>2, <1>3, <1>5, <1>6 DEF Hands

\* Every action keeps EPOLLOUT with an open socket.
LEMMA StepSockets ==
    ASSUME SendInv, Next
    PROVE  Sockets'
<1> USE DEF senderVars, mainVars, connVars, sending
<1>1. /\ Sockets /\ life \in [Conns -> {"open", "closed", "recy", "free"}]
      /\ peer \in [Conns -> {"up", "fin", "half", "reset", "gone"}]
      /\ epollout \in [Conns -> BOOLEAN] /\ calm \in [Conns -> BOOLEAN]
    BY DEF SendInv, TypeOK
<1>2. ASSUME NEW c \in Conns, life'[c] = "open" PROVE calm'[c] <=> peer'[c] = "up"
  <2>1. CASE UNCHANGED <<life, peer, calm>>
    BY <1>1, <1>2, <2>1 DEF Sockets
  <2>2. CASE \E d \in Conns : Open(d) \/ GiveUp(d) \/ Free(d)
    BY <1>1, <1>2, <2>2 DEF Open, GiveUp, Free, Sockets
  <2>3. CASE \E d \in Conns : SendMsgCutsOff(d)
    BY <1>1, <1>2, <2>3 DEF SendMsgCutsOff, Sockets
  <2>4. CASE \E d \in Conns : \/ HandlerSends(d) \/ HandlerFails(d)
                              \/ \E how \in {"fin", "reset"} : PeerLeaves(d, how)
    BY <1>1, <1>2, <2>4 DEF HandlerSends, HandlerFails, PeerLeaves, Collected, Sockets
  <2>5. CASE \E d \in Conns, closes, out \in BOOLEAN : Hangup(d, closes, out)
    BY <1>1, <1>2, <2>5 DEF Hangup, Collected, Sockets
  <2> QED
    BY <2>1, <2>2, <2>3, <2>4, <2>5, Writers
<1>3. ASSUME NEW c \in Conns, epollout'[c] PROVE life'[c] = "open"
  <2>1. CASE UNCHANGED <<life, epollout>>
    BY <1>1, <1>3, <2>1 DEF Sockets
  <2>2. CASE \E d \in Conns : Open(d) \/ GiveUp(d) \/ Free(d)
    BY <1>1, <1>3, <2>2 DEF Open, GiveUp, Free, Sockets
  <2>3. CASE \E d \in Conns : SendMsgCutsOff(d)
    BY <1>1, <1>3, <2>3 DEF SendMsgCutsOff, Sockets
  <2>4. CASE \E d \in Conns : HandlerSends(d)
    BY <1>1, <1>3, <2>4 DEF HandlerSends, Sockets
  <2>5. CASE SenderRegisters
    BY <1>1, <1>3, <2>5 DEF SenderRegisters, Sockets
  <2>6. CASE \E d \in Conns, closes, out \in BOOLEAN : Hangup(d, closes, out)
    BY <1>1, <1>3, <2>6 DEF Hangup, Sockets
  <2> QED
    BY <2>1, <2>2, <2>3, <2>4, <2>5, <2>6, Writers
<1> QED
    BY <1>2, <1>3 DEF Sockets

\* Every action keeps what is written or being written out of the list.
LEMMA StepTaken ==
    ASSUME SendInv, Next
    PROVE  Taken'
<1> DEFINE Gone == 1..Len(conn) \ ToSet(queue)
<1>1. Gone \subseteq Gone'
  <2>1. 1..Len(conn) \subseteq 1..Len(conn')
    BY MessagesStay
  <2>2. \/ ToSet(queue') \subseteq ToSet(queue)
        \/ ToSet(queue') = ToSet(queue) \cup {ThisMsg} /\ ThisMsg \notin 1..Len(conn)
    <3>1. CASE \E c \in Conns : SendMsgQueues(c)
      BY <3>1, ListChanges, CallFacts DEF SendMsgQueues
    <3> QED
      BY <3>1, ListChanges
  <2> QED
    BY <2>1, <2>2
<1>2. /\ psendMem \in [Conns -> Ids \cup {NoMsg}] /\ wire \in [Conns -> Seq(Piece)]
      /\ \A c \in Conns : psendMem[c] # NoMsg => psendMem[c] \in Gone
      /\ \A c \in Conns : \A i \in 1..Len(wire[c]) : wire[c][i][1] \in Gone
    BY DEF SendInv, TypeOK, Piece, Taken
<1>3. ASSUME NEW c \in Conns, psendMem'[c] # NoMsg PROVE psendMem'[c] \in Gone'
  <2>1. CASE \E m \in Ids : Take(m)
    <3>1. PICK m \in Ids : Take(m)
      BY <2>1
    <3>2. m \in 1..Len(conn) /\ ToSet(queue') = ToSet(queue) \ {m} /\ conn[m] \in Conns
      BY <3>1, AtFacts DEF Take
    <3>3. m \in Gone'
      BY <3>2, MessagesStay
    <3>4. psendMem' = [psendMem EXCEPT ![conn[m]] = m]
      BY <3>1 DEF Take
    <3>5. psendMem'[c] \in {psendMem[c], m}
      BY <1>2, <3>2, <3>4
    <3> HIDE DEF Gone
    <3> QED
      BY <1>1, <1>2, <1>3, <3>3, <3>5
  <2>2. psendMem'[c] \in {psendMem[c], NoMsg} \/ \E m \in Ids : Take(m)
    BY <1>2, MemWriters DEF SettleDone, Open, Free, HandlerSends, HandlerFails
  <2> HIDE DEF Gone
  <2> QED
    BY <1>1, <1>2, <1>3, <2>1, <2>2
<1>4. ASSUME NEW c \in Conns, NEW i \in 1..Len(wire'[c]) PROVE wire'[c][i][1] \in Gone'
  <2>1. CASE SenderSends \/ \E d \in Conns : HandlerSends(d)
    <3>1. PICK d, n :
             /\ d \in Conns /\ n \in 1..isendlen[d]
             /\ Writes(d, n)
             /\ \/ sender = "send" /\ d = p_Conn /\ life[d] = "open" /\ ~Broken(d)
                \/ main = "epoll" /\ Reads(d) /\ epollout[d]
      BY <2>1, HandFacts DEF SenderSends, HandlerSends, Reads
    <3>2. /\ psendMem[d] \in Ids /\ n \in Nat /\ wire[d] \in Seq(Piece)
          /\ \E v \in Seq(Piece) :
                 /\ wire' = [wire EXCEPT ![d] = v] /\ Len(v) = Len(wire[d]) + n
                 /\ \A k \in 1..Len(wire[d]) : v[k] = wire[d][k]
                 /\ \A j \in 1..n :
                       v[Len(wire[d]) + j] = <<psendMem[d], (MsgLen - isendlen[d]) + j>>
      BY <3>1, WriteFacts
    <3>3. psendMem[d] \in Gone
      <4>1. psendMem[d] # NoMsg
        BY <3>2, MessageFacts
      <4> QED
        BY <1>2, <3>1, <4>1
    <3>4. PICK v \in Seq(Piece) :
                 /\ wire' = [wire EXCEPT ![d] = v] /\ Len(v) = Len(wire[d]) + n
                 /\ \A k \in 1..Len(wire[d]) : v[k] = wire[d][k]
                 /\ \A j \in 1..n :
                       v[Len(wire[d]) + j] = <<psendMem[d], (MsgLen - isendlen[d]) + j>>
      BY <3>2
    <3> HIDE DEF Gone
    <3>5. CASE c # d
      BY <1>1, <1>2, <1>4, <3>4, <3>5
    <3>6. CASE c = d
      <4>1. wire'[c] = v /\ i \in 1..Len(v) /\ Len(wire[d]) \in Nat
        BY <1>2, <1>4, <3>2, <3>4, <3>6, LenProperties
      <4>2. CASE i \in 1..Len(wire[d])
        BY <1>1, <1>2, <3>4, <3>6, <4>1, <4>2
      <4>3. CASE i \notin 1..Len(wire[d])
        <5>1. PICK j \in 1..n : i = Len(wire[d]) + j
          <6>1. i - Len(wire[d]) \in 1..n /\ i = Len(wire[d]) + (i - Len(wire[d]))
            BY <3>2, <3>4, <4>1, <4>3
          <6> QED
            BY <6>1
        <5>2. v[i] = <<psendMem[d], (MsgLen - isendlen[d]) + j>>
          BY <3>4, <5>1
        <5>3. v[i][1] = psendMem[d]
          BY <5>2
        <5> QED
          BY <1>1, <3>3, <4>1, <5>3
      <4> QED
        BY <4>2, <4>3
    <3> QED
      BY <3>5, <3>6
  <2>2. CASE \E d \in Conns : Open(d)
    <3>1. wire'[c] = wire[c] \/ wire'[c] = <<>>
      BY <1>2, <2>2 DEF Open
    <3>2. wire'[c] # <<>>
      <4>1. Len(<<>>) = 0 /\ 1..0 = {}
        OBVIOUS
      <4> QED
        BY <1>4, <4>1
    <3> HIDE DEF Gone
    <3> QED
      BY <1>1, <1>2, <1>4, <3>1, <3>2
  <2>3. CASE UNCHANGED wire
    <3> HIDE DEF Gone
    <3> QED
      BY <1>1, <1>2, <1>4, <2>3
  <2> QED
    BY <2>1, <2>2, <2>3, Writers
<1>5. ASSUME NEW c \in Conns, psendMem'[c] # NoMsg PROVE conn'[psendMem'[c]] = c
  <2>1. CASE psendMem'[c] = psendMem[c]
    <3>1. psendMem[c] \in 1..Len(conn) /\ conn[psendMem[c]] = c
      BY <1>5, <2>1 DEF SendInv, Taken
    <3> QED
      BY <2>1, <3>1, MessagesStay
  <2>2. CASE \E m \in Ids : Take(m)
    <3>1. PICK m \in Ids : Take(m)
      BY <2>2
    <3>2. m \in 1..Len(conn) /\ conn[m] \in Conns /\ conn'[m] = conn[m]
      BY <3>1, AtFacts, MessagesStay DEF Take
    <3>3. psendMem' = [psendMem EXCEPT ![conn[m]] = m]
      BY <3>1 DEF Take
    <3>4. CASE c = conn[m]
      <4>1. psendMem'[c] = m
        BY <1>2, <3>2, <3>3, <3>4
      <4> QED
        BY <3>2, <3>4, <4>1
    <3>5. CASE c # conn[m]
      <4>1. psendMem'[c] = psendMem[c]
        BY <1>2, <3>2, <3>3, <3>5
      <4> QED
        BY <2>1, <4>1
    <3> QED
      BY <3>4, <3>5
  <2>3. psendMem'[c] \in {psendMem[c], NoMsg} \/ \E m \in Ids : Take(m)
    BY <1>2, MemWriters DEF SettleDone, Open, Free, HandlerSends, HandlerFails
  <2> QED
    BY <1>5, <2>1, <2>2, <2>3
<1> QED
    BY <1>3, <1>4, <1>5 DEF Taken

-----------------------------------------------------------------------------
(* The two writers and what they write.                                    *)

\* What a step may be to a client that reads.
LEMMA ReaderSteps ==
    ASSUME SendInv, Next, NEW c \in Conns, Reads(c)'
    PROVE  \/ Open(c)
           \/ /\ Reads(c) /\ seq'[c] = seq[c]
              /\ \/ /\ iThrowsendCount'[c] = iThrowsendCount[c] /\ psendMem'[c] = psendMem[c]
                    /\ isendlen'[c] = isendlen[c] /\ epollout'[c] = epollout[c]
                    /\ wire'[c] = wire[c]
                    /\ c = p_Conn' <=> c = p_Conn
                    /\ c = handled' <=> c = handled
                    /\ c = p_Conn => UNCHANGED <<sender, result>> \/ SenderSendFails
                 \/ \E m \in Ids : Take(m) /\ conn[m] = c
                 \/ c = p_Conn /\ (SenderSends \/ SettleDone \/ SettleLater \/ SenderRegisters)
                 \/ HandlerSends(c)
                 \/ HandlerCounts /\ c = handled
<1> USE DEF list, senderVars, mainVars, connVars, sending, messages
<1>1. /\ TypeOK /\ Hands /\ Sockets /\ c # NoConn
    BY MessageFacts DEF SendInv
<1>2. /\ life \in [Conns -> {"open", "closed", "recy", "free"}]
      /\ peer \in [Conns -> {"up", "fin", "half", "reset", "gone"}]
      /\ epollout \in [Conns -> BOOLEAN] /\ calm \in [Conns -> BOOLEAN]
      /\ psendMem \in [Conns -> Ids \cup {NoMsg}] /\ isendlen \in [Conns -> 0..MsgLen]
      /\ iThrowsendCount \in [Conns -> Int] /\ wire \in [Conns -> Seq(Piece)]
      /\ p_Conn \in Conns \cup {NoConn} /\ handled \in Conns \cup {NoConn}
    BY <1>1 DEF TypeOK, Piece
<1>3. life'[c] = "open" /\ peer'[c] \in {"up", "fin"}
    BY DEF Reads
<1>5. ASSUME ~Open(c)
      PROVE  Reads(c) /\ seq'[c] = seq[c]
  <2>1. life[c] = "open"
    <3>1. life[c] = "open" \/ \E d \in Conns : Open(d)
      BY <1>2, <1>3, Writers DEF GiveUp, Free, SendMsgCutsOff, Hangup
    <3> QED
      BY <1>2, <1>3, <1>5, <3>1 DEF Open
  <2>2. peer[c] \in {"up", "fin"}
    <3>1. CASE UNCHANGED peer
      BY <1>3, <3>1
    <3>2. CASE \E d \in Conns : Open(d)
      BY <1>2, <1>3, <1>5, <3>2 DEF Open
    <3>3. CASE \E d \in Conns : HandlerSends(d) \/ HandlerFails(d)
      BY <1>2, <1>3, <3>3 DEF HandlerSends, HandlerFails, Collected
    <3>4. CASE \E d \in Conns : \E how \in {"fin", "reset"} : PeerLeaves(d, how)
      BY <1>2, <1>3, <3>4 DEF PeerLeaves
    <3>5. CASE \E d \in Conns : \E closes, out \in BOOLEAN : Hangup(d, closes, out)
      BY <1>2, <1>3, <3>5 DEF Hangup, Collected
    <3> QED
      BY <3>1, <3>2, <3>3, <3>4, <3>5, Writers
  <2>3. seq'[c] = seq[c]
    BY <2>1, NumberRises
  <2> QED
    BY <2>1, <2>2, <2>3 DEF Reads
<1> SUFFICES ASSUME ~Open(c)
             PROVE  \/ /\ iThrowsendCount'[c] = iThrowsendCount[c] /\ psendMem'[c] = psendMem[c]
                       /\ isendlen'[c] = isendlen[c] /\ epollout'[c] = epollout[c]
                       /\ wire'[c] = wire[c]
                       /\ c = p_Conn' <=> c = p_Conn
                       /\ c = handled' <=> c = handled
                       /\ c = p_Conn => UNCHANGED <<sender, result>> \/ SenderSendFails
                    \/ \E m \in Ids : Take(m) /\ conn[m] = c
                    \/ c = p_Conn /\ (SenderSends \/ SettleDone \/ SettleLater \/ SenderRegisters)
                    \/ HandlerSends(c)
                    \/ HandlerCounts /\ c = handled
    BY <1>5
<1>6. Reads(c) /\ life[c] = "open" /\ peer[c] \in {"up", "fin"}
    BY <1>5 DEF Reads
<1>7. CASE \E d \in Conns : Open(d) \/ GiveUp(d) \/ Free(d)
    BY <1>2, <1>6, <1>7 DEF Open, GiveUp, Free
<1>8. CASE \E d \in Conns : \E how \in {"fin", "reset"} : PeerLeaves(d, how)
    BY <1>8 DEF PeerLeaves
<1>9. CASE \E d \in Conns : SendMsgDrops(d) \/ SendMsgQueues(d)
    BY <1>9 DEF SendMsgDrops, SendMsgQueues
<1>10. CASE \E d \in Conns : SendMsgCutsOff(d)
  <2>1. PICK d \in Conns : SendMsgCutsOff(d)
    BY <1>10
  <2>2. c # d
    BY <1>2, <1>3, <1>6, <2>1 DEF SendMsgCutsOff
  <2> QED
    BY <1>2, <2>1, <2>2 DEF SendMsgCutsOff
<1>11. CASE \E d \in Conns : HandlerSends(d)
  <2>1. PICK d \in Conns : HandlerSends(d)
    BY <1>11
  <2>2. CASE d # c
    <3>1. /\ isendlen'[c] = isendlen[c] /\ wire'[c] = wire[c]
      BY <1>2, <2>1, <2>2 DEF HandlerSends, Writes
    <3>2. handled = NoConn /\ handled' \in {NoConn, d}
      BY <1>1, <2>1 DEF HandlerSends, Hands
    <3> QED
      BY <1>1, <1>2, <2>1, <2>2, <3>1, <3>2 DEF HandlerSends
  <2> QED
    BY <2>1, <2>2
<1>12. CASE \E d \in Conns : HandlerFails(d)
  <2>1. PICK d \in Conns : HandlerFails(d)
    BY <1>12
  <2>2. d # c /\ handled = NoConn
    BY <1>1, <1>6, <2>1 DEF HandlerFails, Hands
  <2> QED
    BY <1>1, <1>2, <2>1, <2>2 DEF HandlerFails
<1>13. CASE \E d \in Conns : \E closes, out \in BOOLEAN : Hangup(d, closes, out)
  <2>1. PICK d \in Conns, closes \in BOOLEAN, out \in BOOLEAN : Hangup(d, closes, out)
    BY <1>13
  <2>2. d # c
    BY <1>2, <1>3, <1>6, <2>1 DEF Hangup, Collected
  <2> QED
    BY <1>2, <2>1, <2>2 DEF Hangup
<1>14. CASE SenderWakes \/ SenderInterrupted \/ SenderUnlocks
  <2>1. c # p_Conn
    BY <1>1, <1>14 DEF SenderWakes, SenderInterrupted, SenderUnlocks, Hands
  <2> QED
    BY <1>14, <2>1 DEF SenderWakes, SenderInterrupted, SenderUnlocks, Scanning
<1>15. CASE \E m \in Ids : DropStale(m) \/ SkipBusy(m)
    BY <1>15 DEF DropStale, SkipBusy
<1>16. CASE \E m \in Ids : Take(m)
  <2>1. PICK m \in Ids : Take(m)
    BY <1>16
  <2>2. p_Conn = NoConn /\ conn[m] \in Conns
    BY <1>1, <2>1, AtFacts DEF Take, Hands
  <2>3. CASE conn[m] # c
    BY <1>1, <1>2, <2>1, <2>2, <2>3 DEF Take
  <2> QED
    BY <2>1, <2>3
<1>17. CASE SenderSends \/ SettleDone \/ SettleLater \/ SenderRegisters
  <2>1. CASE c # p_Conn
    <3>1. CASE SenderSends
      <4>1. isendlen'[c] = isendlen[c] /\ wire'[c] = wire[c]
        BY <1>2, <2>1, <3>1 DEF SenderSends, Writes
      <4> QED
        BY <1>2, <2>1, <3>1, <4>1 DEF SenderSends
    <3>2. CASE SettleDone \/ SettleLater \/ SenderRegisters
      BY <1>1, <1>2, <2>1, <3>2 DEF SettleDone, SettleLater, SenderRegisters
    <3> QED
      BY <1>17, <3>1, <3>2
  <2> QED
    BY <1>17, <2>1
<1>18. CASE SenderSendFails \/ BrokenPipe
    BY <1>18 DEF SenderSendFails, BrokenPipe
<1>19. CASE HandlerCounts
  <2>1. CASE c # handled
    BY <1>1, <1>2, <1>19, <2>1 DEF HandlerCounts
  <2> QED
    BY <1>19, <2>1
<1> QED
    BY <1>7, <1>8, <1>9, <1>10, <1>11, <1>12, <1>13, <1>14, <1>15, <1>16, <1>17, <1>18, <1>19
       DEF Next, sendMsg, ServerSendQueueThread

\* The count between the two writers.
LEMMA StepWriting ==
    ASSUME SendInv, Next, NEW c \in Conns, Reads(c)'
    PROVE  Writing(c)'
<1> USE DEF list, senderVars, mainVars, connVars, sending, messages
<1>1. /\ TypeOK /\ Hands /\ Sockets /\ AtWork /\ c # NoConn
    BY MessageFacts DEF SendInv
<1>2. /\ life \in [Conns -> {"open", "closed", "recy", "free"}]
      /\ epollout \in [Conns -> BOOLEAN]
      /\ psendMem \in [Conns -> Ids \cup {NoMsg}] /\ isendlen \in [Conns -> 0..MsgLen]
      /\ iThrowsendCount \in [Conns -> Int]
    BY <1>1 DEF TypeOK
<1>3. CASE Open(c)
  <2>1. c \notin {p_Conn, handled} /\ ~epollout[c]
    BY <1>1, <1>3 DEF Open, Hands, Sockets
  <2>2. /\ iThrowsendCount'[c] = 0 /\ psendMem'[c] = NoMsg /\ ~epollout'[c]
        /\ c \notin {p_Conn', handled'}
    BY <1>2, <1>3, <2>1 DEF Open
  <2> QED
    BY <2>2 DEF Writing, Settled
<1> SUFFICES ASSUME ~Open(c) PROVE Writing(c)'
    BY <1>3
<1>4. Reads(c) /\ life[c] = "open" /\ Writing(c)
    BY <1>1, ReaderSteps DEF AtWork, Reads
<1>5. CASE /\ iThrowsendCount'[c] = iThrowsendCount[c] /\ psendMem'[c] = psendMem[c]
           /\ isendlen'[c] = isendlen[c] /\ epollout'[c] = epollout[c]
           /\ c = p_Conn' <=> c = p_Conn
           /\ c = handled' <=> c = handled
           /\ c = p_Conn => UNCHANGED <<sender, result>> \/ SenderSendFails
  <2>1. CASE c = p_Conn
    <3>1. CASE UNCHANGED <<sender, result>>
      BY <1>4, <1>5, <2>1, <3>1 DEF Writing, Settled
    <3>2. CASE SenderSendFails
      <4>1. sender = "send" /\ sender' = "settle" /\ result' # "all"
        BY <3>2 DEF SenderSendFails
      <4> QED
        BY <1>4, <1>5, <2>1, <4>1 DEF Writing, Settled
    <3> QED
      BY <1>5, <2>1, <3>1, <3>2
  <2>2. CASE c # p_Conn
    BY <1>4, <1>5, <2>2 DEF Writing, Settled
  <2> QED
    BY <2>1, <2>2
<1>6. CASE \E m \in Ids : Take(m) /\ conn[m] = c
  <2>1. PICK m \in Ids : Take(m) /\ conn[m] = c
    BY <1>6
  <2>2. p_Conn = NoConn /\ iThrowsendCount[c] <= 0
    BY <1>1, <2>1 DEF Take, AtMessage, Hands
  <2>3. iThrowsendCount[c] = 0
    BY <1>4, <2>2 DEF Writing
  <2>4. c # handled /\ ~epollout[c]
    BY <1>1, <1>4, <2>2, <2>3 DEF Writing, Settled
  <2>5. /\ iThrowsendCount'[c] = 0 /\ psendMem'[c] = m /\ ~epollout'[c]
        /\ c # handled' /\ p_Conn' = c /\ sender' = "send"
    BY <1>2, <2>1, <2>3, <2>4 DEF Take
  <2>6. m # NoMsg
    BY MessageFacts
  <2> QED
    BY <2>5, <2>6 DEF Writing, Settled
<1>7. CASE c = p_Conn /\ SenderSends
  <2>1. /\ c # handled /\ psendMem[c] # NoMsg /\ ~epollout[c]
        /\ iThrowsendCount[c] = 0
    BY <1>4, <1>7 DEF Writing, SenderSends
  <2>2. /\ iThrowsendCount'[c] = 0 /\ psendMem'[c] # NoMsg /\ ~epollout'[c]
        /\ c # handled' /\ p_Conn' = c /\ sender' = "settle"
    BY <1>7, <2>1 DEF SenderSends
  <2>3. ASSUME result' = "all" PROVE isendlen'[c] = 0
    <3>1. isendlen' = [isendlen EXCEPT ![c] = @ - isendlen[c]]
      BY <1>7, <2>3 DEF SenderSends, Writes
    <3>2. isendlen[c] \in Int
      BY <1>2
    <3> QED
      BY <1>2, <3>1, <3>2
  <2> QED
    BY <2>2, <2>3 DEF Writing, Settled
<1>8. CASE c = p_Conn /\ SettleDone
  <2>1. c # handled /\ ~epollout[c]
    BY <1>4, <1>8 DEF Writing
  <2>2. /\ iThrowsendCount'[c] = 0 /\ psendMem'[c] = NoMsg /\ ~epollout'[c]
        /\ c \notin {p_Conn', handled'}
    BY <1>1, <1>2, <1>8, <2>1 DEF SettleDone
  <2> QED
    BY <2>2 DEF Writing, Settled
<1>9. CASE c = p_Conn /\ SettleLater
  <2>1. /\ c # handled /\ psendMem[c] # NoMsg /\ ~epollout[c] /\ iThrowsendCount[c] = 0
    BY <1>4, <1>9 DEF Writing, SettleLater
  <2>2. /\ iThrowsendCount'[c] = 1 /\ psendMem'[c] # NoMsg /\ ~epollout'[c]
        /\ c # handled' /\ p_Conn' = c /\ sender' = "register"
    BY <1>2, <1>9, <2>1 DEF SettleLater
  <2> QED
    BY <2>2 DEF Writing, Settled
<1>10. CASE c = p_Conn /\ SenderRegisters
  <2>1. /\ c # handled /\ psendMem[c] # NoMsg /\ iThrowsendCount[c] = 1
    BY <1>4, <1>10 DEF Writing, SenderRegisters
  <2>2. /\ iThrowsendCount'[c] = 1 /\ psendMem'[c] # NoMsg /\ epollout'[c] = TRUE
        /\ c \notin {p_Conn', handled'}
    BY <1>1, <1>2, <1>4, <1>10, <2>1 DEF SenderRegisters
  <2> QED
    BY <2>2 DEF Writing, Settled
<1>11. CASE HandlerSends(c)
  <2>1. handled = NoConn /\ c # p_Conn /\ epollout[c]
    BY <1>1, <1>4, <1>11 DEF HandlerSends, Hands, Writing
  <2>2. iThrowsendCount[c] = 1 /\ psendMem[c] # NoMsg
    BY <1>1, <1>4, <2>1 DEF Writing, Settled
  <2>3. /\ iThrowsendCount'[c] = 1 /\ c # p_Conn'
        /\ \/ ~epollout'[c] /\ psendMem'[c] = NoMsg /\ handled' = c
           \/ epollout'[c] /\ psendMem'[c] # NoMsg /\ handled' = NoConn
    BY <1>2, <1>11, <2>1, <2>2 DEF HandlerSends
  <2> QED
    BY <1>1, <2>3 DEF Writing, Settled
<1>12. CASE HandlerCounts /\ c = handled
  <2>1. c # p_Conn /\ psendMem[c] = NoMsg /\ ~epollout[c] /\ iThrowsendCount[c] = 1
    BY <1>4, <1>12 DEF Writing
  <2>2. /\ iThrowsendCount'[c] = 0 /\ psendMem'[c] = NoMsg /\ ~epollout'[c]
        /\ c \notin {p_Conn', handled'}
    BY <1>1, <1>2, <1>12, <2>1 DEF HandlerCounts
  <2> QED
    BY <2>2 DEF Writing, Settled
<1> QED
    BY <1>5, <1>6, <1>7, <1>8, <1>9, <1>10, <1>11, <1>12, ReaderSteps

\* Every action keeps the meaning of iThrowsendCount for clients that read.
LEMMA StepAtWork ==
    ASSUME SendInv, Next
    PROVE  AtWork'
<1> USE DEF senderVars, mainVars, connVars, sending
<1>1. /\ TypeOK /\ Hands /\ Sockets /\ AtWork /\ NoConn \notin Conns
    BY MessageFacts DEF SendInv
<1>2. /\ life \in [Conns -> {"open", "closed", "recy", "free"}]
      /\ peer \in [Conns -> {"up", "fin", "half", "reset", "gone"}]
      /\ psendMem \in [Conns -> Ids \cup {NoMsg}]
    BY <1>1 DEF TypeOK
<1>3. ASSUME sender' = "send"
      PROVE  psendMem'[p_Conn'] # NoMsg \/ peer'[p_Conn'] = "gone"
  <2>1. CASE \E m \in Ids : Take(m)
    BY <1>2, <2>1, AtFacts, MessageFacts DEF Take
  <2>2. CASE sender = "send" /\ p_Conn' = p_Conn
    <3>1. p_Conn \in Conns /\ (psendMem[p_Conn] # NoMsg \/ peer[p_Conn] = "gone")
      BY <1>1, <2>2, HandFacts DEF AtWork
    <3>2. ~Open(p_Conn) /\ ~Free(p_Conn)
      BY <1>1, <3>1 DEF Open, Free, Hands
    <3>3. ~HandlerSends(p_Conn)
      <4> SUFFICES ASSUME HandlerSends(p_Conn) PROVE FALSE
        OBVIOUS
      <4>1. Reads(p_Conn) /\ epollout[p_Conn]
        BY <1>1, <3>1 DEF HandlerSends, Reads
      <4> QED
        BY <1>1, <3>1, <4>1 DEF AtWork, Writing
    <3>4. peer[p_Conn] = "gone" => peer'[p_Conn] = "gone"
      <4> SUFFICES ASSUME peer[p_Conn] = "gone" PROVE peer'[p_Conn] = "gone"
        OBVIOUS
      <4>1. CASE \E c \in Conns : Open(c)
        BY <1>2, <3>1, <3>2, <4>1 DEF Open
      <4>2. CASE \E c \in Conns : HandlerSends(c)
        BY <1>2, <3>1, <4>2 DEF HandlerSends, Collected
      <4>3. CASE \E c \in Conns : HandlerFails(c)
        BY <1>2, <3>1, <4>3 DEF HandlerFails, Collected
      <4>4. CASE \E c \in Conns : \E how \in {"fin", "reset"} : PeerLeaves(c, how)
        BY <1>2, <3>1, <4>4 DEF PeerLeaves, Broken
      <4>5. CASE \E c \in Conns : \E closes, out \in BOOLEAN : Hangup(c, closes, out)
        BY <1>2, <3>1, <4>5 DEF Hangup, Collected
      <4> QED
        BY <4>1, <4>2, <4>3, <4>4, <4>5, Writers
    <3>5. CASE HandlerFails(p_Conn)
      BY <1>2, <2>2, <3>1, <3>5 DEF HandlerFails
    <3>6. CASE ~HandlerFails(p_Conn)
      <4>1. psendMem'[p_Conn] = psendMem[p_Conn]
        BY <1>2, <2>2, <3>1, <3>2, <3>3, <3>6, MemWriters
           DEF SettleDone, Take, AtMessage, Open, Free, HandlerSends, HandlerFails
      <4> QED
        BY <2>2, <3>1, <3>4, <4>1
    <3> QED
      BY <3>5, <3>6
  <2> QED
    BY <1>3, <2>1, <2>2, Writers
       DEF SenderWakes, SenderInterrupted, Scanning, SettleLater, SenderUnlocks, SenderSends,
           SenderSendFails, SettleDone, SenderRegisters
<1>4. ASSUME sender' = "settle", result' = "error", Reads(p_Conn)'
      PROVE  FALSE
  <2>1. p_Conn' = p_Conn /\ p_Conn \in Conns
    BY <1>4, HandFacts, Writers
       DEF SenderWakes, SenderInterrupted, Scanning, SettleLater, SenderUnlocks, SenderSends,
           SenderSendFails, SettleDone, SenderRegisters, Take
  <2>2. ~Open(p_Conn)
    BY <1>1, <2>1 DEF Open, Hands
  <2>3. Reads(p_Conn)
    BY <1>4, <2>1, <2>2, ReaderSteps DEF Reads
  <2>4. CASE SenderSendFails
    BY <1>4, <2>3, <2>4 DEF SenderSendFails, Broken, Reads
  <2>5. CASE sender = "settle" /\ result = "error"
    BY <1>1, <2>3, <2>5 DEF AtWork
  <2> QED
    BY <1>4, <2>4, <2>5, Writers
       DEF SenderWakes, SenderInterrupted, Scanning, SettleLater, SenderUnlocks, SenderSends,
           SettleDone, SenderRegisters, Take
<1>5. \A c \in Conns : Reads(c)' => Writing(c)'
    BY StepWriting
<1> QED
    BY <1>3, <1>4, <1>5 DEF AtWork

\* What is on the wire of a client that reads.
LEMMA StepPieces ==
    ASSUME SendInv, Next
    PROVE  Pieces'
<1> USE DEF list, senderVars, mainVars, connVars, sending, messages
<1> SUFFICES ASSUME NEW c \in Conns, Reads(c)' PROVE Whole(c)'
    BY DEF Pieces
<1>1. /\ Hands /\ Sockets /\ AtWork /\ Pieces /\ Taken
      /\ MsgLen \in Nat \ {0} /\ NoMsg \notin Ids
    BY MessageFacts, SendAssumption DEF SendInv
<1>2. /\ psendMem \in [Conns -> Ids \cup {NoMsg}] /\ isendlen \in [Conns -> 0..MsgLen]
      /\ wire \in [Conns -> Seq(Piece)]
    BY DEF SendInv, TypeOK, Piece
<1>3. CASE Open(c)
  <2>1. wire'[c] = <<>> /\ psendMem'[c] = NoMsg
    BY <1>2, <1>3 DEF Open
  <2>2. Chain(<<>>) /\ First(<<>>) /\ NoRepeats(<<>>) /\ Finished(<<>>)
    BY DEF Chain, First, NoRepeats, Finished
  <2> QED
    BY <2>1, <2>2 DEF Whole
<1> SUFFICES ASSUME ~Open(c) PROVE Whole(c)'
    BY <1>3
<1>4. Reads(c) /\ life[c] = "open" /\ Writing(c) /\ Whole(c)
    BY <1>1, ReaderSteps DEF AtWork, Pieces, Reads
<1>5. CASE /\ psendMem'[c] = psendMem[c] /\ isendlen'[c] = isendlen[c] /\ wire'[c] = wire[c]
    BY <1>4, <1>5 DEF Whole
\* A message that was in the list is not on the wire yet.
<1>6. CASE \E m \in Ids : Take(m) /\ conn[m] = c
  <2>1. PICK m \in Ids : Take(m) /\ conn[m] = c
    BY <1>6
  <2>2. p_Conn = NoConn /\ iThrowsendCount[c] <= 0 /\ m \in ToSet(queue)
    BY <1>1, <2>1, AtFacts DEF Take, AtMessage, Hands
  <2>3. c # p_Conn
    BY <2>2, MessageFacts
  <2>4. iThrowsendCount[c] = 0
    BY <1>4, <2>2 DEF Writing
  <2>5. psendMem[c] = NoMsg
    BY <1>4, <2>3, <2>4 DEF Writing, Settled
  <2>6. /\ psendMem'[c] = m /\ isendlen'[c] = MsgLen /\ wire'[c] = wire[c]
    BY <1>2, <2>1 DEF Take
  <2>7. Upto(wire[c], m, 0)
    <3>1. \A i \in 1..Len(wire[c]) : wire[c][i][1] # m
      BY <1>1, <2>2 DEF Taken
    <3>2. Finished(wire[c])
      BY <1>4, <2>5 DEF Whole
    <3> QED
      BY <3>1, <3>2 DEF Upto
  <2>8. MsgLen - MsgLen = 0 /\ m # NoMsg
    BY <1>1
  <2>9. Chain(wire[c]) /\ First(wire[c]) /\ NoRepeats(wire[c])
    BY <1>4 DEF Whole
  <2> QED
    BY <2>6, <2>7, <2>8, <2>9 DEF Whole
<1>7. CASE (c = p_Conn /\ SenderSends) \/ HandlerSends(c)
  <2>1. PICK n : /\ n \in 1..isendlen[c] /\ Writes(c, n)
                 /\ \/ sender = "send" /\ c = p_Conn /\ life[c] = "open" /\ ~Broken(c)
                       /\ psendMem' = psendMem
                    \/ main = "epoll" /\ Reads(c) /\ epollout[c]
                       /\ IF n = isendlen[c] THEN psendMem' = [psendMem EXCEPT ![c] = NoMsg]
                                             ELSE psendMem' = psendMem
    BY <1>7 DEF SenderSends, HandlerSends, Reads
  <2>2. /\ psendMem[c] \in Ids /\ n \in Nat \ {0} /\ MsgLen - isendlen[c] \in Nat
        /\ (MsgLen - isendlen[c]) + n <= MsgLen
        /\ (MsgLen - isendlen[c]) + n = MsgLen - (isendlen[c] - n)
        /\ isendlen' = [isendlen EXCEPT ![c] = isendlen[c] - n]
        /\ wire[c] \in Seq(Piece)
        /\ \E v \in Seq(Piece) :
              /\ wire' = [wire EXCEPT ![c] = v] /\ Len(v) = Len(wire[c]) + n
              /\ \A i \in 1..Len(wire[c]) : v[i] = wire[c][i]
              /\ \A j \in 1..n :
                    v[Len(wire[c]) + j] = <<psendMem[c], (MsgLen - isendlen[c]) + j>>
    <3>1. /\ n \in 1..isendlen[c] /\ Writes(c, n)
          /\ \/ sender = "send" /\ c = p_Conn /\ life[c] = "open" /\ ~Broken(c)
             \/ main = "epoll" /\ Reads(c) /\ epollout[c]
      BY <2>1
    <3> QED
      BY <3>1, WriteFacts
  <2> DEFINE m == psendMem[c]
             k == MsgLen - isendlen[c]
  <2>3. PICK v \in Seq(Piece) :
              /\ wire' = [wire EXCEPT ![c] = v] /\ Len(v) = Len(wire[c]) + n
              /\ \A i \in 1..Len(wire[c]) : v[i] = wire[c][i]
              /\ \A j \in 1..n : v[Len(wire[c]) + j] = <<m, k + j>>
    BY <2>2
  <2>4. wire'[c] = v /\ isendlen'[c] = isendlen[c] - n
    BY <1>2, <2>2, <2>3
  <2>5. /\ Chain(wire[c]) /\ First(wire[c]) /\ NoRepeats(wire[c])
        /\ Upto(wire[c], m, k)
    <3>1. m # NoMsg
      BY <1>1, <2>2
    <3> QED
      BY <1>4, <3>1 DEF Whole
  <2>6. /\ m \in Ids /\ k \in Nat /\ n \in Nat \ {0} /\ k + n <= MsgLen
        /\ k + n = MsgLen - (isendlen[c] - n) /\ wire[c] \in Seq(Piece)
    BY <2>2
  <2> HIDE DEF m, k
  <2>7. Chain(v) /\ First(v) /\ NoRepeats(v) /\ Upto(v, m, k + n)
    BY <2>3, <2>5, <2>6, WriteExtends
  <2>8. CASE psendMem'[c] = m
    <3>1. m # NoMsg /\ k + n = MsgLen - isendlen'[c]
      BY <1>1, <2>4, <2>6
    <3> QED
      BY <2>4, <2>7, <2>8, <3>1 DEF Whole
  <2>9. CASE n = isendlen[c] /\ psendMem'[c] = NoMsg
    <3>1. k + n = MsgLen
      BY <1>1, <1>2, <2>9 DEF k
    <3>2. Upto(v, m, MsgLen)
      BY <2>7, <3>1
    <3>3. Finished(v)
      BY <1>1, <3>2 DEF Upto, Finished
    <3> QED
      BY <2>4, <2>7, <2>9, <3>3 DEF Whole
  <2> QED
    BY <1>2, <2>1, <2>8, <2>9 DEF m
<1>8. CASE c = p_Conn /\ SettleDone
  <2>1. /\ isendlen[c] = 0 /\ psendMem[c] # NoMsg
    BY <1>1, <1>4, <1>8 DEF Writing, SettleDone, AtWork
  <2>2. Upto(wire[c], psendMem[c], MsgLen)
    <3>1. MsgLen - 0 = MsgLen
      BY <1>1
    <3> QED
      BY <1>4, <2>1, <3>1 DEF Whole
  <2>3. Finished(wire[c])
    BY <1>1, <2>2 DEF Upto, Finished
  <2>4. psendMem'[c] = NoMsg /\ wire'[c] = wire[c]
    BY <1>2, <1>8 DEF SettleDone
  <2> QED
    BY <1>4, <2>3, <2>4 DEF Whole
<1>9. CASE (c = p_Conn /\ (SettleLater \/ SenderRegisters)) \/ HandlerCounts
    BY <1>5, <1>9 DEF SettleLater, SenderRegisters, HandlerCounts
<1> QED
    BY <1>5, <1>6, <1>7, <1>8, <1>9, ReaderSteps

-----------------------------------------------------------------------------
(* Where the messages are, and the counters.                               *)

\* What is freed was given to sendMsg.
LEMMA StepGiven ==
    ASSUME SendInv, Next
    PROVE  Given'
<1> USE DEF list, senderVars, mainVars, connVars, sending, messages
<1>1. freed \subseteq 1..Len(conn) /\ 1..Len(conn) \subseteq 1..Len(conn')
    BY MessagesStay DEF SendInv, Given
<1>2. \A c \in Conns : {psendMem[c]} \ {NoMsg} \subseteq 1..Len(conn)
    BY DEF SendInv, Taken
<1>3. CASE UNCHANGED freed
    BY <1>1, <1>3 DEF Given
<1>4. CASE \E m \in Ids : DropStale(m)
    BY <1>1, <1>4, AtFacts DEF DropStale, Given
<1>5. CASE \E c \in Conns : SendMsgDrops(c) \/ SendMsgCutsOff(c)
    BY <1>1, <1>5, CallFacts DEF SendMsgDrops, SendMsgCutsOff, Given
<1>6. CASE SettleDone
    BY <1>1, <1>2, <1>6, HandFacts DEF SettleDone, Given
<1>7. CASE \E c \in Conns : Free(c) \/ HandlerSends(c) \/ HandlerFails(c)
    BY <1>1, <1>2, <1>7 DEF Free, HandlerSends, HandlerFails, Given
<1> QED
    BY <1>3, <1>4, <1>5, <1>6, <1>7, Writers

\* What is on the wire of a client that reads stays there.
LEMMA WireStays ==
    ASSUME SendInv, Next, NEW c \in Conns, Reads(c)', ~Open(c)
    PROVE  \A i \in 1..Len(wire[c]) : i \in 1..Len(wire'[c]) /\ wire'[c][i] = wire[c][i]
<1>1. wire \in [Conns -> Seq(Piece)] /\ Reads(c)
    BY ReaderSteps DEF SendInv, TypeOK, Piece
<1>2. Len(wire[c]) \in Nat
    BY <1>1, LenProperties
<1>3. CASE UNCHANGED wire
    BY <1>3
<1>4. CASE \E d \in Conns : Open(d)
    BY <1>1, <1>4 DEF Open
<1>5. CASE SenderSends \/ \E d \in Conns : HandlerSends(d)
  <2>1. PICK d, n :
           /\ d \in Conns /\ n \in 1..isendlen[d]
           /\ Writes(d, n)
           /\ \/ sender = "send" /\ d = p_Conn /\ life[d] = "open" /\ ~Broken(d)
              \/ main = "epoll" /\ Reads(d) /\ epollout[d]
    BY <1>5, HandFacts DEF SenderSends, HandlerSends, Reads
  <2>2. /\ n \in Nat
        /\ \E v \in Seq(Piece) :
              /\ wire' = [wire EXCEPT ![d] = v] /\ Len(v) = Len(wire[d]) + n
              /\ \A i \in 1..Len(wire[d]) : v[i] = wire[d][i]
              /\ \A j \in 1..n :
                    v[Len(wire[d]) + j] = <<psendMem[d], (MsgLen - isendlen[d]) + j>>
    BY <2>1, WriteFacts
  <2>3. PICK v \in Seq(Piece) :
              /\ wire' = [wire EXCEPT ![d] = v] /\ Len(v) = Len(wire[d]) + n
              /\ \A i \in 1..Len(wire[d]) : v[i] = wire[d][i]
    BY <2>2
  <2>4. CASE c # d
    BY <1>1, <2>3, <2>4
  <2>5. CASE c = d
    BY <1>1, <1>2, <2>2, <2>3, <2>5
  <2> QED
    BY <2>4, <2>5
<1> QED
    BY <1>3, <1>4, <1>5, Writers

\* What the step frees of a client that reads is written to its last piece.
LEMMA FreedIsWritten ==
    ASSUME SendInv, Next, NEW m \in 1..Len(conn), Reads(conn[m])', ~Open(conn[m]),
           stamp[m] = seq[conn[m]], m \notin freed, m \in freed'
    PROVE  Written(m)'
<1> USE DEF list, senderVars, mainVars, connVars, sending, messages
<1>1. PICK c \in Conns : conn[m] = c /\ conn'[m] = c /\ m \in Ids /\ m # NoMsg
    BY MessageFacts, MessagesStay
<1>2. /\ AtWork /\ Hands /\ Pieces /\ psendMem \in [Conns -> Ids \cup {NoMsg}]
      /\ isendlen \in [Conns -> 0..MsgLen] /\ wire \in [Conns -> Seq(Piece)]
      /\ MsgLen \in Nat \ {0} /\ NoMsg \notin Ids
    BY MessageFacts, SendAssumption DEF SendInv, TypeOK, Piece
<1>3. Reads(c)' /\ Reads(c) /\ Writing(c) /\ Whole(c)
  <2>1. Reads(c)'
    BY <1>1 DEF Reads
  <2>2. Reads(c)
    BY <1>1, <2>1, ReaderSteps
  <2> QED
    BY <1>2, <2>1, <2>2 DEF AtWork, Pieces
<1>4. \A d \in Conns : psendMem[d] = m => d = c
    BY <1>1 DEF SendInv, Taken
<1>5. SUFFICES \E i \in 1..Len(wire'[c]) : wire'[c][i] = <<m, MsgLen>>
    BY <1>1 DEF Written
<1>6. CASE SettleDone
  <2>1. psendMem[p_Conn] = m /\ p_Conn \in Conns /\ sender = "settle"
    BY <1>6, HandFacts DEF SettleDone
  <2>2. p_Conn = c
    BY <1>4, <2>1
  <2>3. result = "all"
    BY <1>2, <1>3, <1>6, <2>2 DEF SettleDone, AtWork
  <2>4. isendlen[c] = 0
    BY <1>3, <2>1, <2>2, <2>3 DEF Writing
  <2>5. Upto(wire[c], m, MsgLen - 0)
    BY <1>1, <1>3, <2>1, <2>2, <2>4 DEF Whole
  <2>6. MsgLen - 0 = MsgLen /\ MsgLen # 0
    BY <1>2
  <2>7. wire[c] # <<>> /\ wire[c][Len(wire[c])] = <<m, MsgLen>>
    BY <2>5, <2>6 DEF Upto
  <2>8. wire'[c] = wire[c]
    BY <1>6 DEF SettleDone
  <2>9. Len(wire[c]) \in 1..Len(wire[c])
    BY <1>2, <2>7, LenProperties, EmptySeq
  <2> QED
    BY <2>7, <2>8, <2>9
<1>7. CASE \E d \in Conns : HandlerSends(d)
  <2>1. PICK d \in Conns : HandlerSends(d)
    BY <1>7
  <2>2. PICK n \in 1..isendlen[d] :
           /\ Writes(d, n)
           /\ n = isendlen[d] /\ freed' = freed \cup ({psendMem[d]} \ {NoMsg})
    BY <2>1, Zenon DEF HandlerSends
  <2>3. psendMem[d] = m /\ d = c
    BY <1>4, <2>2
  <2>4. main = "epoll" /\ Reads(c) /\ epollout[c]
    BY <2>1, <2>3 DEF HandlerSends, Reads
  <2>5. n \in 1..isendlen[c] /\ Writes(c, n) /\ n = isendlen[c]
    BY <2>2, <2>3
  <2>6. /\ n \in Nat \ {0} /\ (MsgLen - isendlen[c]) + n <= MsgLen
        /\ wire[c] \in Seq(Piece)
        /\ \E v \in Seq(Piece) :
              /\ wire' = [wire EXCEPT ![c] = v] /\ Len(v) = Len(wire[c]) + n
              /\ \A i \in 1..Len(wire[c]) : v[i] = wire[c][i]
              /\ \A j \in 1..n :
                    v[Len(wire[c]) + j] = <<psendMem[c], (MsgLen - isendlen[c]) + j>>
    BY <2>4, <2>5, WriteFacts
  <2>7. PICK v \in Seq(Piece) :
              /\ wire' = [wire EXCEPT ![c] = v] /\ Len(v) = Len(wire[c]) + n
              /\ v[Len(wire[c]) + n] = <<psendMem[c], (MsgLen - isendlen[c]) + n>>
    <3>1. n \in 1..n
      BY <2>6
    <3> QED
      BY <2>6, <3>1
  <2>8. (MsgLen - isendlen[c]) + n = MsgLen
    BY <1>2, <2>5
  <2>9. Len(wire[c]) \in Nat
    BY <2>6, LenProperties
  <2>10. wire'[c] = v /\ Len(wire[c]) + n \in 1..Len(v)
    BY <1>2, <2>6, <2>7, <2>9
  <2>11. v[Len(wire[c]) + n] = <<m, MsgLen>>
    BY <2>3, <2>7, <2>8
  <2> QED
    BY <2>10, <2>11
<1>8. ~ \E d \in Conns : Free(d) \/ HandlerFails(d)
  <2> SUFFICES ASSUME NEW d \in Conns, Free(d) \/ HandlerFails(d) PROVE FALSE
    OBVIOUS
  <2>1. psendMem[d] = m
    BY DEF Free, HandlerFails
  <2>2. d = c
    BY <1>4, <2>1
  <2> QED
    BY <1>3, <2>2 DEF Free, HandlerFails, Reads
<1>9. ~ \E x \in Ids : DropStale(x)
  <2> SUFFICES ASSUME NEW x \in Ids, DropStale(x) PROVE FALSE
    OBVIOUS
  <2>1. x = m
    BY DEF DropStale
  <2> QED
    BY <2>1 DEF DropStale
<1>10. ~ \E d \in Conns : SendMsgDrops(d) \/ SendMsgCutsOff(d)
  <2> SUFFICES ASSUME NEW d \in Conns, SendMsgDrops(d) \/ SendMsgCutsOff(d) PROVE FALSE
    OBVIOUS
  <2>1. m = ThisMsg /\ Call(d)
    BY DEF SendMsgDrops, SendMsgCutsOff
  <2> QED
    BY <2>1, CallFacts
<1> QED
    BY <1>6, <1>7, <1>8, <1>9, <1>10, Writers

\* No action drops a message for a client that reads.
LEMMA StepKept ==
    ASSUME SendInv, Next
    PROVE  Kept'
<1> USE DEF list, senderVars, mainVars, connVars, sending, messages
<1> SUFFICES ASSUME NEW m \in 1..Len(conn'), Reads(conn[m])', stamp'[m] = seq'[conn'[m]]
             PROVE  IF m \in freed' THEN m \in refused' \/ Written(m)'
                    ELSE m \in ToSet(queue') \/ psendMem'[conn'[m]] = m
    BY DEF Kept
<1>1. /\ AtWork /\ Hands /\ Kept /\ psendMem \in [Conns -> Ids \cup {NoMsg}]
      /\ NoMsg \notin Ids /\ NoConn \notin Conns
    BY MessageFacts DEF SendInv, TypeOK
<1>2. CASE m \notin 1..Len(conn)
  <2>1. m = ThisMsg /\ sendMsg(conn'[m]) /\ conn'[m] \in Conns
    BY <1>2, MessagesStay
  <2>2. CASE SendMsgQueues(conn'[m])
    <3>1. Call(conn'[m]) /\ queue' = Append(queue, ThisMsg) /\ freed' = freed
      BY <2>2 DEF SendMsgQueues
    <3>2. ThisMsg \in Ids /\ queue \in Seq(Ids)
      BY <2>1, <3>1, CallFacts, MessageFacts
    <3>3. ToSet(queue') = ToSet(queue) \cup {ThisMsg}
      BY <3>1, <3>2, AppendSet
    <3>4. m \notin freed'
      BY <1>2, <3>1 DEF SendInv, Given
    <3> QED
      BY <2>1, <3>3, <3>4
  <2> QED
    BY <2>1, <2>2 DEF sendMsg, SendMsgDrops, SendMsgCutsOff
<1>3. CASE m \in 1..Len(conn)
  <2>1. PICK c \in Conns : conn[m] = c
    BY <1>3, MessageFacts
  <2>2. conn[m] = c /\ conn'[m] = c /\ stamp'[m] = stamp[m] /\ m \in Ids
    BY <1>3, <2>1, MessageFacts, MessagesStay
  <2>3. stamp[m] <= seq[c] /\ stamp[m] \in Nat
    BY <1>3, <2>2, MessageFacts DEF SendInv, Numbers
  <2>4. ~Open(c)
    <3> SUFFICES ASSUME Open(c) PROVE FALSE
      OBVIOUS
    <3>1. seq \in [Conns -> Nat]
      BY DEF SendInv, TypeOK
    <3>2. seq'[c] = seq[c] + 1
      BY <2>2, <3>1 DEF Open
    <3>3. seq[c] \in Nat
      BY <2>2, <3>1
    <3> QED
      BY <2>2, <2>3, <3>2, <3>3
  <2>5. Reads(c)'
    BY <2>2 DEF Reads
  <2>6. Reads(c) /\ seq'[c] = seq[c]
    BY <2>2, <2>4, <2>5, ReaderSteps
  <2>7. IF m \in freed THEN m \in refused \/ Written(m)
        ELSE m \in ToSet(queue) \/ psendMem[c] = m
    BY <1>1, <1>3, <2>2, <2>6 DEF Kept
  <2>8. CASE m \in freed
    <3>1. m \in freed'
      BY <2>8, Writers DEF SettleDone, DropStale, Free, SendMsgDrops, SendMsgCutsOff,
                           HandlerSends, HandlerFails
    <3>2. ASSUME m \in refused PROVE m \in refused'
      BY <3>2, Writers DEF SendMsgDrops, SendMsgCutsOff
    <3>3. ASSUME Written(m) PROVE Written(m)'
      <4>1. PICK i \in 1..Len(wire[c]) : wire[c][i] = <<m, MsgLen>>
        BY <2>2, <3>3 DEF Written
      <4>2. i \in 1..Len(wire'[c]) /\ wire'[c][i] = <<m, MsgLen>>
        BY <2>4, <2>5, <4>1, WireStays
      <4> QED
        BY <2>2, <4>2 DEF Written
    <3> QED
      BY <2>7, <2>8, <3>1, <3>2, <3>3
  <2>9. CASE m \notin freed /\ m \in freed'
    <3>1. Reads(conn[m])' /\ ~Open(conn[m]) /\ stamp[m] = seq[conn[m]]
      BY <2>2, <2>4, <2>6
    <3> QED
      BY <1>3, <2>9, <3>1, FreedIsWritten
  <2> SUFFICES ASSUME m \notin freed, m \notin freed'
               PROVE  m \in ToSet(queue') \/ psendMem'[c] = m
    BY <2>2, <2>8, <2>9
  <2>10. CASE m \in ToSet(queue)
    <3>1. CASE \E x \in Ids : (DropStale(x) \/ Take(x)) /\ ToSet(queue') = ToSet(queue) \ {x}
      <4>1. PICK x \in Ids : (DropStale(x) \/ Take(x)) /\ ToSet(queue') = ToSet(queue) \ {x}
        BY <3>1
      <4>2. CASE x = m
        BY <1>1, <2>2, <4>1, <4>2 DEF DropStale, Take
      <4> QED
        BY <2>10, <4>1, <4>2
    <3> QED
      BY <2>10, <3>1, ListChanges
  <2>11. CASE psendMem[c] = m
    <3>1. Writing(c) /\ psendMem[c] # NoMsg
      BY <1>1, <2>2, <2>6, <2>11 DEF AtWork
    <3>2. CASE psendMem'[c] = psendMem[c]
      BY <2>11, <3>2
    <3>3. CASE \E x \in Ids : Take(x) /\ conn[x] = c
      <4>1. p_Conn = NoConn /\ iThrowsendCount[c] <= 0
        BY <1>1, <3>3 DEF Take, AtMessage, Hands
      <4>2. iThrowsendCount[c] = 0
        BY <3>1, <4>1 DEF Writing
      <4> QED
        BY <1>1, <2>2, <3>1, <4>1, <4>2 DEF Writing, Settled
    <3>4. CASE c = p_Conn /\ SettleDone
      BY <2>11, <3>1, <3>4 DEF SettleDone
    <3>5. CASE (c = p_Conn /\ (SenderSends \/ SettleLater \/ SenderRegisters)) \/ HandlerCounts
      BY <3>2, <3>5 DEF SenderSends, SettleLater, SenderRegisters, HandlerCounts
    <3>6. CASE HandlerSends(c)
      BY <2>11, <3>1, <3>2, <3>6 DEF HandlerSends
    <3> QED
      BY <2>2, <2>4, <2>5, <3>2, <3>3, <3>4, <3>5, <3>6, ReaderSteps
  <2> QED
    BY <2>7, <2>10, <2>11
<1> QED
    BY <1>2, <1>3

\* The messages in the list for the client that has the object.
Mine(c) == {m \in ToSet(queue) : conn[m] = c /\ stamp[m] = seq[c]}

\* Every action keeps the two counters in step with the list.
LEMMA StepCounted ==
    ASSUME SendInv, Next
    PROVE  QueueCounted'
<1> USE DEF list, senderVars, mainVars, connVars, sending, messages
<1>1. /\ TypeOK /\ QueueCounted /\ Len(queue) \in Nat /\ QMax \in Nat /\ CMax \in Nat
      /\ ToSet(queue) \subseteq 1..Len(conn) /\ IsFiniteSet(ToSet(queue))
      /\ iSendCount \in [Conns -> Int] /\ seq \in [Conns -> Nat]
      /\ life \in [Conns -> {"open", "closed", "recy", "free"}]
    BY MessageFacts, SendAssumption DEF SendInv, TypeOK
<1>2. count' = Len(queue') /\ count' <= QMax + 1
  <2>1. count = Len(queue) /\ count <= QMax + 1
    BY <1>1 DEF QueueCounted
  <2>2. (\E c \in Conns : SendMsgQueues(c)) => count <= QMax
    BY DEF SendMsgQueues
  <2>3. \/ Len(queue') = Len(queue) /\ count' = count
        \/ Len(queue') = Len(queue) + 1 /\ count' = count + 1 /\ count <= QMax
        \/ Len(queue') = Len(queue) - 1 /\ count' = count - 1
    BY <2>2, ListChanges
  <2> QED
    BY <1>1, <2>1, <2>3
<1>3. ASSUME NEW c \in Conns, life'[c] \in {"open", "closed"}
      PROVE  iSendCount'[c] = Cardinality(Mine(c)') /\ iSendCount'[c] <= CMax + 1
  <2>1. CASE Open(c)
    <3>1. iSendCount'[c] = 0 /\ seq'[c] = seq[c] + 1 /\ seq[c] \in Nat
      BY <1>1, <2>1 DEF Open
    <3>2. UNCHANGED <<queue, conn, stamp>>
      BY <2>1 DEF Open
    <3>3. Mine(c)' = {}
      <4> SUFFICES ASSUME NEW m \in ToSet(queue), conn[m] = c, stamp[m] = seq[c] + 1
                   PROVE  FALSE
        BY <3>1, <3>2 DEF Mine
      <4>1. stamp[m] <= seq[c]
        BY <1>1 DEF SendInv, Numbers
      <4> QED
        BY <3>1, <4>1
    <3> QED
      BY <1>1, <3>1, <3>3, FS_EmptySet
  <2>2. CASE ~Open(c)
    <3>1. life[c] \in {"open", "closed"} /\ seq'[c] = seq[c]
      <4>1. life \in [Conns -> {"free", "open", "closed", "recy"}] /\ seq \in [Conns -> Nat]
        BY <1>1 DEF SendInv, TypeOK
      <4>2. CASE \E d \in Conns : Open(d)
        BY <1>3, <2>2, <4>1, <4>2 DEF Open
      <4>3. CASE \E d \in Conns : GiveUp(d)
        BY <1>3, <4>1, <4>3 DEF GiveUp
      <4>4. CASE \E d \in Conns : Free(d)
        BY <1>3, <4>1, <4>4 DEF Free
      <4>5. CASE ~\E d \in Conns : Open(d) \/ GiveUp(d) \/ Free(d)
        <5>1. seq' = seq
          BY <1>1, <4>5, SeqWriters
        <5>2. CASE UNCHANGED life
          BY <1>3, <5>1, <5>2
        <5>3. CASE \E d \in Conns : SendMsgCutsOff(d)
          BY <1>3, <4>1, <5>1, <5>3 DEF SendMsgCutsOff
        <5>4. CASE \E d \in Conns, closes, out \in BOOLEAN : Hangup(d, closes, out)
          BY <1>3, <4>1, <5>1, <5>4 DEF Hangup
        <5> QED
          BY <1>1, <4>5, <5>2, <5>3, <5>4, LifeWriters
      <4> QED
        BY <4>2, <4>3, <4>4, <4>5
    <3>2. /\ iSendCount[c] = Cardinality(Mine(c)) /\ iSendCount[c] <= CMax + 1
          /\ iSendCount[c] \in Int
      BY <1>1, <3>1 DEF QueueCounted, Mine
    <3>3. IsFiniteSet(Mine(c))
      BY <1>1, FS_Subset DEF Mine
    <3>4. \A m \in ToSet(queue) : conn'[m] = conn[m] /\ stamp'[m] = stamp[m]
      BY <1>1, MessagesStay
    <3>5. CASE ~ \/ \E d \in Conns : SendMsgQueues(d)
                 \/ \E m \in Ids : DropStale(m) \/ Take(m)
      <4>1. UNCHANGED queue
        BY <3>5, Writers
      <4>2. Mine(c)' = Mine(c)
        BY <3>1, <3>4, <4>1 DEF Mine
      <4>3. iSendCount'[c] = iSendCount[c]
        BY <1>1, <2>2, <3>5, SendCountWriters DEF Open
      <4> QED
        BY <3>2, <4>2, <4>3
    <3>6. CASE \E d \in Conns : SendMsgQueues(d)
      <4>1. PICK d \in Conns : SendMsgQueues(d)
        BY <3>6
      <4>2. /\ ThisMsg \notin ToSet(queue) /\ conn'[ThisMsg] = d
            /\ stamp'[ThisMsg] = IF life[d] = "recy" THEN seq[d] - 1 ELSE seq[d]
            /\ ThisMsg \in Ids
        BY <4>1, CallFacts DEF SendMsgQueues
      <4>3. ToSet(queue') = ToSet(queue) \cup {ThisMsg}
        <5>1. queue \in Seq(Ids) /\ queue' = Append(queue, ThisMsg)
          BY <4>1, MessageFacts DEF SendMsgQueues
        <5> QED
          BY <4>2, <5>1, AppendSet
      <4>4. CASE d = c
        <5>1. iSendCount'[c] = iSendCount[c] + 1 /\ iSendCount[c] <= CMax
          BY <1>1, <4>1, <4>4 DEF SendMsgQueues
        <5>2. Mine(c)' = Mine(c) \cup {ThisMsg} /\ ThisMsg \notin Mine(c)
          BY <3>1, <3>4, <4>2, <4>3, <4>4 DEF Mine
        <5>3. Cardinality(Mine(c)') = Cardinality(Mine(c)) + 1
          BY <3>3, <5>2, FS_AddElement
        <5> QED
          BY <1>1, <3>2, <5>1, <5>3
      <4>5. CASE d # c
        <5>1. iSendCount'[c] = iSendCount[c]
          BY <1>1, <4>1, <4>5 DEF SendMsgQueues
        <5>2. Mine(c)' = Mine(c)
          BY <3>1, <3>4, <4>2, <4>3, <4>5 DEF Mine
        <5> QED
          BY <3>2, <5>1, <5>2
      <4> QED
        BY <4>4, <4>5
    <3>7. CASE \E m \in Ids : DropStale(m) \/ Take(m)
      <4>1. PICK m \in Ids : DropStale(m) \/ Take(m)
        BY <3>7
      <4>2. m \in ToSet(queue) /\ ToSet(queue') = ToSet(queue) \ {m} /\ conn[m] \in Conns
        BY <4>1, AtFacts DEF DropStale, Take
      <4>3. CASE Take(m) /\ conn[m] = c
        <5>1. iSendCount'[c] = iSendCount[c] - 1 /\ stamp[m] = seq[c]
          BY <1>1, <4>3 DEF Take
        <5>2. m \in Mine(c) /\ Mine(c)' = Mine(c) \ {m}
          BY <3>1, <3>4, <4>2, <4>3, <5>1 DEF Mine
        <5>3. Cardinality(Mine(c)') = Cardinality(Mine(c)) - 1
          BY <3>3, <5>2, FS_RemoveElement
        <5> QED
          BY <1>1, <3>2, <5>1, <5>3
      <4>4. CASE ~(Take(m) /\ conn[m] = c)
        <5>1. iSendCount'[c] = iSendCount[c] /\ ~(conn[m] = c /\ stamp[m] = seq[c])
          BY <1>1, <4>1, <4>2, <4>4 DEF DropStale, Take
        <5>2. Mine(c)' = Mine(c)
          BY <3>1, <3>4, <4>2, <5>1 DEF Mine
        <5> QED
          BY <3>2, <5>1, <5>2
      <4> QED
        BY <4>3, <4>4
    <3> QED
      BY <3>5, <3>6, <3>7
  <2> QED
    BY <2>1, <2>2
<1> QED
    BY <1>2, <1>3 DEF QueueCounted, Mine

-----------------------------------------------------------------------------
(* The theorems.                                                           *)

\* Every step keeps the invariant.
LEMMA StepSend == SendInv /\ [Next]_vars => SendInv'
<1> SUFFICES ASSUME SendInv, [Next]_vars PROVE SendInv'
    OBVIOUS
<1>1. CASE Next
  <2>1. TypeOK' /\ Numbers' /\ Hands' /\ Sockets' /\ Taken'
    BY <1>1, StepSendType, StepNumbers, StepHands, StepSockets, StepTaken
  <2>2. AtWork' /\ Pieces' /\ Kept' /\ Given' /\ QueueCounted'
    BY <1>1, StepAtWork, StepPieces, StepKept, StepGiven, StepCounted
  <2> QED
    BY <2>1, <2>2 DEF SendInv
<1>2. CASE UNCHANGED vars
  <2> USE DEF vars, list, senderVars, mainVars, connVars, sending, messages
  <2>1. TypeOK'
    BY <1>2 DEF SendInv, TypeOK
  <2>2. Numbers' /\ Hands'
    BY <1>2 DEF SendInv, Numbers, NoRepeats, Hands
  <2>3. Sockets' /\ Taken'
    BY <1>2 DEF SendInv, Sockets, Taken
  <2>4. AtWork'
    BY <1>2 DEF SendInv, AtWork, Writing, Settled, Reads
  <2>5. Pieces'
    BY <1>2 DEF SendInv, Pieces, Whole, Reads
  <2>6. Kept' /\ Given'
    BY <1>2 DEF SendInv, Kept, Given, Written, Reads
  <2>7. QueueCounted'
    BY <1>2 DEF SendInv, QueueCounted
  <2> QED
    BY <2>1, <2>2, <2>3, <2>4, <2>5, <2>6, <2>7 DEF SendInv
<1> QED
    BY <1>1, <1>2

\* The invariant of the sending side.
THEOREM Inductive == Spec => []SendInv
<1>1. Init => SendInv
    BY InitSend
<1>2. SendInv /\ [Next]_vars => SendInv'
    BY StepSend
<1> QED
    BY <1>1, <1>2, PTL DEF Spec

\* A client that has done nothing but read is one of those the invariant is about.
LEMMA CalmReads ==
    ASSUME SendInv, NEW c \in Conns, Calm(c)
    PROVE  Reads(c)
BY DEF SendInv, Sockets, Calm, Reads

\* m_iSendMsgQueueCount is the length of the list, iSendCount of an object in use the number
\* of messages in it for its client, and both limits of sendMsg hold, one above at most.
THEOREM CountersFollow == Spec => []QueueConsistent
<1>1. SendInv => QueueConsistent
    BY DEF SendInv, QueueConsistent
<1> QED
    BY <1>1, Inductive, PTL

\* Send thread and event loop never write to a client that reads at once, and
\* iThrowsendCount, 0 or 1, says which of the two is to write next.
THEOREM WritersTakeTurns == Spec => []OneWriter
<1>1. SendInv => OneWriter
    BY CalmReads DEF SendInv, AtWork, Writing, OneWriter
<1> QED
    BY <1>1, Inductive, PTL

\* A client that reads receives whole messages, one after the other and none twice.
THEOREM WholeMessages == Spec => []WireOfWholeMessages
<1>1. SendInv => WireOfWholeMessages
  <2> SUFFICES ASSUME SendInv, NEW c \in Conns, Calm(c), NEW w, w = wire[c]
               PROVE  /\ \A i \in 1..(Len(w) - 1) : Follows(w[i], w[i + 1])
                      /\ w # <<>> =>
                            /\ w[1][2] = 1
                            /\ w[Len(w)][2] < MsgLen =>
                                  /\ psendMem[c] = w[Len(w)][1]
                                  /\ isendlen[c] = MsgLen - w[Len(w)][2]
                      /\ \A i, j \in 1..Len(w) : w[i] = w[j] => i = j
    BY DEF WireOfWholeMessages
  <2>1. /\ Chain(w) /\ First(w) /\ NoRepeats(w)
        /\ IF psendMem[c] = NoMsg THEN Finished(w)
           ELSE Upto(w, psendMem[c], MsgLen - isendlen[c])
    BY CalmReads DEF SendInv, Pieces, Whole
  <2>2. isendlen[c] \in 0..MsgLen /\ MsgLen \in Nat
    BY SendAssumption DEF SendInv, TypeOK
  <2>3. ASSUME w # <<>>, w[Len(w)][2] < MsgLen
        PROVE  psendMem[c] = w[Len(w)][1] /\ isendlen[c] = MsgLen - w[Len(w)][2]
    <3>1. ~Finished(w)
      BY <2>2, <2>3 DEF Finished
    <3>2. w[Len(w)] = <<psendMem[c], MsgLen - isendlen[c]>>
      BY <2>1, <3>1 DEF Upto
    <3>3. MsgLen - (MsgLen - isendlen[c]) = isendlen[c]
      BY <2>2
    <3> QED
      BY <3>2, <3>3
  <2> QED
    BY <2>1, <2>3 DEF Chain, First, NoRepeats
<1> QED
    BY <1>1, Inductive, PTL

\* No message for a client that reads is lost, or freed before its last piece is written,
\* unless sendMsg refused it: until then it waits in the list, once, or is being written.
THEOREM NothingLost == Spec => []NoneLost
<1>1. SendInv => NoneLost
  <2> SUFFICES ASSUME SendInv PROVE NoneLost
    OBVIOUS
  <2>1. Cardinality(ToSet(queue)) = Len(queue)
    BY MessageFacts, NoRepeatsCardinality
  <2>2. \A m \in 1..Len(conn) : Calm(conn[m]) => Reads(conn[m])
    BY CalmReads, MessageFacts
  <2> QED
    BY <2>1, <2>2 DEF SendInv, Kept, NoneLost
<1> QED
    BY <1>1, Inductive, PTL
=============================================================================
