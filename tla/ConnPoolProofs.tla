---------------------------- MODULE ConnPoolProofs ----------------------------
(***************************************************************************)
(* The pool for every size, every limit and any number of clients.          *)
(*                                                                          *)
(* The sequence number tells one use of a connection object from another:   *)
(* it is raised by all that takes an object out of use or hands it out, and *)
(* never falls, so that a stamp that is still equal was taken in the        *)
(* present use.                                                             *)
(*                                                                          *)
(* Every object is in one place, and the counters follow the lists, which   *)
(* bounds the pool; an object is closed before it waits to be reused, and   *)
(* waits its time.                                                          *)
(***************************************************************************)
EXTENDS ConnPool, TLAPS, FiniteSetTheorems, SequenceTheorems

-----------------------------------------------------------------------------
(* What the three ways of changing a list do to the set of its elements:    *)
(* push_back, pop_front and erase of one place; and how many objects lists  *)
(* hold.                                                                    *)

\* No element is in the list twice.
NoRepeats(q) == \A i, j \in 1..Len(q) : q[i] = q[j] => i = j

\* Appending what is not there.
LEMMA AppendSet ==
    ASSUME NEW S, NEW q \in Seq(S), NEW e \in S
    PROVE  /\ Append(q, e) \in Seq(S) /\ Len(Append(q, e)) = Len(q) + 1
           /\ ToSet(Append(q, e)) = ToSet(q) \cup {e}
           /\ NoRepeats(q) /\ e \notin ToSet(q) => NoRepeats(Append(q, e))
<1>1. /\ Append(q, e) \in Seq(S) /\ Len(Append(q, e)) = Len(q) + 1
      /\ \A i \in 1..Len(q) : Append(q, e)[i] = q[i]
      /\ Append(q, e)[Len(q) + 1] = e
    BY AppendProperties
<1>2. DOMAIN q = 1..Len(q) /\ DOMAIN Append(q, e) = 1..(Len(q) + 1) /\ Len(q) \in Nat
    BY <1>1, LenProperties
<1>3. ToSet(Append(q, e)) = ToSet(q) \cup {e}
    BY <1>1, <1>2 DEF ToSet
<1>4. ASSUME NoRepeats(q), e \notin ToSet(q) PROVE NoRepeats(Append(q, e))
    BY <1>1, <1>2, <1>4 DEF ToSet, NoRepeats
<1> QED
    BY <1>1, <1>3, <1>4

\* Taking the first element.
LEMMA TailSet ==
    ASSUME NEW S, NEW q \in Seq(S), q # <<>>
    PROVE  /\ Tail(q) \in Seq(S) /\ Len(Tail(q)) = Len(q) - 1
           /\ Head(q) \in ToSet(q) /\ Head(q) \in S
           /\ NoRepeats(q) => /\ ToSet(Tail(q)) = ToSet(q) \ {Head(q)}
                              /\ NoRepeats(Tail(q))
<1>1. /\ Tail(q) \in Seq(S) /\ Len(Tail(q)) = Len(q) - 1 /\ Head(q) \in S
      /\ \A i \in 1..Len(Tail(q)) : Tail(q)[i] = q[i + 1]
    BY HeadTailProperties
<1>2. DOMAIN q = 1..Len(q) /\ DOMAIN Tail(q) = 1..(Len(q) - 1) /\ Len(q) \in Nat \ {0}
    BY <1>1, LenProperties, EmptySeq
<1>3. Head(q) = q[1]
    OBVIOUS
<1>4. Head(q) \in ToSet(q)
    BY <1>2, <1>3 DEF ToSet
<1>5. ASSUME NoRepeats(q) PROVE ToSet(Tail(q)) = ToSet(q) \ {Head(q)}
  <2>1. ASSUME NEW x \in ToSet(Tail(q)) PROVE x \in ToSet(q) \ {Head(q)}
    <3>1. PICK i \in 1..(Len(q) - 1) : x = Tail(q)[i]
      BY <1>2 DEF ToSet
    <3>2. x = q[i + 1] /\ i + 1 \in 1..Len(q) /\ i + 1 # 1 /\ 1 \in 1..Len(q)
      BY <1>1, <1>2, <3>1
    <3> QED
      BY <1>2, <1>3, <1>5, <3>2 DEF ToSet, NoRepeats
  <2>2. ASSUME NEW x \in ToSet(q) \ {Head(q)} PROVE x \in ToSet(Tail(q))
    <3>1. PICK i \in 1..Len(q) : x = q[i]
      BY <1>2 DEF ToSet
    <3>2. i # 1 /\ i - 1 \in 1..(Len(q) - 1)
      BY <1>2, <1>3, <3>1
    <3>3. x = Tail(q)[i - 1]
      BY <1>1, <1>2, <3>1, <3>2
    <3> QED
      BY <1>2, <3>2, <3>3 DEF ToSet
  <2> QED
    BY <2>1, <2>2
<1>6. ASSUME NoRepeats(q) PROVE NoRepeats(Tail(q))
  <2> SUFFICES ASSUME NEW i \in 1..(Len(q) - 1), NEW j \in 1..(Len(q) - 1), Tail(q)[i] = Tail(q)[j]
               PROVE  i = j
    BY <1>1, <1>2 DEF NoRepeats
  <2>1. q[i + 1] = q[j + 1] /\ i + 1 \in 1..Len(q) /\ j + 1 \in 1..Len(q)
    BY <1>1, <1>2
  <2> QED
    BY <1>6, <2>1 DEF NoRepeats
<1> QED
    BY <1>1, <1>4, <1>5, <1>6

\* Taking the element at one place.
LEMMA RemoveSet ==
    ASSUME NEW S, NEW q \in Seq(S), NEW p \in 1..Len(q)
    PROVE  /\ RemoveAt(q, p) \in Seq(S) /\ Len(RemoveAt(q, p)) = Len(q) - 1
           /\ q[p] \in ToSet(q) /\ q[p] \in S
           /\ ToSet(q) \ {q[p]} \subseteq ToSet(RemoveAt(q, p))
           /\ NoRepeats(q) => /\ ToSet(RemoveAt(q, p)) = ToSet(q) \ {q[p]}
                              /\ NoRepeats(RemoveAt(q, p))
<1> DEFINE a == SubSeq(q, 1, p - 1)
           b == SubSeq(q, p + 1, Len(q))
           r == RemoveAt(q, p)
<1>1. DOMAIN q = 1..Len(q) /\ Len(q) \in Nat /\ \A i \in 1..Len(q) : q[i] \in S
    BY LenProperties, ElementOfSeq
<1>2. a \in Seq(S) /\ Len(a) = p - 1 /\ \A i \in 1..(p - 1) : a[i] = q[i]
  <2>1. \A i \in 1..(p - 1) : q[i] \in S
    BY <1>1
  <2>2. /\ a \in Seq(S)
        /\ Len(a) = IF 1 <= p - 1 THEN (p - 1) - 1 + 1 ELSE 0
        /\ \A i \in 1..((p - 1) - 1 + 1) : a[i] = q[1 + i - 1]
    BY <1>1, <2>1, SubSeqProperties
  <2> QED
    BY <1>1, <2>2
<1>3. b \in Seq(S) /\ Len(b) = Len(q) - p /\ \A i \in 1..(Len(q) - p) : b[i] = q[p + i]
  <2>1. \A i \in (p + 1)..Len(q) : q[i] \in S
    BY <1>1
  <2>2. /\ b \in Seq(S)
        /\ Len(b) = IF p + 1 <= Len(q) THEN Len(q) - (p + 1) + 1 ELSE 0
        /\ \A i \in 1..(Len(q) - (p + 1) + 1) : b[i] = q[(p + 1) + i - 1]
    BY <1>1, <2>1, SubSeqProperties
  <2> HIDE DEF b
  <2>3. Len(b) = Len(q) - p
    <3>1. CASE p + 1 <= Len(q)
      BY <1>1, <2>2, <3>1
    <3>2. CASE ~(p + 1 <= Len(q))
      <4>1. p \in Nat /\ Len(q) \in Nat /\ p <= Len(q)
        BY <1>1
      <4>2. Len(q) = p
        BY <3>2, <4>1
      <4> QED
        BY <2>2, <3>2, <4>1, <4>2
    <3> QED
      BY <3>1, <3>2
  <2>4. ASSUME NEW i \in 1..(Len(q) - p) PROVE b[i] = q[p + i]
    <3>1. (p + 1) + i - 1 = p + i /\ i \in 1..(Len(q) - (p + 1) + 1)
      BY <1>1
    <3> QED
      BY <2>2, <3>1
  <2> QED
    BY <2>2, <2>3, <2>4
<1>4. /\ r \in Seq(S) /\ Len(r) = Len(q) - 1
      /\ \A i \in 1..(Len(q) - 1) : r[i] = IF i < p THEN q[i] ELSE q[i + 1]
  <2>1. r = a \o b
    BY DEF RemoveAt
  <2> HIDE DEF a, b, r
  <2>2. /\ r \in Seq(S) /\ Len(r) = Len(a) + Len(b)
        /\ \A i \in 1..(Len(a) + Len(b)) : r[i] = IF i <= Len(a) THEN a[i] ELSE b[i - Len(a)]
    BY <1>2, <1>3, <2>1, ConcatProperties
  <2>3. Len(r) = Len(q) - 1
    BY <1>1, <1>2, <1>3, <2>2
  <2>4. \A i \in 1..(Len(q) - 1) : r[i] = IF i <= p - 1 THEN a[i] ELSE b[i - (p - 1)]
    BY <1>1, <1>2, <1>3, <2>2
  <2>5. ASSUME NEW i \in 1..(Len(q) - 1) PROVE r[i] = IF i < p THEN q[i] ELSE q[i + 1]
    <3>1. CASE i < p
      <4>1. i <= p - 1 /\ i \in 1..(p - 1)
        BY <1>1, <3>1
      <4> QED
        BY <1>2, <2>4, <3>1, <4>1
    <3>2. CASE ~(i < p)
      <4>1. i - (p - 1) \in 1..(Len(q) - p) /\ p + (i - (p - 1)) = i + 1 /\ ~(i <= p - 1)
        BY <1>1, <3>2
      <4>2. b[i - (p - 1)] = q[i + 1]
        BY <1>3, <4>1
      <4> QED
        BY <2>4, <3>2, <4>1, <4>2
    <3> QED
      BY <3>1, <3>2
  <2> QED
    BY <2>2, <2>3, <2>5
<1> HIDE DEF a, b, r
<1>5. DOMAIN r = 1..(Len(q) - 1)
    BY <1>4, LenProperties
<1>6. q[p] \in ToSet(q) /\ q[p] \in S
    BY <1>1 DEF ToSet
<1>7. ToSet(q) \ {q[p]} \subseteq ToSet(r)
  <2> SUFFICES ASSUME NEW x \in ToSet(q) \ {q[p]} PROVE x \in ToSet(r)
    OBVIOUS
  <2>1. PICK i \in 1..Len(q) : x = q[i]
    BY <1>1 DEF ToSet
  <2>2. CASE i < p
    BY <1>1, <1>4, <1>5, <2>1, <2>2 DEF ToSet
  <2>3. CASE i > p
    <3>1. i - 1 \in 1..(Len(q) - 1) /\ r[i - 1] = q[i]
      BY <1>1, <1>4, <2>3
    <3> QED
      BY <1>5, <2>1, <3>1 DEF ToSet
  <2> QED
    BY <1>1, <2>1, <2>2, <2>3
<1>8. ASSUME NoRepeats(q) PROVE ToSet(r) \subseteq ToSet(q) \ {q[p]}
  <2> SUFFICES ASSUME NEW x \in ToSet(r) PROVE x \in ToSet(q) \ {q[p]}
    OBVIOUS
  <2>1. PICK i \in 1..(Len(q) - 1) : x = r[i]
    BY <1>5 DEF ToSet
  <2>2. PICK j \in 1..Len(q) : x = q[j] /\ j # p
    BY <1>1, <1>4, <2>1
  <2> QED
    BY <1>1, <1>8, <2>2 DEF ToSet, NoRepeats
<1>9. ASSUME NoRepeats(q) PROVE NoRepeats(r)
  <2> SUFFICES ASSUME NEW i \in 1..(Len(q) - 1), NEW j \in 1..(Len(q) - 1), r[i] = r[j]
               PROVE  i = j
    BY <1>4 DEF NoRepeats
  <2>1. (IF i < p THEN i ELSE i + 1) = (IF j < p THEN j ELSE j + 1)
    BY <1>1, <1>4, <1>9 DEF NoRepeats
  <2> QED
    BY <1>1, <2>1
<1> QED
    BY <1>4, <1>6, <1>7, <1>8, <1>9 DEF r

\* The objects 1..n are n.
LEMMA IntervalCardinality ==
    ASSUME NEW n \in Nat
    PROVE  IsFiniteSet(1..n) /\ Cardinality(1..n) = n
<1>1. /\ IsFiniteSet(1..n)
      /\ Cardinality(1..n) = IF 1 > n THEN 0 ELSE n - 1 + 1
    BY FS_Interval
<1> QED
    BY <1>1

\* A list without repetition has as many elements as places.
LEMMA NoRepeatsCardinality ==
    ASSUME NEW S, NEW q \in Seq(S), NoRepeats(q)
    PROVE  IsFiniteSet(ToSet(q)) /\ Cardinality(ToSet(q)) = Len(q)
<1>1. DOMAIN q = 1..Len(q) /\ Len(q) \in Nat /\ q \in [1..Len(q) -> S]
    BY LenProperties
<1>2. q \in Bijection(1..Len(q), ToSet(q))
    BY <1>1 DEF ToSet, NoRepeats, Bijection, Injection, Surjection, IsInjective
<1>3. IsFiniteSet(1..Len(q)) /\ Cardinality(1..Len(q)) = Len(q)
    BY <1>1, IntervalCardinality
<1>4. ExistsBijection(1..Len(q), ToSet(q))
    BY <1>2 DEF ExistsBijection
<1> QED
    BY <1>3, <1>4, FS_Bijection

\* Two sets that have nothing in common add up.
LEMMA DisjointCardinality ==
    ASSUME NEW S, NEW T, IsFiniteSet(S), IsFiniteSet(T), S \cap T = {}
    PROVE  /\ IsFiniteSet(S \cup T)
           /\ Cardinality(S \cup T) = Cardinality(S) + Cardinality(T)
           /\ Cardinality(S \cup T) \in Nat
<1>1. Cardinality(S) \in Nat /\ Cardinality(T) \in Nat
    BY FS_CardinalityType
<1>2. Cardinality(S \cap T) = 0
    BY FS_EmptySet
<1>3. /\ IsFiniteSet(S \cup T)
      /\ Cardinality(S \cup T) = Cardinality(S) + Cardinality(T) - Cardinality(S \cap T)
    BY FS_Union
<1> QED
    BY <1>1, <1>2, <1>3

-----------------------------------------------------------------------------
(* The sequence number of an object.                                        *)

\* The fields of the objects, and the objects of the model.
Fields ==
    /\ nconn \in Nat /\ Conns \subseteq Ids
    /\ seq \in [Ids -> Nat] /\ use \in [Ids -> Nat]

\* A message names an object, and a number the object has had.
Stamped ==
    msg # NoMessage =>
        /\ msg.conn \in Conns /\ msg.seq \in Nat
        /\ msg.seq <= seq[msg.conn]

IInv == Fields /\ Stamped /\ StampMeansSameUse

\* The limit is a number, and the pool begins below it.
LEMMA LimitIsNat == PoolLimit \in Nat /\ Max2(WorkerConnections, Ports) <= PoolLimit
BY PoolConstants DEF PoolLimit, Max2

\* There is no message at the start.
LEMMA InitIInv == Init => IInv
<1> SUFFICES ASSUME Init PROVE IInv
    OBVIOUS
<1>1. nconn \in Nat /\ Conns \subseteq Ids
    BY LimitIsNat, PoolConstants DEF Init, Conns, Ids, Max2
<1>2. seq \in [Ids -> Nat] /\ use \in [Ids -> Nat]
    BY DEF Init
<1> QED
    BY <1>1, <1>2 DEF Init, IInv, Fields, Stamped, StampMeansSameUse

\* Raising the number of one object, with or without counting a use of it, keeps stamps
\* apart from later uses, whatever else the step does to other objects.
LEMMA RaisedKeeps ==
    ASSUME IInv, nconn' \in Nat, Conns \subseteq Conns', Conns' \subseteq Ids,
           NEW c, seq' = [seq EXCEPT ![c] = @ + 1],
           use' = use \/ use' = [use EXCEPT ![c] = @ + 1],
           inUse \ {c} \subseteq inUse', c \in Ids \/ inUse \subseteq inUse', UNCHANGED msg
    PROVE  IInv'
<1>1. Fields'
  <2>1. seq \in [Ids -> Nat] /\ use \in [Ids -> Nat]
    BY DEF IInv, Fields
  <2>2. ASSUME NEW f \in [Ids -> Nat] PROVE [f EXCEPT ![c] = @ + 1] \in [Ids -> Nat]
    <3>1. CASE c \in Ids
      <4>1. f[c] + 1 \in Nat
        BY <3>1
      <4> QED
        BY <4>1
    <3>2. CASE c \notin Ids
      <4>1. [f EXCEPT ![c] = @ + 1] = f
        BY <3>2
      <4> QED
        BY <4>1
    <3> QED
      BY <3>1, <3>2
  <2>3. seq' \in [Ids -> Nat] /\ use' \in [Ids -> Nat]
    BY <2>1, <2>2
  <2> QED
    BY <2>3 DEF Fields
<1>2. Stamped'
    BY DEF IInv, Fields, Stamped, NoMessage
<1>3. StampMeansSameUse'
    BY DEF IInv, Fields, Stamped, StampMeansSameUse, NoMessage
<1> QED
    BY <1>1, <1>2, <1>3 DEF IInv

\* A step that raises no number and takes no object out of use changes nothing.
LEMMA RestKeeps ==
    ASSUME IInv, UNCHANGED <<nconn, seq, use, msg>>, inUse \subseteq inUse'
    PROVE  IInv'
BY DEF IInv, Fields, Stamped, StampMeansSameUse, NoMessage, Conns

\* Every step keeps the stamps at or below the numbers of their objects.
LEMMA StepIInv == IInv /\ [Next]_vars => IInv'
<1> SUFFICES ASSUME IInv, [Next]_vars PROVE IInv'
    OBVIOUS
<1> USE DEF pool, recyVars, acceptVars
<1>1. CASE AcceptChecks \/ AcceptCloses \/ AcceptDone
    BY <1>1, RestKeeps DEF AcceptChecks, AcceptCloses, AcceptDone
<1>2. CASE zhy_get_connection
  <2>1. CASE FromFreeList
    BY <1>2, <2>1, RaisedKeeps DEF zhy_get_connection, FromFreeList, HandOut, IInv, Fields, Conns
  <2>2. CASE NewConnection
    <3>1. nconn' = nconn + 1 /\ nconn + 1 \in Ids
      BY <1>2, <2>2 DEF zhy_get_connection, NewConnection
    <3>2. nconn' \in Nat /\ Conns \subseteq Conns' /\ Conns' \subseteq Ids
      BY <3>1 DEF IInv, Fields, Conns, Ids
    <3> QED
      BY <1>2, <2>2, <3>2, RaisedKeeps DEF zhy_get_connection, NewConnection, HandOut
  <2> QED
    BY <1>2, <2>1, <2>2 DEF zhy_get_connection
<1>3. CASE AcceptFails
    BY <1>3, RaisedKeeps DEF AcceptFails, zhy_free_connection, IInv, Fields, Conns
<1>4. ASSUME NEW c \in Conns, Receive(c) PROVE IInv'
    BY <1>4 DEF Receive, IInv, Fields, Stamped, StampMeansSameUse, Conns
<1>5. ASSUME NEW c \in Conns, ClosesocketProc(c) PROVE IInv'
    BY <1>5, RestKeeps DEF ClosesocketProc
<1>6. ASSUME NEW c \in Conns, inRecyConnectQueue(c) PROVE IInv'
    BY <1>6, RaisedKeeps DEF inRecyConnectQueue, IInv, Fields, Conns
<1>7. CASE RecyWakes \/ RecyLocks \/ RecySkips \/ RecyErases \/ RecyUnlocks \/ RecyTestsStop
    BY <1>7, RestKeeps DEF RecyWakes, RecyLocks, RecySkips, RecyErases, RecyUnlocks,
                           RecyTestsStop
<1>8. CASE RecyFrees \/ RecyFreesAndFaults
    BY <1>8, RaisedKeeps DEF RecyFrees, RecyFreesAndFaults, zhy_free_connection, IInv,
                             Fields, Conns
<1>9. CASE Tick \/ Stop
    BY <1>9, RestKeeps DEF Tick, Stop
<1>10. CASE UNCHANGED vars
    BY <1>10, RestKeeps DEF vars
<1> QED
    BY <1>1, <1>2, <1>3, <1>4, <1>5, <1>6, <1>7, <1>8, <1>9, <1>10
       DEF Next, Up, zhy_event_accept, ServerRecyConnectionThread

\* A message whose stamp equals the number of its connection belongs to the client that has
\* the object now, at whatever point of giving up, recycling and handing out it is compared.
THEOREM StampTells == Spec => []StampMeansSameUse
<1>1. IInv => StampMeansSameUse
    BY DEF IInv
<1> QED
    BY <1>1, InitIInv, StepIInv, PTL DEF Spec

-----------------------------------------------------------------------------
(* Where each object is.                                                   *)

Freed == ToSet(freeList)
Waiting == ToSet(recyList)
Moving == IF accept = "close" THEN InHand \ {newc} ELSE InHand

\* EachConnectionOnce without cardinalities: neither list holds an object twice, and the
\* places an object can be in have none in common and are all there are.
Apart ==
    /\ NoRepeats(freeList) /\ NoRepeats(recyList)
    /\ Conns = Listening \cup inUse \cup Moving \cup Freed \cup Waiting
    /\ Listening \cap (inUse \cup Moving \cup Freed \cup Waiting) = {}
    /\ inUse \cap (Moving \cup Freed \cup Waiting) = {}
    /\ Moving \cap (Freed \cup Waiting) = {}
    /\ Freed \cap Waiting = {}

\* A thread has an object in hand exactly on the stretch between its two lists, and the
\* object zhy_close_connection is closing is in the free list already.
Hands ==
    /\ newc = NoConn <=> accept \in {"idle", "get"}
    /\ process = "up" => (p_Conn = NoConn <=> recycler \notin {"free", "drainfree"})
    /\ newc # NoConn => newc # p_Conn
    /\ accept = "close" => newc \in Freed

\* The check of the two limits holds until the object is got: no other thread takes from
\* the free list or makes an object.
Limit ==
    /\ nconn <= PoolLimit
    /\ accept = "get" => nconn <= WorkerConnections * PoolFactor \/ freeList # <<>>

\* An object out of use has its socket closed, on its way between the lists too.
Closed ==
    /\ NoSocketLost
    /\ p_Conn # NoConn => fd[p_Conn] = "none"

\* What was due when the recycle thread read the time is due until it unlocks: nothing
\* joins the list behind its back that is in due, and the second pass is for stopping.
Ripe ==
    /\ pos # 0
    /\ recyMutex <=> recycler \in {"scan", "free", "drain", "drainfree"}
    /\ recycler \notin {"lock", "scan", "free"} => due = {}
    /\ recycler = "lock" => due \subseteq Waiting
    /\ \A c \in due : age[c] = WaitTime
    /\ recycler \in {"drainlock", "drain", "drainfree"} => stopEvent

PoolInv == TypeOK /\ Apart /\ Hands /\ CountersFollowLists /\ Limit /\ Closed /\ Ripe

\* What TypeOK and the limit say of the objects.
LEMMA ConnsFacts ==
    ASSUME PoolInv
    PROVE  /\ Conns \subseteq Ids /\ NoConn \notin Conns /\ nconn \in Nat
           /\ freeList \in Seq(Conns) /\ recyList \in Seq(Conns)
           /\ Freed \subseteq Conns /\ Waiting \subseteq Conns
           /\ IsFiniteSet(inUse) /\ Cardinality(inUse) \in Nat
<1>1. Conns \subseteq Ids /\ NoConn \notin Conns /\ nconn \in Nat
  <2>1. nconn \in Nat /\ nconn <= PoolLimit /\ NoConn \notin Nat
    BY PoolConstants DEF PoolInv, TypeOK, Limit
  <2> QED
    BY <2>1, LimitIsNat DEF Conns, Ids
<1>2. freeList \in Seq(Conns) /\ recyList \in Seq(Conns) /\ inUse \subseteq Conns
    BY DEF PoolInv, TypeOK
<1>3. Freed \subseteq Conns /\ Waiting \subseteq Conns
    BY <1>2, LenProperties, ElementOfSeq DEF Freed, Waiting, ToSet
<1>4. IsFiniteSet(Conns)
    BY <1>1, IntervalCardinality DEF Conns
<1> QED
    BY <1>1, <1>2, <1>3, <1>4, FS_Subset, FS_CardinalityType

\* The pool starts with its ports in use and the other objects free.
LEMMA InitPool == Init => PoolInv
<1> SUFFICES ASSUME Init PROVE PoolInv
    OBVIOUS
<1>1. nconn \in Nat /\ nconn <= PoolLimit /\ nconn - Ports \in Nat /\ Conns \subseteq Ids
    BY LimitIsNat, PoolConstants DEF Init, Conns, Ids, Max2
<1>2. /\ freeList \in Seq(Conns) /\ Len(freeList) = nconn - Ports
      /\ DOMAIN freeList = 1..(nconn - Ports)
      /\ \A i \in 1..(nconn - Ports) : freeList[i] = Ports + i
  <2> DEFINE n == nconn - Ports
  <2>1. freeList = [i \in 1..n |-> Ports + i]
    BY DEF Init
  <2>2. \A i \in 1..n : Ports + i \in Conns
    BY <1>1, PoolConstants DEF Conns
  <2>3. n \in Nat
    BY <1>1
  <2> HIDE DEF n
  <2>4. freeList \in [1..n -> Conns]
    BY <2>1, <2>2
  <2>5. freeList \in Seq(Conns) /\ Len(freeList) = n
    BY <2>3, <2>4
  <2> QED
    BY <2>1, <2>5 DEF n
<1>3. recyList \in Seq(Conns) /\ Len(recyList) = 0 /\ Waiting = {}
    BY EmptySeq DEF Init, Waiting, ToSet
<1>4. TypeOK
  <2>1. /\ seq \in [Ids -> Nat] /\ use \in [Ids -> Nat] /\ fd \in [Ids -> {"none", "open"}]
        /\ age \in [Ids -> 0..WaitTime] /\ total \in Int /\ freeN \in Int /\ online \in Int
    BY <1>1, PoolConstants DEF Init
  <2>2. msg \in [conn : Conns \cup {NoConn}, seq : Nat, use : Nat]
    BY DEF Init, NoMessage
  <2> QED
    BY <1>1, <1>2, <1>3, <2>1, <2>2 DEF Init, TypeOK
<1>5. Freed = (Ports + 1)..nconn
  <2>1. ASSUME NEW x \in (Ports + 1)..nconn PROVE x \in Freed
    <3>1. x - Ports \in 1..(nconn - Ports) /\ x = Ports + (x - Ports)
      BY <1>1, PoolConstants
    <3>2. freeList[x - Ports] = x
      BY <1>2, <3>1
    <3> QED
      BY <1>2, <3>1, <3>2 DEF Freed, ToSet
  <2>2. ASSUME NEW i \in 1..(nconn - Ports) PROVE freeList[i] \in (Ports + 1)..nconn
    <3>1. freeList[i] = Ports + i
      BY <1>2
    <3>2. Ports + i \in (Ports + 1)..nconn
      BY <1>1, PoolConstants
    <3> QED
      BY <3>1, <3>2
  <2> QED
    BY <1>2, <2>1, <2>2 DEF Freed, ToSet
<1>6. Moving = {}
    BY DEF Init, Moving, InHand
<1>7. NoRepeats(freeList) /\ NoRepeats(recyList)
    BY <1>1, <1>2, <1>3, PoolConstants DEF NoRepeats
<1>8. Apart
    BY <1>1, <1>3, <1>5, <1>6, <1>7, PoolConstants DEF Init, Apart, Conns, Listening
<1>9. CountersFollowLists
    BY <1>1, <1>2, <1>3, FS_EmptySet DEF Init, CountersFollowLists
<1>10. NoSocketLost
  <2>1. \A c \in Freed : c \in Ids /\ c \notin Listening
    BY <1>1, <1>5, PoolConstants DEF Conns, Listening
  <2> QED
    BY <1>3, <2>1 DEF Init, NoSocketLost, Freed, Waiting
<1> QED
    BY <1>1, <1>4, <1>8, <1>9, <1>10 DEF Init, PoolInv, Hands, Limit, Closed, Ripe

-----------------------------------------------------------------------------
(* Steps.                                                                  *)

\* Objects are only added, and never more than the limit.
LEMMA StepLimit ==
    ASSUME PoolInv, Next
    PROVE  Limit' /\ nconn' \in Nat /\ Conns \subseteq Conns' /\ Conns' \subseteq Ids
           /\ NoConn \notin Conns'
<1> USE DEF pool, recyVars, acceptVars
<1>1. nconn \in Nat /\ nconn <= PoolLimit /\ freeList \in Seq(Conns) /\ Conns \subseteq Ids
    BY ConnsFacts DEF PoolInv, Limit
<1>2. CASE UNCHANGED <<nconn, freeList>> /\ (accept' = "get" => accept = "get")
    BY <1>1, <1>2, ConnsFacts DEF Limit, PoolInv, Conns
<1>3. CASE AcceptChecks
  <2>1. nconn <= WorkerConnections * PoolFactor \/ freeList # <<>>
    <3>1. CASE ~(nconn > WorkerConnections * PoolFactor)
      <4>1. WorkerConnections * PoolFactor \in Nat
        BY PoolConstants
      <4> HIDE DEF AcceptChecks
      <4> QED
        BY <1>1, <3>1, <4>1
    <3>2. CASE ~(Len(freeList) < WorkerConnections)
      BY <3>2, PoolConstants, EmptySeq
    <3> QED
      BY <1>3, <3>1, <3>2 DEF AcceptChecks
  <2> QED
    BY <1>1, <1>3, <2>1, ConnsFacts DEF AcceptChecks, Limit, Conns
<1>4. CASE FromFreeList /\ accept' = "setup"
    BY <1>1, <1>4, ConnsFacts DEF FromFreeList, Limit, Conns
<1>5. CASE zhy_get_connection /\ NewConnection
  <2>1. nconn' = nconn + 1 /\ nconn <= WorkerConnections * PoolFactor /\ accept' = "setup"
    BY <1>5 DEF zhy_get_connection, NewConnection, HandOut, PoolInv, Limit
  <2>2. nconn' <= PoolLimit
    <3>1. WorkerConnections * PoolFactor \in Nat /\ WorkerConnections * PoolFactor = PoolFactor * WorkerConnections
      BY PoolConstants
    <3>2. Max2(WorkerConnections, Ports) \in Nat
      BY PoolConstants DEF Max2
    <3>3. PoolFactor * WorkerConnections + 1 <= PoolLimit
      BY <3>1, <3>2 DEF PoolLimit, Max2
    <3> QED
      BY <1>1, <2>1, <3>1, <3>3, LimitIsNat
  <2>3. Conns \subseteq Conns' /\ Conns' \subseteq Ids
    BY <1>1, <2>1, <2>2, LimitIsNat DEF Conns, Ids
  <2>4. NoConn \notin Conns'
    BY <1>1, <2>1, PoolConstants DEF Conns
  <2> QED
    BY <1>1, <2>1, <2>2, <2>3, <2>4 DEF Limit
<1>6. CASE AcceptFails \/ RecyFrees \/ RecyFreesAndFaults
  <2>1. PICK c \in Conns : freeList' = Append(freeList, c)
    <3>1. newc \in Conns \cup {NoConn} /\ p_Conn \in Conns \cup {NoConn} /\ process = "up"
      BY DEF Next, Up, PoolInv, TypeOK
    <3>2. AcceptFails => newc # NoConn
      BY DEF AcceptFails, PoolInv, Hands
    <3>3. RecyFrees \/ RecyFreesAndFaults => p_Conn # NoConn
      BY <3>1 DEF RecyFrees, RecyFreesAndFaults, PoolInv, Hands
    <3> QED
      BY <1>6, <3>1, <3>2, <3>3 DEF AcceptFails, RecyFrees, RecyFreesAndFaults,
                                    zhy_free_connection
  <2>2. freeList' # <<>>
    BY <1>1, <2>1, AppendProperties
  <2>3. nconn' = nconn
    BY <1>6 DEF AcceptFails, RecyFrees, RecyFreesAndFaults, zhy_free_connection
  <2> QED
    BY <1>1, <2>2, <2>3, ConnsFacts DEF Limit, Conns
<1>7. CASE AcceptCloses \/ AcceptDone
    BY <1>2, <1>7 DEF AcceptCloses, AcceptDone
<1>8. CASE \E c \in Conns : Receive(c) \/ ClosesocketProc(c) \/ inRecyConnectQueue(c)
    BY <1>2, <1>8 DEF Receive, ClosesocketProc, inRecyConnectQueue
<1>9. CASE RecyWakes \/ RecyLocks \/ RecySkips \/ RecyErases \/ RecyUnlocks \/ RecyTestsStop
    BY <1>2, <1>9 DEF RecyWakes, RecyLocks, RecySkips, RecyErases, RecyUnlocks, RecyTestsStop
<1>10. CASE Tick \/ Stop
    BY <1>2, <1>10 DEF Tick, Stop
<1> QED
    BY <1>3, <1>4, <1>5, <1>6, <1>7, <1>8, <1>9, <1>10
       DEF Next, Up, zhy_event_accept, zhy_get_connection, ServerRecyConnectionThread, FromFreeList,
           HandOut

\* Every variable stays within its type.
LEMMA StepPoolType ==
    ASSUME PoolInv, IInv, Next
    PROVE  TypeOK'
<1> USE DEF pool, recyVars, acceptVars
<1>1. /\ nconn \in Nat /\ freeList \in Seq(Conns) /\ recyList \in Seq(Conns)
      /\ Conns \subseteq Ids /\ Conns \subseteq Conns' /\ nconn' \in Nat /\ Conns' \subseteq Ids
    BY ConnsFacts, StepLimit
<1>2. /\ newc \in Conns \cup {NoConn} /\ p_Conn \in Conns \cup {NoConn} /\ process = "up"
      /\ accept \in {"setup", "close"} => newc \in Conns
      /\ recycler \in {"free", "drainfree"} => p_Conn \in Conns
    BY DEF Next, Up, PoolInv, TypeOK, Hands
<1>3. TypeOK
    BY DEF PoolInv
\* The lists.
<1>4. freeList' \in Seq(Conns')
  <2>1. freeList' \in Seq(Conns)
    <3>1. CASE UNCHANGED freeList
      BY <1>1, <3>1
    <3>2. CASE freeList # <<>> /\ freeList' = Tail(freeList)
      BY <1>1, <3>2, TailSet
    <3>3. CASE AcceptFails \/ RecyFrees \/ RecyFreesAndFaults
      <4>1. \E c \in Conns : freeList' = Append(freeList, c)
        <5>1. CASE AcceptFails
          BY <1>2, <5>1 DEF AcceptFails, zhy_free_connection
        <5>2. CASE RecyFrees
          BY <1>2, <5>2 DEF RecyFrees, zhy_free_connection
        <5>3. CASE RecyFreesAndFaults
          BY <1>2, <5>3 DEF RecyFreesAndFaults, zhy_free_connection
        <5> QED
          BY <3>3, <5>1, <5>2, <5>3
      <4> QED
        BY <1>1, <4>1, AppendSet
    <3> QED
      BY <3>1, <3>2, <3>3
         DEF Next, Up, zhy_event_accept, AcceptChecks, zhy_get_connection, FromFreeList,
             NewConnection, AcceptCloses, AcceptDone, Receive, ClosesocketProc,
             inRecyConnectQueue, ServerRecyConnectionThread, RecyWakes, RecyLocks, RecySkips,
             RecyErases, RecyUnlocks, RecyTestsStop, Tick, Stop
  <2> QED
    BY <1>1, <2>1, SeqMonotonic
<1>5. recyList' \in Seq(Conns')
  <2>1. recyList' \in Seq(Conns)
    <3>1. CASE UNCHANGED recyList
      BY <1>1, <3>1
    <3>2. CASE RecyErases
      <4>1. pos \in 1..Len(recyList)
        BY <3>2 DEF RecyErases, PoolInv, TypeOK, Ripe
      <4> QED
        BY <1>1, <3>2, <4>1, RemoveSet DEF RecyErases
    <3>3. CASE \E c \in Conns : inRecyConnectQueue(c)
      BY <1>1, <3>3, AppendSet DEF inRecyConnectQueue
    <3> QED
      BY <3>1, <3>2, <3>3
         DEF Next, Up, zhy_event_accept, AcceptChecks, zhy_get_connection, AcceptFails, AcceptCloses,
             AcceptDone, Receive, ClosesocketProc, ServerRecyConnectionThread, RecyWakes,
             RecyLocks, RecySkips, RecyFrees, RecyFreesAndFaults, RecyUnlocks, RecyTestsStop,
             Tick, Stop
  <2> QED
    BY <1>1, <2>1, SeqMonotonic
\* The fields of the objects.
<1>6. /\ seq' \in [Ids -> Nat] /\ use' \in [Ids -> Nat]
    BY StepIInv DEF IInv, Fields
<1>7. fd' \in [Ids -> {"none", "open"}]
  <2>1. \/ UNCHANGED fd
        \/ \E c, v : v \in {"none", "open"} /\ fd' = [fd EXCEPT ![c] = v]
    BY DEF Next, Up, zhy_event_accept, AcceptChecks, zhy_get_connection, FromFreeList,
           NewConnection, HandOut, AcceptFails, AcceptCloses, AcceptDone, Receive,
           ClosesocketProc, inRecyConnectQueue, ServerRecyConnectionThread, RecyWakes,
           RecyLocks, RecySkips, RecyErases, RecyFrees, RecyFreesAndFaults, RecyUnlocks,
           RecyTestsStop, Tick, Stop
  <2> QED
    BY <1>3, <2>1 DEF TypeOK
<1>8. age' \in [Ids -> 0..WaitTime]
  <2>1. age \in [Ids -> 0..WaitTime]
    BY <1>3 DEF TypeOK
  <2>2. CASE Tick
    <3>1. \A c \in Ids : age[c] \in 0..WaitTime /\ (age[c] < WaitTime => age[c] + 1 \in 0..WaitTime)
      BY <2>1, PoolConstants
    <3> QED
      BY <2>2, <3>1 DEF Tick
  <2>3. CASE UNCHANGED age \/ \E c : age' = [age EXCEPT ![c] = 0]
    <3>1. 0 \in 0..WaitTime
      BY PoolConstants
    <3> QED
      BY <2>1, <2>3, <3>1
  <2> QED
    BY <2>2, <2>3
       DEF Next, Up, zhy_event_accept, AcceptChecks, zhy_get_connection, FromFreeList,
           NewConnection, HandOut, AcceptFails, AcceptCloses, AcceptDone, Receive,
           ClosesocketProc, inRecyConnectQueue, ServerRecyConnectionThread, RecyWakes,
           RecyLocks, RecySkips, RecyErases, RecyFrees, RecyFreesAndFaults, RecyUnlocks,
           RecyTestsStop, Stop
\* The counters and the threads.
<1> DEFINE Rest ==
        /\ process \in {"up", "aborted"}
        /\ total \in Int /\ freeN \in Int /\ online \in Int
        /\ accept \in {"idle", "get", "setup", "close"}
        /\ recyMutex \in BOOLEAN
        /\ recycler \in {"sleep", "lock", "scan", "free", "stop", "drainlock",
                         "drain", "drainfree", "ended"}
        /\ pos \in Nat
        /\ stopEvent \in BOOLEAN
<1>9. Rest'
  <2>1. Rest
    BY <1>3 DEF TypeOK
  <2>2. CASE zhy_event_accept
    BY <2>1, <2>2 DEF zhy_event_accept, AcceptChecks, zhy_get_connection, FromFreeList,
           NewConnection, HandOut, AcceptFails, AcceptCloses, AcceptDone, zhy_free_connection
  <2>3. CASE \E c \in Conns : Receive(c) \/ ClosesocketProc(c) \/ inRecyConnectQueue(c)
    BY <2>1, <2>3 DEF Receive, ClosesocketProc, inRecyConnectQueue
  <2>4. RecyWakes => Rest'
    BY <2>1 DEF RecyWakes
  <2>5. RecyLocks => Rest'
    BY <2>1 DEF RecyLocks
  <2>6. RecySkips => Rest'
    BY <2>1 DEF RecySkips
  <2>7. RecyErases => Rest'
    BY <2>1 DEF RecyErases
  <2>8. RecyFrees \/ RecyFreesAndFaults => Rest'
    BY <2>1 DEF RecyFrees, RecyFreesAndFaults, zhy_free_connection
  <2>9. RecyUnlocks => Rest'
    <3>1. RecyUnlocks => /\ recyMutex' = FALSE /\ pos' = 1 /\ recycler' \in {"stop", "ended"}
                         /\ UNCHANGED <<process, total, freeN, online, accept, stopEvent>>
      BY DEF RecyUnlocks
    <3>2. ASSUME RecyUnlocks PROVE recycler' \in {"sleep", "lock", "scan", "free", "stop",
                                      "drainlock", "drain", "drainfree", "ended"}
      BY <3>1, <3>2
    <3>3. ASSUME RecyUnlocks PROVE accept' \in {"idle", "get", "setup", "close"}
      BY <2>1, <3>1, <3>3
    <3>4. ASSUME RecyUnlocks
          PROVE  /\ process' \in {"up", "aborted"} /\ stopEvent' \in BOOLEAN
                 /\ total' \in Int /\ freeN' \in Int /\ online' \in Int
      BY <2>1, <3>1, <3>4
    <3>5. RecyUnlocks => pos' \in Nat
      BY <3>1
    <3>6. RecyUnlocks => recyMutex' \in BOOLEAN
      BY Zenon DEF RecyUnlocks
    <3> QED
      BY <3>2, <3>3, <3>4, <3>5, <3>6
  <2>10. RecyTestsStop => Rest'
    BY <2>1 DEF RecyTestsStop
  <2>11. Tick \/ Stop => Rest'
    BY <2>1 DEF Tick, Stop
  <2> QED
    BY <2>2, <2>3, <2>4, <2>5, <2>6, <2>7, <2>8, <2>9, <2>10, <2>11
       DEF Next, Up, ServerRecyConnectionThread
<1> HIDE DEF Rest
\* The objects they hold.
<1>10. newc' \in Conns' \cup {NoConn}
  <2>1. zhy_get_connection => newc' \in Conns'
    <3>1. freeList # <<>> => Head(freeList) \in Conns
      BY <1>1, HeadTailProperties
    <3>2. NewConnection => nconn + 1 \in Conns'
      BY <1>1 DEF NewConnection, Conns
    <3> QED
      BY <1>1, <3>1, <3>2 DEF zhy_get_connection, FromFreeList, NewConnection, HandOut
  <2> QED
    BY <1>1, <1>2, <2>1
       DEF Next, Up, zhy_event_accept, AcceptChecks, AcceptFails, AcceptCloses, AcceptDone, Receive,
           ClosesocketProc, inRecyConnectQueue, ServerRecyConnectionThread, RecyWakes,
           RecyLocks, RecySkips, RecyErases, RecyFrees, RecyFreesAndFaults, RecyUnlocks,
           RecyTestsStop, Tick, Stop
<1>11. p_Conn' \in Conns' \cup {NoConn}
  <2>1. RecyErases => p_Conn' \in Conns
    BY <1>1, ElementOfSeq DEF RecyErases, PoolInv, TypeOK, Ripe
  <2> QED
    BY <1>1, <1>2, <2>1
       DEF Next, Up, zhy_event_accept, AcceptChecks, zhy_get_connection, AcceptFails, AcceptCloses,
           AcceptDone, Receive, ClosesocketProc, inRecyConnectQueue, ServerRecyConnectionThread,
           RecyWakes, RecyLocks, RecySkips, RecyFrees, RecyFreesAndFaults, RecyUnlocks,
           RecyTestsStop, Tick, Stop
<1>12. due' \subseteq Conns' /\ inUse' \subseteq Conns'
  <2>1. due \subseteq Conns /\ inUse \subseteq Conns /\ ToSet(recyList) \subseteq Conns
    BY <1>3, ConnsFacts DEF TypeOK, Waiting
  <2>2. due' \subseteq Conns
    BY <2>1
       DEF Next, Up, zhy_event_accept, AcceptChecks, zhy_get_connection, AcceptFails, AcceptCloses,
           AcceptDone, Receive, ClosesocketProc, inRecyConnectQueue, ServerRecyConnectionThread,
           RecyWakes, RecyLocks, RecySkips, RecyErases, RecyFrees, RecyFreesAndFaults,
           RecyUnlocks, RecyTestsStop, Tick, Stop
  <2>3. inUse' \subseteq Conns
    BY <1>2, <2>1
       DEF Next, Up, zhy_event_accept, AcceptChecks, zhy_get_connection, AcceptFails, AcceptCloses,
           AcceptDone, Receive, ClosesocketProc, inRecyConnectQueue, ServerRecyConnectionThread,
           RecyWakes, RecyLocks, RecySkips, RecyErases, RecyFrees, RecyFreesAndFaults,
           RecyUnlocks, RecyTestsStop, Tick, Stop
  <2> QED
    BY <1>1, <2>2, <2>3
<1>13. msg' \in [conn : Conns' \cup {NoConn}, seq : Nat, use : Nat]
  <2>1. msg \in [conn : Conns' \cup {NoConn}, seq : Nat, use : Nat]
    BY <1>1, <1>3 DEF TypeOK
  <2>2. ASSUME NEW c \in Conns, Receive(c)
        PROVE  msg' \in [conn : Conns' \cup {NoConn}, seq : Nat, use : Nat]
    <3>1. c \in Ids /\ seq[c] \in Nat /\ use[c] \in Nat
      BY <1>1 DEF IInv, Fields
    <3> QED
      BY <1>1, <2>2, <3>1 DEF Receive
  <2> QED
    BY <2>1, <2>2
       DEF Next, Up, zhy_event_accept, AcceptChecks, zhy_get_connection, AcceptFails, AcceptCloses,
           AcceptDone, ClosesocketProc, inRecyConnectQueue, ServerRecyConnectionThread,
           RecyWakes, RecyLocks, RecySkips, RecyErases, RecyFrees, RecyFreesAndFaults,
           RecyUnlocks, RecyTestsStop, Tick, Stop
<1>14. allocator' \in {"reuses", "leaves"}
    BY <1>3 DEF TypeOK, Next, Up
<1> QED
    BY <1>1, <1>4, <1>5, <1>6, <1>7, <1>8, <1>9, <1>10, <1>11, <1>12, <1>13, <1>14
       DEF TypeOK, Rest

\* A step that moves no object, of the event loop, a client or the recycle thread.
LEMMA QuietPlaces ==
    ASSUME PoolInv, UNCHANGED <<nconn, freeList, recyList, newc, p_Conn, inUse>>,
           accept = "close" <=> accept' = "close"
    PROVE  Apart'
<1>1. Freed' = Freed /\ Waiting' = Waiting /\ Moving' = Moving /\ Conns' = Conns
    BY DEF Freed, Waiting, Moving, InHand, Conns
<1> QED
    BY <1>1 DEF PoolInv, Apart, NoRepeats

\* The event loop takes an object out of the free list, or makes one.
LEMMA GetPlaces ==
    ASSUME PoolInv, Next, zhy_get_connection
    PROVE  (Apart /\ Hands)'
<1> USE DEF recyVars
<1>1. /\ nconn \in Nat /\ freeList \in Seq(Conns) /\ NoConn \notin Conns /\ NoConn \notin Conns'
      /\ Freed \subseteq Conns /\ Waiting \subseteq Conns
    BY ConnsFacts, StepLimit
<1>2. /\ accept = "get" /\ newc = NoConn /\ accept' = "setup"
      /\ UNCHANGED <<process, recyList, recycler, p_Conn, inUse>>
    BY DEF zhy_get_connection, FromFreeList, NewConnection, HandOut, PoolInv, Hands
<1>3. Waiting' = Waiting /\ Moving = {p_Conn} \ {NoConn} /\ Apart
    BY <1>2 DEF Waiting, Moving, InHand, PoolInv
<1>4. CASE FromFreeList
  <2> DEFINE c == Head(freeList)
  <2>1. c \in Freed /\ Freed' = Freed \ {c} /\ NoRepeats(freeList') /\ c \in Conns
    BY <1>1, <1>4, TailSet DEF FromFreeList, Freed, PoolInv, Apart
  <2>2. newc' = c /\ nconn' = nconn /\ Conns' = Conns
    BY <1>4 DEF FromFreeList, HandOut, Conns
  <2> HIDE DEF c
  <2>3. Moving' = Moving \cup {c}
    BY <1>1, <1>2, <1>3, <2>1, <2>2 DEF Moving, InHand
  <2>4. Apart'
    <3>1. NoRepeats(recyList)'
      BY <1>2, <1>3 DEF Apart, NoRepeats
    <3> QED
      BY <1>2, <1>3, <2>1, <2>2, <2>3, <3>1 DEF Apart
  <2>5. c # p_Conn
    BY <1>1, <1>3, <2>1 DEF Apart
  <2> QED
    BY <1>1, <1>2, <2>1, <2>2, <2>4, <2>5 DEF Hands, PoolInv
<1>5. CASE NewConnection
  <2> DEFINE c == nconn + 1
  <2>1. c \notin Conns /\ Conns' = Conns \cup {c} /\ Freed' = Freed /\ newc' = c
    BY <1>1, <1>5 DEF NewConnection, HandOut, Freed, Conns
  <2> HIDE DEF c
  <2>2. c # NoConn /\ c # p_Conn
    BY <1>1, <2>1 DEF PoolInv, TypeOK
  <2>3. Moving' = Moving \cup {c}
    BY <1>1, <1>2, <1>3, <2>1, <2>2 DEF Moving, InHand
  <2>4. Apart'
    <3>1. NoRepeats(freeList)' /\ NoRepeats(recyList)'
      BY <1>2, <1>3, <1>5 DEF Apart, NoRepeats, NewConnection
    <3> QED
      BY <1>2, <1>3, <2>1, <2>3, <3>1 DEF Apart
  <2> QED
    BY <1>2, <2>1, <2>2, <2>4 DEF Hands, PoolInv
<1> QED
    BY <1>4, <1>5 DEF zhy_get_connection

\* An object goes to the end of the free list, from either thread.
LEMMA FreePlaces ==
    ASSUME PoolInv, Next, AcceptFails \/ RecyFrees \/ RecyFreesAndFaults
    PROVE  (Apart /\ Hands)'
<1> USE DEF recyVars, acceptVars, pool
<1>1. /\ freeList \in Seq(Conns) /\ NoConn \notin Conns /\ process = "up" /\ Apart /\ Hands
      /\ newc \in Conns \cup {NoConn} /\ p_Conn \in Conns \cup {NoConn}
    BY ConnsFacts DEF Next, Up, PoolInv, TypeOK
<1>2. UNCHANGED <<nconn, recyList, inUse, newc>> /\ Conns' = Conns /\ Waiting' = Waiting
    BY DEF AcceptFails, RecyFrees, RecyFreesAndFaults, zhy_free_connection, Conns, Waiting
<1>3. NoRepeats(recyList)'
    BY <1>1, <1>2 DEF Apart, NoRepeats
<1>4. CASE AcceptFails
  <2>1. newc \in Conns /\ newc \in Moving /\ newc \notin Freed
    BY <1>1, <1>4 DEF AcceptFails, Hands, Moving, InHand, Apart
  <2>2. Freed' = Freed \cup {newc} /\ NoRepeats(freeList')
    BY <1>1, <1>4, <2>1, AppendSet DEF AcceptFails, zhy_free_connection, Freed, Apart
  <2>3. Moving' = Moving \ {newc}
    BY <1>2, <1>4 DEF AcceptFails, Moving, InHand
  <2>4. Apart'
    BY <1>1, <1>2, <1>3, <2>1, <2>2, <2>3 DEF Apart
  <2> QED
    BY <1>1, <1>2, <1>4, <2>1, <2>2, <2>4 DEF AcceptFails, Hands
<1>5. CASE RecyFrees \/ RecyFreesAndFaults
  <2>1. /\ p_Conn # NoConn /\ p_Conn' = NoConn /\ accept' = accept
        /\ p_Conn # newc /\ p_Conn \in Conns /\ freeList' = Append(freeList, p_Conn)
        /\ process' = "up" => recycler' \in {"scan", "drain"}
    BY <1>1, <1>5 DEF RecyFrees, RecyFreesAndFaults, Hands, zhy_free_connection
  <2>2. p_Conn \in Moving /\ p_Conn \notin Freed
    BY <1>1, <2>1 DEF Moving, InHand, Apart
  <2>3. Freed' = Freed \cup {p_Conn} /\ NoRepeats(freeList')
    BY <1>1, <2>1, <2>2, AppendSet DEF Freed, Apart
  <2>4. Moving' = Moving \ {p_Conn}
    BY <1>2, <2>1 DEF Moving, InHand
  <2>5. Apart'
    BY <1>1, <1>2, <1>3, <2>2, <2>3, <2>4 DEF Apart
  <2> QED
    BY <1>1, <1>2, <2>1, <2>3, <2>5 DEF Hands
<1> QED
    BY <1>4, <1>5

\* A client gives its object up, or gets it.
LEMMA UsePlaces ==
    ASSUME PoolInv, Next, AcceptDone \/ \E c \in Conns : inRecyConnectQueue(c)
    PROVE  (Apart /\ Hands)'
<1> USE DEF recyVars, acceptVars, pool
<1>1. /\ recyList \in Seq(Conns) /\ NoConn \notin Conns /\ Apart /\ Hands
      /\ newc \in Conns \cup {NoConn}
    BY ConnsFacts DEF PoolInv, TypeOK
<1>2. UNCHANGED <<nconn, freeList, process, recycler, p_Conn>> /\ Conns' = Conns /\ Freed' = Freed
    BY DEF AcceptDone, inRecyConnectQueue, Conns, Freed
<1>3. NoRepeats(freeList)'
    BY <1>1, <1>2 DEF Apart, NoRepeats
<1>4. CASE AcceptDone
  <2>1. newc \in Conns /\ newc # NoConn /\ newc # p_Conn /\ newc \in Moving
    BY <1>1, <1>4 DEF AcceptDone, Hands, Moving, InHand
  <2>2. inUse' = inUse \cup {newc} /\ UNCHANGED recyList /\ Waiting' = Waiting
    BY <1>4 DEF AcceptDone, Waiting
  <2>3. Moving' = Moving \ {newc}
    BY <1>1, <1>2, <1>4, <2>1 DEF AcceptDone, Moving, InHand
  <2>4. Apart'
    <3>1. NoRepeats(recyList)'
      BY <1>1, <2>2 DEF Apart, NoRepeats
    <3> QED
      BY <1>1, <1>2, <1>3, <2>1, <2>2, <2>3, <3>1 DEF Apart
  <2> QED
    BY <1>1, <1>2, <1>4, <2>4 DEF AcceptDone, Hands
<1>5. ASSUME NEW c \in Conns, inRecyConnectQueue(c) PROVE (Apart /\ Hands)'
  <2>1. c \in inUse /\ inUse' = inUse \ {c} /\ recyList' = Append(recyList, c)
        /\ UNCHANGED <<accept, newc>> /\ c \notin Waiting
    BY <1>5 DEF inRecyConnectQueue, Waiting
  <2>2. Waiting' = Waiting \cup {c} /\ NoRepeats(recyList')
    BY <1>1, <2>1, AppendSet DEF Waiting, Apart
  <2>3. Moving' = Moving
    BY <1>2, <2>1 DEF Moving, InHand
  <2>4. Apart'
    BY <1>1, <1>2, <1>3, <2>1, <2>2, <2>3 DEF Apart
  <2> QED
    BY <1>1, <1>2, <2>1, <2>4 DEF Hands
<1> QED
    BY <1>4, <1>5

\* The recycle thread takes an object out of the list of those that wait.
LEMMA ErasePlaces ==
    ASSUME PoolInv, Next, RecyErases
    PROVE  (Apart /\ Hands)'
<1> USE DEF acceptVars, pool
<1>1. /\ recyList \in Seq(Conns) /\ NoConn \notin Conns /\ process = "up" /\ Apart /\ Hands
      /\ newc \in Conns \cup {NoConn} /\ pos \in 1..Len(recyList)
    BY ConnsFacts DEF Next, Up, PoolInv, TypeOK, Ripe, RecyErases
<1> DEFINE c == recyList[pos]
<1>2. /\ UNCHANGED <<nconn, freeList, process, accept, newc, inUse>> /\ p_Conn' = c
      /\ Conns' = Conns /\ Freed' = Freed /\ p_Conn = NoConn
      /\ recycler' \in {"free", "drainfree"}
    BY <1>1 DEF RecyErases, Hands, Conns, Freed
<1>3. c \in Waiting /\ c \in Conns /\ Waiting' = Waiting \ {c} /\ NoRepeats(recyList')
    BY <1>1, RemoveSet DEF RecyErases, Waiting, Apart
<1> HIDE DEF c
<1>4. c # newc
    BY <1>1, <1>3 DEF Apart, Hands, Moving, InHand
<1>5. Moving' = Moving \cup {c}
    BY <1>1, <1>2, <1>3, <1>4 DEF Moving, InHand
<1>6. NoRepeats(freeList)'
    BY <1>1, <1>2 DEF Apart, NoRepeats
<1>7. Apart'
    BY <1>1, <1>2, <1>3, <1>5, <1>6 DEF Apart
<1> QED
    BY <1>1, <1>2, <1>3, <1>4, <1>7 DEF Hands

\* Every step leaves each object in one place.
LEMMA StepPlaces ==
    ASSUME PoolInv, Next
    PROVE  (Apart /\ Hands)'
<1> USE DEF recyVars, acceptVars, pool
<1>1. Hands /\ process = "up"
    BY DEF Next, Up, PoolInv
<1>2. CASE AcceptChecks
    BY <1>1, <1>2, QuietPlaces DEF AcceptChecks, Hands
<1>3. CASE AcceptCloses
  <2>1. /\ newc \in Freed /\ Moving = {p_Conn} \ {NoConn} /\ Moving' = {p_Conn} \ {NoConn}
        /\ Freed' = Freed /\ Waiting' = Waiting /\ Conns' = Conns
        /\ UNCHANGED <<freeList, recyList, inUse, p_Conn, process, recycler>>
    BY <1>1, <1>3 DEF AcceptCloses, Hands, Moving, InHand, Freed, Waiting, Conns
  <2> QED
    BY <1>1, <1>3, <2>1 DEF AcceptCloses, Hands, Apart, PoolInv, NoRepeats
<1>4. CASE \E c \in Conns : Receive(c) \/ ClosesocketProc(c)
    BY <1>1, <1>4, QuietPlaces DEF Receive, ClosesocketProc, Hands, Freed
<1>5. CASE RecyWakes \/ RecyLocks \/ RecySkips \/ RecyUnlocks \/ RecyTestsStop
    BY <1>1, <1>5, QuietPlaces DEF RecyWakes, RecyLocks, RecySkips, RecyUnlocks, RecyTestsStop,
                                   Hands, Freed
<1>6. CASE Tick \/ Stop
    BY <1>1, <1>6, QuietPlaces DEF Tick, Stop, Hands, Freed
<1> QED
    BY <1>2, <1>3, <1>4, <1>5, <1>6, GetPlaces, FreePlaces, UsePlaces, ErasePlaces
       DEF Next, Up, zhy_event_accept, ServerRecyConnectionThread

\* Each counter is changed with the list it counts.
LEMMA StepCounters ==
    ASSUME PoolInv, Next
    PROVE  CountersFollowLists'
<1> USE DEF recyVars, acceptVars, pool
<1>1. /\ nconn \in Nat /\ freeList \in Seq(Conns) /\ recyList \in Seq(Conns)
      /\ IsFiniteSet(inUse) /\ Cardinality(inUse) \in Nat
      /\ Len(freeList) \in Nat /\ Len(recyList) \in Nat
    BY ConnsFacts
<1>2. /\ online = Cardinality(inUse) /\ freeN = Len(freeList)
      /\ total = nconn + Len(recyList) /\ process = "up"
    BY DEF PoolInv, CountersFollowLists, Next, Up
<1>3. newc \in Conns \cup {NoConn} /\ p_Conn \in Conns \cup {NoConn} /\ Hands /\ Apart
    BY DEF PoolInv, TypeOK
<1>4. CASE zhy_get_connection
  <2>1. CASE FromFreeList
    <3>1. Len(Tail(freeList)) = Len(freeList) - 1
      BY <1>1, <2>1, TailSet DEF FromFreeList
    <3> QED
      BY <1>1, <1>2, <1>4, <2>1, <3>1 DEF zhy_get_connection, FromFreeList, CountersFollowLists
  <2>2. CASE NewConnection
    BY <1>1, <1>2, <1>4, <2>2 DEF zhy_get_connection, NewConnection, CountersFollowLists
  <2> QED
    BY <1>4, <2>1, <2>2 DEF zhy_get_connection
<1>5. CASE AcceptFails \/ RecyFrees \/ RecyFreesAndFaults
  <2>1. PICK c \in Conns : zhy_free_connection(c)
    <3>1. AcceptFails => newc # NoConn
      BY <1>3 DEF AcceptFails, Hands
    <3>2. RecyFrees \/ RecyFreesAndFaults => p_Conn # NoConn
      BY <1>2, <1>3 DEF RecyFrees, RecyFreesAndFaults, Hands
    <3> QED
      BY <1>3, <1>5, <3>1, <3>2 DEF AcceptFails, RecyFrees, RecyFreesAndFaults
  <2>2. Len(freeList') = Len(freeList) + 1
    BY <1>1, <2>1, AppendSet DEF zhy_free_connection
  <2>3. UNCHANGED <<recyList, total, online, inUse, nconn>> /\ freeN' = freeN + 1
    BY <1>5, <2>1 DEF AcceptFails, RecyFrees, RecyFreesAndFaults, zhy_free_connection
  <2> QED
    BY <1>1, <1>2, <2>2, <2>3 DEF CountersFollowLists
<1>6. CASE AcceptDone
  <2>1. newc \notin inUse
    BY <1>3, <1>6 DEF AcceptDone, Hands, Apart, Moving, InHand
  <2>2. Cardinality(inUse \cup {newc}) = Cardinality(inUse) + 1
    BY <1>1, <2>1, FS_AddElement
  <2> QED
    BY <1>1, <1>2, <1>6, <2>2 DEF AcceptDone, CountersFollowLists
<1>7. ASSUME NEW c \in Conns, inRecyConnectQueue(c) PROVE CountersFollowLists'
  <2>1. Cardinality(inUse \ {c}) = Cardinality(inUse) - 1
    BY <1>1, <1>7, FS_RemoveElement DEF inRecyConnectQueue
  <2>2. Len(Append(recyList, c)) = Len(recyList) + 1
    BY <1>1, AppendSet
  <2> QED
    BY <1>1, <1>2, <1>7, <2>1, <2>2 DEF inRecyConnectQueue, CountersFollowLists
<1>8. CASE RecyErases
  <2>1. Len(RemoveAt(recyList, pos)) = Len(recyList) - 1
    BY <1>1, <1>8, RemoveSet DEF RecyErases, PoolInv, TypeOK, Ripe
  <2> QED
    BY <1>1, <1>2, <1>8, <2>1 DEF RecyErases, CountersFollowLists
<1>9. CASE UNCHANGED <<nconn, freeList, recyList, total, freeN, online, inUse>>
    BY <1>2, <1>9 DEF CountersFollowLists
<1> QED
    BY <1>4, <1>5, <1>6, <1>7, <1>8, <1>9
       DEF Next, Up, zhy_event_accept, AcceptChecks, AcceptCloses, Receive, ClosesocketProc,
           ServerRecyConnectionThread, RecyWakes, RecyLocks, RecySkips, RecyUnlocks,
           RecyTestsStop, Tick, Stop

\* What is out of use has no socket, at every step of the way.
LEMMA StepClosed ==
    ASSUME PoolInv, Next
    PROVE  Closed'
<1> USE DEF recyVars, acceptVars, pool
<1>1. /\ freeList \in Seq(Conns) /\ recyList \in Seq(Conns) /\ NoConn \notin Conns
      /\ Freed \subseteq Conns /\ Waiting \subseteq Conns /\ Conns \subseteq Ids
      /\ Conns \subseteq Conns' /\ Conns' \subseteq Ids /\ NoConn \notin Conns'
      /\ nconn \in Nat
    BY ConnsFacts, StepLimit
<1>2. /\ fd \in [Ids -> {"none", "open"}] /\ Apart /\ Hands /\ process = "up" /\ Apart' /\ Hands'
      /\ newc \in Conns \cup {NoConn} /\ p_Conn \in Conns \cup {NoConn}
    BY StepPlaces DEF Next, Up, PoolInv, TypeOK
<1>3. /\ \A c \in Freed \cup Waiting : fd[c] = "open" => accept = "close" /\ c = newc
      /\ p_Conn # NoConn => fd[p_Conn] = "none"
    BY DEF PoolInv, Closed, NoSocketLost, Freed, Waiting
<1> SUFFICES /\ \A c \in Freed' \cup Waiting' : fd'[c] = "open" => accept' = "close" /\ c = newc'
             /\ p_Conn' # NoConn => fd'[p_Conn'] = "none"
    BY DEF Closed, NoSocketLost, Freed, Waiting
<1>4. CASE UNCHANGED <<freeList, recyList, fd, p_Conn, accept, newc>>
    BY <1>3, <1>4 DEF Freed, Waiting
<1>5. CASE AcceptChecks \/ AcceptDone
    BY <1>3, <1>5 DEF AcceptChecks, AcceptDone, Freed, Waiting
<1>6. CASE zhy_get_connection
  <2>1. /\ UNCHANGED <<recyList, p_Conn>> /\ accept = "get" /\ Waiting' = Waiting /\ newc = NoConn
        /\ fd' = [fd EXCEPT ![newc'] = "open"]
        /\ accept' = "setup" /\ newc' # NoConn
    BY <1>2, <1>6 DEF zhy_get_connection, FromFreeList, NewConnection, HandOut, Waiting, Hands
  <2>2. newc' \in Moving'
    BY <2>1 DEF Moving, InHand
  <2>3. newc' \notin Freed' \cup Waiting' /\ newc' # p_Conn'
    BY <1>2, <2>1, <2>2 DEF Apart, Hands
  <2>4. Freed' \subseteq Freed
    <3>1. FromFreeList => Freed' \subseteq Freed
      BY <1>1, <1>2, TailSet DEF FromFreeList, Freed, Apart
    <3> QED
      BY <1>6, <3>1 DEF zhy_get_connection, NewConnection, Freed
  <2> QED
    BY <1>1, <1>2, <1>3, <2>1, <2>3, <2>4
<1>7. CASE AcceptFails
  <2>1. Freed' = Freed \cup {newc}
    <3>1. newc \in Conns
      BY <1>2, <1>7 DEF AcceptFails, Hands
    <3> QED
      BY <1>1, <1>7, <3>1, AppendSet DEF AcceptFails, zhy_free_connection, Freed
  <2> QED
    BY <1>3, <1>7, <2>1 DEF AcceptFails, Waiting
<1>8. CASE AcceptCloses
    BY <1>1, <1>2, <1>3, <1>8 DEF AcceptCloses, Freed, Waiting
<1>9. ASSUME NEW c \in Conns, ClosesocketProc(c)
      PROVE  /\ \A d \in Freed' \cup Waiting' : fd'[d] = "open" => accept' = "close" /\ d = newc'
             /\ p_Conn' # NoConn => fd'[p_Conn'] = "none"
    BY <1>1, <1>2, <1>3, <1>9 DEF ClosesocketProc, Freed, Waiting
<1>10. ASSUME NEW c \in Conns, inRecyConnectQueue(c)
      PROVE  /\ \A d \in Freed' \cup Waiting' : fd'[d] = "open" => accept' = "close" /\ d = newc'
             /\ p_Conn' # NoConn => fd'[p_Conn'] = "none"
  <2>1. Waiting' = Waiting \cup {c} /\ Freed' = Freed
    BY <1>1, <1>10, AppendSet DEF inRecyConnectQueue, Waiting, Freed
  <2> QED
    BY <1>3, <1>10, <2>1 DEF inRecyConnectQueue
<1>11. CASE RecyErases
  <2>1. p_Conn' \in Waiting /\ Waiting' \subseteq Waiting /\ Freed' = Freed
    BY <1>1, <1>2, <1>11, RemoveSet
       DEF RecyErases, PoolInv, TypeOK, Ripe, Waiting, Freed, Apart
  <2>2. accept = "close" => p_Conn' # newc
    BY <1>2, <2>1 DEF Apart, Hands
  <2>3. UNCHANGED <<fd, accept, newc>> /\ p_Conn' \in Conns
    BY <1>1, <1>11, <2>1 DEF RecyErases
  <2> QED
    BY <1>1, <1>2, <1>3, <2>1, <2>2, <2>3
<1>12. CASE RecyFrees \/ RecyFreesAndFaults
  <2>1. p_Conn # NoConn
    BY <1>2, <1>12 DEF RecyFrees, RecyFreesAndFaults, Hands
  <2>2. Freed' = Freed \cup {p_Conn} /\ p_Conn' = NoConn
    <3>1. p_Conn \in Conns /\ freeList \in Seq(Conns)
      BY <1>1, <1>2, <2>1 DEF PoolInv, TypeOK
    <3>2. freeList' = Append(freeList, p_Conn) /\ p_Conn' = NoConn
      <4>1. CASE RecyFrees
        BY <4>1 DEF RecyFrees, zhy_free_connection
      <4>2. CASE RecyFreesAndFaults
        BY <4>2 DEF RecyFreesAndFaults, zhy_free_connection
      <4> QED
        BY <1>12, <4>1, <4>2
    <3> QED
      BY <3>1, <3>2, AppendSet DEF Freed
  <2> QED
    BY <1>3, <1>12, <2>1, <2>2 DEF RecyFrees, RecyFreesAndFaults, Waiting
<1> QED
    BY <1>4, <1>5, <1>6, <1>7, <1>8, <1>9, <1>10, <1>11, <1>12
       DEF Next, Up, zhy_event_accept, Receive, ServerRecyConnectionThread, RecyWakes, RecyLocks,
           RecySkips, RecyUnlocks, RecyTestsStop, Tick, Stop

\* What is due stays due, and nothing younger joins it.
LEMMA StepRipe ==
    ASSUME PoolInv, Next
    PROVE  Ripe'
<1> USE DEF recyVars, acceptVars, pool
<1>1. /\ Ripe /\ due \subseteq Conns /\ Conns \subseteq Ids /\ pos \in Nat
      /\ recyList \in Seq(Conns)
    BY ConnsFacts DEF PoolInv, TypeOK
<1>2. CASE UNCHANGED <<pos, recyMutex, recycler, due, recyList, age, stopEvent>>
    BY <1>1, <1>2 DEF Ripe, Waiting
<1>3. CASE AcceptFails \/ \E c \in Conns : ClosesocketProc(c) \/ Receive(c)
    BY <1>2, <1>3 DEF AcceptFails, ClosesocketProc, Receive
<1>4. CASE AcceptChecks \/ zhy_get_connection \/ AcceptCloses \/ AcceptDone
    BY <1>2, <1>4 DEF AcceptChecks, zhy_get_connection, AcceptCloses, AcceptDone
<1>5. ASSUME NEW c \in Conns, inRecyConnectQueue(c) PROVE Ripe'
  <2>1. /\ UNCHANGED <<pos, recyMutex, recycler, due, stopEvent>> /\ ~recyMutex
        /\ c \notin Waiting /\ age' = [age EXCEPT ![c] = 0]
    BY <1>5 DEF inRecyConnectQueue, Waiting
  <2>2. Waiting' = Waiting \cup {c}
    BY <1>1, <1>5, AppendSet DEF inRecyConnectQueue, Waiting
  <2>3. c \notin due
    BY <1>1, <2>1 DEF Ripe
  <2>4. \A d \in due : age'[d] = age[d]
    BY <2>1, <2>3
  <2> QED
    BY <1>1, <2>1, <2>2, <2>4 DEF Ripe
<1>6. CASE RecyWakes
    BY <1>1, <1>6 DEF RecyWakes, Ripe, Waiting
<1>7. CASE RecyLocks
    BY <1>1, <1>7 DEF RecyLocks, Ripe
<1>8. CASE RecySkips
    BY <1>1, <1>8 DEF RecySkips, Ripe
<1>9. CASE RecyErases
    BY <1>1, <1>9 DEF RecyErases, Ripe
<1>10. CASE RecyFrees \/ RecyFreesAndFaults
    BY <1>1, <1>10 DEF RecyFrees, RecyFreesAndFaults, Ripe
<1>11. CASE RecyUnlocks
    BY <1>1, <1>11 DEF RecyUnlocks, Ripe
<1>12. CASE RecyTestsStop
    BY <1>1, <1>12 DEF RecyTestsStop, Ripe
<1>13. CASE Tick
  <2>1. \A c \in due : age'[c] = age[c]
    BY <1>1, <1>13, PoolConstants DEF Tick, Ripe
  <2> QED
    BY <1>1, <1>13, <2>1 DEF Tick, Ripe, Waiting
<1>14. CASE Stop
    BY <1>1, <1>14 DEF Stop, Ripe, Waiting
<1> QED
    BY <1>3, <1>4, <1>5, <1>6, <1>7, <1>8, <1>9, <1>10, <1>11, <1>12, <1>13, <1>14
       DEF Next, Up, zhy_event_accept, ServerRecyConnectionThread

\* The inductive invariant holds with the one about the stamps.
LEMMA StepPool == PoolInv /\ IInv /\ [Next]_vars => PoolInv'
<1> SUFFICES ASSUME PoolInv, IInv, [Next]_vars PROVE PoolInv'
    OBVIOUS
<1>1. CASE Next
    BY <1>1, StepPoolType, StepPlaces, StepCounters, StepLimit, StepClosed, StepRipe
       DEF PoolInv
<1>2. CASE UNCHANGED vars
    BY <1>2, SMTT(30)
            DEF vars, pool, recyVars, acceptVars, PoolInv, TypeOK, Conns, Apart, NoRepeats,
                Listening, Moving, InHand, Freed, Waiting, Hands, CountersFollowLists, Limit,
                Closed, NoSocketLost, Ripe
<1> QED
    BY <1>1, <1>2

\* Places that have nothing in common add up.
LEMMA PlacesAddUp ==
    ASSUME PoolInv
    PROVE  EachConnectionOnce
<1>1. /\ nconn \in Nat /\ freeList \in Seq(Conns) /\ recyList \in Seq(Conns)
      /\ IsFiniteSet(inUse) /\ Cardinality(inUse) \in Nat /\ Apart
      /\ Len(freeList) \in Nat /\ Len(recyList) \in Nat
    BY ConnsFacts DEF PoolInv
<1>2. /\ IsFiniteSet(Freed) /\ Cardinality(Freed) = Len(freeList)
      /\ IsFiniteSet(Waiting) /\ Cardinality(Waiting) = Len(recyList)
    BY <1>1, NoRepeatsCardinality DEF Apart, Freed, Waiting
<1>3. IsFiniteSet(Listening) /\ Cardinality(Listening) = Ports /\ Ports \in Nat
    BY PoolConstants, IntervalCardinality DEF Listening
<1>4. IsFiniteSet(Conns) /\ Cardinality(Conns) = nconn
    BY <1>1, IntervalCardinality DEF Conns
<1>5. Moving \subseteq Conns
    BY <1>1 DEF Apart
<1>6. IsFiniteSet(Moving) /\ Cardinality(Moving) \in Nat
    BY <1>4, <1>5, FS_Subset, FS_CardinalityType
<1> DEFINE a == Listening \cup inUse
           b == a \cup Moving
           d == b \cup Freed
<1>7. IsFiniteSet(a) /\ Cardinality(a) = Ports + Cardinality(inUse)
  <2>1. Listening \cap inUse = {}
    BY <1>1 DEF Apart
  <2> QED
    BY <1>1, <1>3, <2>1, DisjointCardinality
<1>8. IsFiniteSet(b) /\ Cardinality(b) = Ports + Cardinality(inUse) + Cardinality(Moving)
  <2>1. a \cap Moving = {}
    BY <1>1 DEF Apart
  <2> HIDE DEF a
  <2> QED
    BY <1>6, <1>7, <2>1, DisjointCardinality
<1>9. IsFiniteSet(d) /\ Cardinality(d) = Ports + Cardinality(inUse) + Cardinality(Moving)
                                         + Len(freeList)
  <2>1. b \cap Freed = {}
    BY <1>1 DEF Apart
  <2> HIDE DEF b
  <2>2. IsFiniteSet(d) /\ Cardinality(d) = Cardinality(b) + Cardinality(Freed)
    BY <1>2, <1>8, <2>1, DisjointCardinality
  <2> HIDE DEF d
  <2> QED
    BY <1>2, <1>8, <2>2
<1>10. nconn = Ports + Cardinality(inUse) + Cardinality(Moving) + Len(freeList) + Len(recyList)
  <2>1. d \cap Waiting = {} /\ Conns = d \cup Waiting
    BY <1>1 DEF Apart
  <2> HIDE DEF d
  <2> QED
    BY <1>2, <1>4, <1>9, <2>1, DisjointCardinality
<1>11. Conns = Listening \cup inUse \cup Moving \cup Freed \cup Waiting
    BY <1>1 DEF Apart
<1> QED
    BY <1>2, <1>10, <1>11 DEF EachConnectionOnce, Moving, Freed, Waiting

-----------------------------------------------------------------------------
(* Theorems.                                                               *)

\* The inductive invariant: where each object is, what each thread has in hand, and what
\* the counters, the limit, the sockets and the waiting times owe to it.
THEOREM Inductive == Spec => [](PoolInv /\ IInv)
<1>1. Init => PoolInv /\ IInv
    BY InitPool, InitIInv
<1>2. PoolInv /\ IInv /\ [Next]_vars => (PoolInv /\ IInv)'
    BY StepPool, StepIInv
<1> QED
    BY <1>1, <1>2, PTL DEF Spec

\* Through every hand an object passes on its way between the lists it is in one place, and
\* m_total_connection_n, m_free_connection_n and m_onlineUserCount agree with the lists.
THEOREM ObjectsAccounted == Spec => []PoolConsistent
<1>1. PoolInv => PoolConsistent
    BY PlacesAddUp DEF PoolInv, PoolConsistent
<1> QED
    BY <1>1, Inductive, PTL

\* The test of zhy_event_accept, made without the mutex, keeps the pool within the limit, one
\* object above it at most: between the test and zhy_get_connection the free list only grows.
THEOREM PoolStaysBounded == Spec => []PoolBounded
<1>1. PoolInv => PoolBounded
    BY DEF PoolInv, Limit, PoolBounded
<1> QED
    BY <1>1, Inductive, PTL

\* No object in the free list or in the recycle list keeps a socket, but the one that
\* zhy_close_connection is about to close.
THEOREM SocketsClosed == Spec => []NoSocketLost
<1>1. PoolInv => NoSocketLost
    BY DEF PoolInv, Closed
<1> QED
    BY <1>1, Inductive, PTL

\* What leaves m_recyconnectionList has waited m_RecyConnectionWaitTime, though the time is
\* read before m_recyconnqueueMutex is taken, unless the program stops.
THEOREM WaitsItsTime == Spec => NotReusedEarly
<1>1. ASSUME PoolInv, [Next]_vars, NEW c \in Ids, c \in ToSet(recyList), c \notin ToSet(recyList')
      PROVE  age[c] = WaitTime \/ stopEvent
  <2>1. recyList \in Seq(Conns) /\ Ripe /\ pos \in Nat
    BY <1>1, ConnsFacts DEF PoolInv, TypeOK
  <2>2. ASSUME NEW d \in Conns, inRecyConnectQueue(d) PROVE FALSE
    <3>1. ToSet(recyList') = ToSet(recyList) \cup {d}
      BY <2>1, <2>2, AppendSet DEF inRecyConnectQueue
    <3> QED
      BY <1>1, <3>1
  <2>3. RecyErases
    BY <1>1, <2>2 DEF Next, Up, vars, zhy_event_accept, AcceptChecks, zhy_get_connection, AcceptFails,
                      AcceptCloses, AcceptDone, Receive, ClosesocketProc,
                      ServerRecyConnectionThread, RecyWakes, RecyLocks, RecySkips, RecyFrees,
                      RecyFreesAndFaults, RecyUnlocks, RecyTestsStop, Tick, Stop
  <2>4. pos \in 1..Len(recyList) /\ recyList' = RemoveAt(recyList, pos)
    BY <2>1, <2>3 DEF RecyErases, Ripe
  <2>5. c = recyList[pos]
    BY <1>1, <2>1, <2>4, RemoveSet
  <2> QED
    BY <2>1, <2>3, <2>5 DEF RecyErases, Ripe
<1>2. PoolInv /\ [Next]_vars
      => [\A c \in Ids : (c \in ToSet(recyList) /\ c \notin ToSet(recyList)')
             => age[c] = WaitTime \/ stopEvent]_vars
    BY <1>1 DEF ToSet
<1> QED
    BY <1>2, Inductive, PTL DEF Spec, NotReusedEarly
=============================================================================
