------------------------------ MODULE ConnPool ------------------------------
(***************************************************************************)
(* The connection pool of a worker process (net/zhy_socket_conn.cpp and    *)
(* zhy_socket_accept.cpp): the objects in m_connectionList, the free list, *)
(* the list of objects waiting to be recycled, and their counters, shared  *)
(* by the event-loop thread (accept), the recycle thread and the threads   *)
(* of the business logic.                                                  *)
(*                                                                         *)
(* Objects are numbered in the order of m_connectionList, which only grows *)
(* (clearConnection runs after the event loop, which never ends).  The     *)
(* first Ports of them belong to the listening sockets.  A section under   *)
(* m_connectionMutex is one step; m_recyconnqueueMutex is held across      *)
(* several steps of the recycle thread and is a variable.                  *)
(***************************************************************************)
EXTENDS Integers, Sequences, FiniteSets, SequencesExt

CONSTANTS
    WorkerConnections,  \* m_worker_connections
    PoolFactor,         \* the 5 in zhy_event_accept
    Ports,              \* m_ListenPortCount
    WaitTime,           \* m_RecyConnectionWaitTime, in ticks of time()
    MaxSeq,             \* bound on iCurrsequence
    NoConn              \* a null pointer to a connection

ASSUME PoolConstants ==
    /\ WorkerConnections \in Nat \ {0}
    /\ PoolFactor \in Nat \ {0}
    /\ Ports \in Nat
    /\ WaitTime \in Nat \ {0}
    /\ MaxSeq \in Nat
    /\ NoConn \notin Nat

VARIABLES
    process,    \* "up" or "aborted" (undefined behaviour ended it)
    allocator,  \* what free() does to a node of a std::list: "reuses" or "leaves"
    nconn,      \* m_connectionList.size()
    freeList,   \* m_freeconnectionList
    recyList,   \* m_recyconnectionList
    total,      \* m_total_connection_n
    freeN,      \* m_free_connection_n
    online,     \* m_onlineUserCount
    seq,        \* iCurrsequence of each object
    fd,         \* "none" (-1) or "open", of each object
    age,        \* time since inRecyTime, up to WaitTime
    accept,     \* where the event loop is in zhy_event_accept
    newc,       \* its local newc
    recyMutex,  \* m_recyconnqueueMutex is taken by the recycle thread
    recycler,   \* where ServerRecyConnectionThread is
    due,        \* the objects whose time was up at the currtime it read
    pos,        \* its iterator, as a position in recyList
    p_Conn,     \* its local p_Conn, between erase and zhy_free_connection
    stopEvent,  \* g_stopEvent
    inUse,      \* history: the accepted clients that are not recycled yet
    use,        \* history: how often each object was handed out
    msg         \* a message of some client: the object, its stamp, which use it was

vars == <<process, allocator, nconn, freeList, recyList, total, freeN, online, seq, fd, age,
          accept, newc, recyMutex, recycler, due, pos, p_Conn, stopEvent, inUse,
          use, msg>>
pool == <<nconn, freeList, freeN, seq>>
recyVars == <<recyMutex, recycler, due, pos, p_Conn>>
acceptVars == <<accept, newc>>

Conns == 1..nconn
Listening == 1..Ports
NoMessage == [conn |-> NoConn, seq |-> 0, use |-> 0]

Max2(a, b) == IF a > b THEN a ELSE b
\* The pool never holds more objects than this (initConnection makes
\* WorkerConnections of them, zhy_epoll_init takes Ports).
PoolLimit == Max2(Max2(WorkerConnections, Ports), PoolFactor * WorkerConnections + 1)
\* The objects of the model, one more than that: a bound of the model.
Ids == 1..(PoolLimit + 1)

TypeOK ==
    /\ process \in {"up", "aborted"}
    /\ allocator \in {"reuses", "leaves"}
    /\ nconn \in Nat
    /\ freeList \in Seq(Conns) /\ recyList \in Seq(Conns)
    /\ total \in Int /\ freeN \in Int /\ online \in Int
    /\ seq \in [Ids -> Nat] /\ use \in [Ids -> Nat]
    /\ fd \in [Ids -> {"none", "open"}]
    /\ age \in [Ids -> 0..WaitTime]
    /\ accept \in {"idle", "get", "setup", "close"}
    /\ newc \in Conns \cup {NoConn}
    /\ recyMutex \in BOOLEAN
    /\ recycler \in {"sleep", "lock", "scan", "free", "stop", "drainlock",
                     "drain", "drainfree", "ended"}
    /\ due \subseteq Conns /\ inUse \subseteq Conns
    /\ pos \in Nat
    /\ p_Conn \in Conns \cup {NoConn}
    /\ stopEvent \in BOOLEAN
    /\ msg \in [conn : Conns \cup {NoConn}, seq : Nat, use : Nat]

\* The allocator is one or the other for good.  After initConnection and
\* zhy_epoll_init every object went through getOneToUse
\* once, those of the listening sockets twice unless the pool was too small.
Init ==
    /\ process = "up"
    /\ allocator \in {"reuses", "leaves"}
    /\ nconn = Max2(WorkerConnections, Ports)
    /\ freeList = [i \in 1..(nconn - Ports) |-> Ports + i]
    /\ recyList = <<>>
    /\ total = nconn
    /\ freeN = nconn - Ports
    /\ online = 0
    /\ seq = [c \in Ids |-> IF c > nconn THEN 0
                            ELSE IF c <= Ports /\ c <= WorkerConnections THEN 2 ELSE 1]
    /\ fd = [c \in Ids |-> IF c \in Listening THEN "open" ELSE "none"]
    /\ age = [c \in Ids |-> 0]
    /\ accept = "idle" /\ newc = NoConn
    /\ recyMutex = FALSE
    /\ recycler = "sleep"
    /\ due = {} /\ pos = 1 /\ p_Conn = NoConn
    /\ stopEvent = FALSE
    /\ inUse = {}
    /\ use = [c \in Ids |-> 0]
    /\ msg = NoMessage

-----------------------------------------------------------------------------
(* zhy_event_accept, in the event-loop thread.                             *)

\* A mutant of AcceptChecks: no limit on the size of the pool.
AcceptChecksOnlineOnly ==
    /\ accept = "idle"
    /\ online < WorkerConnections
    /\ accept' = "get"
    /\ UNCHANGED <<process, pool, recyList, total, online, fd, age, newc, recyVars,
                   stopEvent, inUse, use, msg>>

\* accept4 returned a socket and both limits let it in; the lists are read without
\* their mutex.  A refused socket is closed at once and changes nothing.
AcceptChecks ==
    /\ accept = "idle"
    /\ online < WorkerConnections
    /\ ~(nconn > WorkerConnections * PoolFactor /\ Len(freeList) < WorkerConnections)
    /\ accept' = "get"
    /\ UNCHANGED <<process, pool, recyList, total, online, fd, age, newc, recyVars,
                   stopEvent, inUse, use, msg>>

\* The object c is handed out: getOneToUse, then fd = isock.
HandOut(c) ==
    /\ seq' = [seq EXCEPT ![c] = @ + 1]
    /\ fd' = [fd EXCEPT ![c] = "open"]
    /\ use' = [use EXCEPT ![c] = @ + 1]
    /\ newc' = c
    /\ accept' = "setup"

\* A mutant of FromFreeList: front() without pop_front().
FromFreeListNoPop ==
    /\ freeList # <<>>
    /\ HandOut(Head(freeList))
    /\ freeN' = freeN - 1
    /\ UNCHANGED <<nconn, freeList, total>>

FromFreeList ==
    /\ freeList # <<>>
    /\ HandOut(Head(freeList))
    /\ freeList' = Tail(freeList)
    /\ freeN' = freeN - 1
    /\ UNCHANGED <<nconn, total>>

NewConnection ==
    /\ freeList = <<>>
    /\ nconn' = nconn + 1
    /\ total' = total + 1
    /\ HandOut(nconn + 1)
    /\ UNCHANGED <<freeList, freeN>>

zhy_get_connection ==
    /\ accept = "get"
    /\ freeList # <<>> => seq[Head(freeList)] < MaxSeq
    /\ freeList = <<>> => nconn + 1 \in Ids
    /\ FromFreeList \/ NewConnection
    /\ UNCHANGED <<process, recyList, online, age, recyVars, stopEvent, inUse, msg>>

\* zhy_free_connection of c: putOneToFree and the end of the free list.
zhy_free_connection(c) ==
    /\ seq' = [seq EXCEPT ![c] = @ + 1]
    /\ freeList' = Append(freeList, c)
    /\ freeN' = freeN + 1
    /\ UNCHANGED nconn

\* setnonblocking or epoll_ctl fails: zhy_close_connection frees the object ...
AcceptFails ==
    /\ accept = "setup"
    /\ zhy_free_connection(newc)
    /\ accept' = "close"
    /\ UNCHANGED <<process, recyList, total, online, fd, age, newc, recyVars,
                   stopEvent, inUse, use, msg>>

\* A mutant of AcceptCloses: the socket is not closed.
AcceptClosesNot ==
    /\ accept = "close"
    /\ accept' = "idle"
    /\ newc' = NoConn
    /\ UNCHANGED <<process, pool, recyList, total, online, fd, age, recyVars,
                   stopEvent, inUse, use, msg>>

\* ... and then closes its socket, when the object is in the free list already.
AcceptCloses ==
    /\ accept = "close"
    /\ fd' = [fd EXCEPT ![newc] = "none"]
    /\ accept' = "idle"
    /\ newc' = NoConn
    /\ UNCHANGED <<process, pool, recyList, total, online, age, recyVars,
                   stopEvent, inUse, use, msg>>

\* The socket is in epoll: the client is online.
AcceptDone ==
    /\ accept = "setup"
    /\ online' = online + 1
    /\ inUse' = inUse \cup {newc}
    /\ accept' = "idle"
    /\ newc' = NoConn
    /\ UNCHANGED <<process, pool, recyList, total, fd, age, recyVars, stopEvent,
                   use, msg>>

-----------------------------------------------------------------------------
(* A client's connection, from the event loop and the business logic.      *)

\* A message of client c arrives: it carries the object and its sequence number
\* (zhy_wait_request_handler_proc_head).  One message is followed at a time.
Receive(c) ==
    /\ c \in inUse /\ fd[c] = "open"
    /\ msg' = [conn |-> c, seq |-> seq[c], use |-> use[c]]
    /\ UNCHANGED <<process, pool, recyList, total, online, fd, age, acceptVars,
                   recyVars, stopEvent, inUse, use>>

\* ClosesocketProc: the peer closed, recv failed, or too much is queued for it.
ClosesocketProc(c) ==
    /\ c \in inUse /\ fd[c] = "open"
    /\ fd' = [fd EXCEPT ![c] = "none"]
    /\ UNCHANGED <<process, pool, recyList, total, online, age, acceptVars,
                   recyVars, stopEvent, inUse, use, msg>>

\* A mutant of inRecyConnectQueue: the sequence number stays as it is.
inRecyConnectQueueNoBump(c) ==
    /\ ~recyMutex
    /\ c \in inUse /\ fd[c] = "none"
    /\ c \notin ToSet(recyList)
    /\ age' = [age EXCEPT ![c] = 0]
    /\ recyList' = Append(recyList, c)
    /\ total' = total + 1
    /\ online' = online - 1
    /\ inUse' = inUse \ {c}
    /\ UNCHANGED <<process, pool, fd, acceptVars, recyVars, stopEvent, use, msg>>

\* The business logic gives up a closed connection.  Two of its threads may give up
\* the same one: the second finds it in the list, and returns.  That it is closed and
\* not in the pool again is the caller's duty.
inRecyConnectQueue(c) ==
    /\ ~recyMutex
    /\ c \in inUse /\ fd[c] = "none"
    /\ c \notin ToSet(recyList)
    /\ age' = [age EXCEPT ![c] = 0]
    /\ seq' = [seq EXCEPT ![c] = @ + 1]
    /\ recyList' = Append(recyList, c)
    /\ total' = total + 1
    /\ online' = online - 1
    /\ inUse' = inUse \ {c}
    /\ UNCHANGED <<process, nconn, freeList, freeN, fd, acceptVars, recyVars,
                   stopEvent, use, msg>>

-----------------------------------------------------------------------------
(* ServerRecyConnectionThread.                                             *)

\* A mutant of RecyWakes: inRecyTime is not looked at.
RecyWakesAnyAge ==
    /\ recycler = "sleep"
    /\ recycler' = "lock"
    /\ due' = ToSet(recyList)
    /\ UNCHANGED <<process, pool, recyList, total, online, fd, age, acceptVars,
                   recyMutex, pos, p_Conn, stopEvent, inUse, use, msg>>

\* A turn begins after usleep: total > 0, and currtime is read before the lock.
RecyWakes ==
    /\ recycler = "sleep"
    /\ IF total > 0
       THEN /\ recycler' = "lock"
            /\ due' = {c \in ToSet(recyList) : age[c] = WaitTime}
       ELSE /\ recycler' = "stop"
            /\ UNCHANGED due
    /\ UNCHANGED <<process, pool, recyList, total, online, fd, age, acceptVars,
                   recyMutex, pos, p_Conn, stopEvent, inUse, use, msg>>

RecyLocks ==
    /\ recycler \in {"lock", "drainlock"}
    /\ recyMutex' = TRUE
    /\ pos' = 1
    /\ recycler' = IF recycler = "lock" THEN "scan" ELSE "drain"
    /\ UNCHANGED <<process, pool, recyList, total, online, fd, age, acceptVars, due,
                   p_Conn, stopEvent, inUse, use, msg>>

\* The object's time is not up: continue.
RecySkips ==
    /\ recycler = "scan" /\ pos <= Len(recyList)
    /\ recyList[pos] \notin due /\ ~stopEvent
    /\ pos' = pos + 1
    /\ UNCHANGED <<process, pool, recyList, total, online, fd, age, acceptVars,
                   recyMutex, recycler, due, p_Conn, stopEvent, inUse, use, msg>>

\* Its time is up, or the program stops: --total and erase(pos).
RecyErases ==
    /\ recycler \in {"scan", "drain"} /\ pos <= Len(recyList)
    /\ recycler = "scan" => recyList[pos] \in due \/ stopEvent
    /\ p_Conn' = recyList[pos]
    /\ total' = total - 1
    /\ recyList' = RemoveAt(recyList, pos)
    /\ recycler' = IF recycler = "scan" THEN "free" ELSE "drainfree"
    /\ UNCHANGED <<process, pool, online, fd, age, acceptVars, recyMutex, due, pos,
                   stopEvent, inUse, use, msg>>

\* zhy_free_connection, then ++pos on the erased iterator, which is undefined.  Where
\* free() leaves the node alone it still names its successor, which has moved up to
\* position pos.
RecyFrees ==
    /\ recycler \in {"free", "drainfree"}
    /\ allocator = "leaves"
    /\ zhy_free_connection(p_Conn)
    /\ p_Conn' = NoConn
    /\ recycler' = IF recycler = "free" THEN "scan" ELSE "drain"
    /\ UNCHANGED <<process, recyList, total, online, fd, age, acceptVars, recyMutex,
                   due, pos, stopEvent, inUse, use, msg>>

\* The allocator of the platform (glibc) gives the node just freed to the next request
\* of its size, the push_back of zhy_free_connection: the iterator is in the free
\* list now, ++pos brings it to that list's sentinel, and the next *pos faults.
RecyFreesAndFaults ==
    /\ recycler \in {"free", "drainfree"}
    /\ allocator = "reuses"
    /\ zhy_free_connection(p_Conn)
    /\ p_Conn' = NoConn
    /\ process' = "aborted"
    /\ UNCHANGED <<recyList, total, online, fd, age, acceptVars, recyMutex, recycler,
                   due, pos, stopEvent, inUse, use, msg>>

RecyUnlocks ==
    /\ recycler \in {"scan", "drain"} /\ pos > Len(recyList)
    /\ recyMutex' = FALSE
    /\ recycler' = IF recycler = "scan" THEN "stop" ELSE "ended"
    /\ due' = {} /\ pos' = 1
    /\ UNCHANGED <<process, pool, recyList, total, online, fd, age, acceptVars,
                   p_Conn, stopEvent, inUse, use, msg>>

\* A mutant of RecyTestsStop: no second pass.
RecyTestsStopOnce ==
    /\ recycler = "stop"
    /\ recycler' = IF stopEvent THEN "ended" ELSE "sleep"
    /\ UNCHANGED <<process, pool, recyList, total, online, fd, age, acceptVars,
                   recyMutex, due, pos, p_Conn, stopEvent, inUse, use, msg>>

\* if(g_stopEvent): the list is emptied in a second pass, and the thread ends.
RecyTestsStop ==
    /\ recycler = "stop"
    /\ recycler' = IF ~stopEvent THEN "sleep" ELSE IF total > 0 THEN "drainlock"
                   ELSE "ended"
    /\ UNCHANGED <<process, pool, recyList, total, online, fd, age, acceptVars,
                   recyMutex, due, pos, p_Conn, stopEvent, inUse, use, msg>>

-----------------------------------------------------------------------------
\* time() moves on.
Tick ==
    /\ \E c \in ToSet(recyList) : age[c] < WaitTime
    /\ age' = [c \in Ids |-> IF c \in ToSet(recyList) /\ age[c] < WaitTime
                             THEN age[c] + 1 ELSE age[c]]
    /\ UNCHANGED <<process, pool, recyList, total, online, fd, acceptVars, recyVars,
                   stopEvent, inUse, use, msg>>

\* The program is told to stop.
Stop ==
    /\ ~stopEvent
    /\ stopEvent' = TRUE
    /\ UNCHANGED <<process, pool, recyList, total, online, fd, age, acceptVars,
                   recyVars, inUse, use, msg>>

zhy_event_accept ==
    AcceptChecks \/ zhy_get_connection \/ AcceptFails \/ AcceptCloses \/ AcceptDone

ServerRecyConnectionThread ==
    \/ RecyWakes \/ RecyLocks \/ RecySkips \/ RecyErases
    \/ RecyFrees \/ RecyFreesAndFaults \/ RecyUnlocks \/ RecyTestsStop

\* The process has not ended, and its allocator is what it was.
Up == process = "up" /\ UNCHANGED allocator

Next ==
    /\ Up
    /\ \/ zhy_event_accept
       \/ \E c \in Conns :
             Receive(c) \/ ClosesocketProc(c) \/ inRecyConnectQueue(c)
       \/ ServerRecyConnectionThread
       \/ Tick
       \/ Stop

\* The recycle thread wakes from every usleep and is never kept from running, and
\* time passes.
Spec ==
    /\ Init /\ [][Next]_vars
    /\ WF_vars(Up /\ ServerRecyConnectionThread)
    /\ WF_vars(Up /\ Tick)

-----------------------------------------------------------------------------
(* Properties.                                                             *)

InHand == {newc, p_Conn} \ {NoConn}

\* Every object is in exactly one place: owned by a listening socket, in use by a
\* client, once in the recycle list, once in the free list, or in the hands of the
\* one thread that moves it from one to the other.
EachConnectionOnce ==
    LET moving == IF accept = "close" THEN InHand \ {newc} ELSE InHand
    IN /\ Cardinality(ToSet(freeList)) = Len(freeList)
       /\ Cardinality(ToSet(recyList)) = Len(recyList)
       /\ Conns = Listening \cup inUse \cup moving \cup ToSet(freeList) \cup ToSet(recyList)
       /\ nconn = Ports + Cardinality(inUse) + Cardinality(moving)
                  + Len(freeList) + Len(recyList)

\* The atomic counters, changed outside the list operations they count, follow the
\* lists: the users online are the clients not yet given up, the free objects are
\* those of the free list, and the total counts an object waiting to be recycled
\* twice (inRecyConnectQueue counts up m_total_connection_n).
CountersFollowLists ==
    /\ online = Cardinality(inUse)
    /\ freeN = Len(freeList)
    /\ total = nconn + Len(recyList)

\* Through every hand an object passes on its way from list to list it is in one place,
\* and the counters, changed at other moments, still agree with the lists.
PoolConsistent == TypeOK /\ EachConnectionOnce /\ CountersFollowLists

\* However long objects wait to be recycled the pool stays within the limit that
\* zhy_event_accept tests without the mutex, one object above it at most.
PoolBounded == nconn <= PoolLimit

\* A message whose stamp equals the sequence number of its connection belongs to the
\* client that has the object now: the object was neither given up nor handed to
\* another client since the message arrived, at whatever point of those operations
\* the comparison is made.
StampMeansSameUse ==
    (msg # NoMessage /\ seq[msg.conn] = msg.seq) =>
        msg.conn \in inUse /\ use[msg.conn] = msg.use

\* No socket is left open in an object nobody uses: what is in the free list or waits
\* to be recycled has fd = -1, but for the object zhy_close_connection is closing.
NoSocketLost ==
    \A c \in ToSet(freeList) \cup ToSet(recyList) :
        fd[c] = "open" => accept = "close" /\ c = newc

\* The freed object comes back not before its waiting time is up, unless the program
\* stops: the threads that may still hold it have that long to notice.
NotReusedEarly ==
    [][\A c \in Ids : (c \in ToSet(recyList) /\ c \notin ToSet(recyList)')
          => age[c] = WaitTime \/ stopEvent]_vars

\* Every connection given up before the recycle thread ends is back in the free list
\* in the end, also one given up while the thread is on its way out (the second pass).
\* That needs an allocator which leaves a freed list node alone; with the other the
\* iterator erased under the loop ends the process at the first object, every time.
GivenUpIsFreed ==
    \A c \in Ids :
        (c \in ToSet(recyList) /\ recycler # "ended") ~>
            IF allocator = "leaves" THEN c \in ToSet(freeList) ELSE process = "aborted"
=============================================================================
