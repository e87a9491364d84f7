----------------------------- MODULE Descriptors -----------------------------
(***************************************************************************)
(* The descriptors of a worker process: numbers the kernel gives out again *)
(* as soon as they are closed, kept in the fd field of the connection      *)
(* objects and used by three threads.  The composition of accepting        *)
(* (zhy_socket_accept.cpp), the event loop (zhy_epoll_process_events with  *)
(* recvproc), the send thread and sendMsg, as far as they load, use, close *)
(* and reset p_Conn->fd.                                                   *)
(*                                                                         *)
(* Each load of the field, each system call and each reset is a step: any  *)
(* of the threads may run between them.  An object serves one client here  *)
(* and is named after it (its reuse is the subject of ConnPool); what is   *)
(* written, and the count that keeps the send thread from an object whose  *)
(* rest the event loop writes, are the subject of SendQueue: here either   *)
(* may send at any time.  The limit on the users online is that of         *)
(* ConnPool.                                                               *)
(***************************************************************************)
EXTENDS Integers, FiniteSets

CONSTANTS
    Clients,    \* the clients, each of which connects at most once
    Fds,        \* the numbers the process may have open for clients
    MaxEvents,  \* ZHY_MAX_EVENTS
    Nobody,     \* no client
    Listen      \* the object of the listening socket

ASSUME DescriptorAssumption ==
    /\ Fds \subseteq Nat /\ IsFiniteSet(Fds)
    /\ IsFiniteSet(Clients)
    /\ MaxEvents \in Nat \ {0}
    /\ Nobody \notin Clients /\ Listen \notin Clients

\* The threads: zhy_epoll_process_events, a business thread in sendMsg, and
\* ServerSendQueueThread.
Threads == {"loop", "business", "sender"}
Closed == -1

VARIABLES
    peer,       \* each client: "away", "pending" (in the backlog), "up" or "gone"
    unread,     \* there are bytes of the client to read
    owner,      \* the kernel: whose socket each number is
    reg,        \* the kernel: data.ptr of the number's entry in epoll
    armed,      \* the kernel: the numbers whose entry asks for EPOLLOUT
    fd,         \* p_Conn->fd
    th,         \* each thread: where it is, on which object, with which loaded number
    batch,      \* the loop: the events of m_events not handled yet
    out,        \* the loop: the object whose event has EPOLLOUT still to be handled
    sendMutex,  \* the holder of m_sendMessageQueueMutex
    served,     \* history: the objects that messages in the process name
    robbed,     \* history: whose socket was closed by a call made for another client
    misled      \* history: whose entry in epoll such a call gave to another object

kernel == <<owner, reg, armed>>
peers == <<peer, unread>>
harm == <<robbed, misled>>
vars == <<peers, kernel, fd, th, batch, out, sendMutex, served, harm>>

\* Where a thread has loaded a number and is about to make a call with it.
Loaded == {"register", "recvcall", "closing", "sendcall", "modcall"}
Places == Loaded \cup {"idle", "recv", "close", "reset", "mod"}

\* What became of a loaded number through another thread that closed the object: it was
\* "dangling" (closed, and still in the field) when it was loaded, or closed "late".
Races == {"none", "dangling", "late"}

Event == [conn : Clients \cup {Listen}, in : BOOLEAN, out : BOOLEAN]

TypeOK ==
    /\ peer \in [Clients -> {"away", "pending", "up", "gone"}]
    /\ unread \in [Clients -> BOOLEAN]
    /\ owner \in [Fds -> Clients \cup {Nobody}]
    /\ reg \in [Fds -> Clients \cup {Nobody}]
    /\ armed \subseteq Fds
    /\ fd \in [Clients -> Fds \cup {Closed}]
    /\ th \in [Threads -> [at : Places, conn : Clients \cup {Nobody},
                           num : Fds \cup {Closed}, race : Races]]
    /\ batch \subseteq Event
    /\ out \in Clients \cup {Nobody}
    /\ sendMutex \in Threads \cup {Nobody}
    /\ served \subseteq Clients
    /\ robbed \subseteq Clients /\ misled \subseteq Clients

Idle == [at |-> "idle", conn |-> Nobody, num |-> Closed, race |-> "none"]

Init ==
    /\ peer = [c \in Clients |-> "away"]
    /\ unread = [c \in Clients |-> FALSE]
    /\ owner = [n \in Fds |-> Nobody]
    /\ reg = [n \in Fds |-> Nobody] /\ armed = {}
    /\ fd = [c \in Clients |-> Closed]
    /\ th = [t \in Threads |-> Idle]
    /\ batch = {} /\ out = Nobody
    /\ sendMutex = Nobody
    /\ served = {}
    /\ robbed = {} /\ misled = {}

-----------------------------------------------------------------------------
(* Steps of a thread.                                                      *)

At(t, place) == th[t].at = place
On(t, c) == th[t].at # "idle" /\ th[t].conn = c
Go(t, place) == th' = [th EXCEPT ![t].at = place]

\* Thread t, free so far, loads p_Conn->fd of object c.
Loading(t, c, place) ==
    [at |-> place, conn |-> c, num |-> fd[c],
     race |-> IF \E u \in Threads \ {t} : At(u, "reset") /\ On(u, c)
              THEN "dangling" ELSE "none"]
Load(t, place) == th' = [th EXCEPT ![t] = Loading(t, th[t].conn, place)]

\* The thread is done with the object; sendMsg and the scan give up the mutex.
Return(t) ==
    /\ th' = [th EXCEPT ![t] = Idle]
    /\ sendMutex' = IF sendMutex = t THEN Nobody ELSE sendMutex

\* Whose socket the number in the thread's register is now, if it is one.
Target(t) == IF th[t].num = Closed THEN Nobody ELSE owner[th[t].num]
\* Whom a call of the thread would reach without being meant.
Victims(t) == {Target(t)} \ {th[t].conn, Nobody}

-----------------------------------------------------------------------------
(* ClosesocketProc, and the end of zhy_close_connection: test, close,      *)
(* reset.                                                                  *)

\* A mutant of CloseTest: the field is reset first, so that close() is given -1.
CloseTestResets(t) ==
    /\ At(t, "close")
    /\ Go(t, "reset")
    /\ UNCHANGED sendMutex
    /\ UNCHANGED <<peers, kernel, fd, batch, out, served, harm>>

CloseTest(t) ==
    /\ At(t, "close")
    /\ IF fd[th[t].conn] = Closed
       THEN Return(t)
       ELSE Load(t, "closing") /\ UNCHANGED sendMutex
    /\ UNCHANGED <<peers, kernel, fd, batch, out, served, harm>>

\* close(): the number is free, and its entry in epoll is gone.  Whoever else has loaded
\* the number of this object holds it too late.
CloseCall(t) ==
    /\ At(t, "closing")
    /\ owner' = [owner EXCEPT ![th[t].num] = Nobody]
    /\ reg' = [reg EXCEPT ![th[t].num] = Nobody]
    /\ armed' = armed \ {th[t].num}
    /\ robbed' = robbed \cup Victims(t)
    /\ th' = [u \in Threads |->
                 IF u = t THEN [th[u] EXCEPT !.at = "reset"]
                 ELSE IF th[u].at \in Loaded /\ th[u].conn = th[t].conn
                         /\ th[u].race = "none"
                      THEN [th[u] EXCEPT !.race = "late"] ELSE th[u]]
    /\ UNCHANGED <<peers, fd, batch, out, sendMutex, served, misled>>

\* A mutant of CloseReset: the field keeps the number.
CloseResetNot(t) ==
    /\ At(t, "reset")
    /\ Return(t)
    /\ UNCHANGED <<peers, kernel, fd, batch, out, served, harm>>

CloseReset(t) ==
    /\ At(t, "reset")
    /\ fd' = [fd EXCEPT ![th[t].conn] = Closed]
    /\ Return(t)
    /\ UNCHANGED <<peers, kernel, batch, out, served, harm>>

-----------------------------------------------------------------------------
(* sendproc and zhy_epoll_oper_event with EPOLL_CTL_MOD, of the send       *)
(* thread and of zhy_write_request_handler.                                *)

\* send().  All is written and EPOLLOUT is to be taken out of the entry again, or a part
\* and it is to be put in; or it fails.
SendCall(t) ==
    /\ At(t, "sendcall")
    /\ \/ Return(t)
       \/ Target(t) # Nobody /\ Go(t, "mod") /\ UNCHANGED sendMutex
    /\ UNCHANGED <<peers, kernel, fd, batch, out, served, harm>>

\* The argument fd is loaded again ...
ModLoad(t) ==
    /\ At(t, "mod")
    /\ Load(t, "modcall")
    /\ UNCHANGED <<peers, kernel, fd, batch, out, sendMutex, served, harm>>

\* ... and the call puts the object and its events into the entry of the number, if it
\* has one.
ModCall(t) ==
    /\ At(t, "modcall")
    /\ LET n == th[t].num IN
          IF n # Closed /\ reg[n] # Nobody
          THEN /\ reg' = [reg EXCEPT ![n] = th[t].conn]
               /\ armed' = IF t = "sender" THEN armed \cup {n} ELSE armed \ {n}
               /\ misled' = misled \cup Victims(t)
          ELSE UNCHANGED <<reg, armed, misled>>
    /\ Return(t)
    /\ UNCHANGED <<peers, owner, fd, batch, out, served, robbed>>

SendSteps(t) == SendCall(t) \/ ModLoad(t) \/ ModCall(t)

-----------------------------------------------------------------------------
(* The event loop.                                                         *)

Pending == {c \in Clients : peer[c] = "pending"}
\* What epoll has to report when the sockets of w can be written: bytes or the end of
\* the stream to read, and EPOLLOUT where it is asked for.  After a hang-up EPOLLOUT
\* only counts iThrowsendCount down, and is left out.
Ready(w) ==
    {[conn |-> reg[n], in |-> unread[owner[n]] \/ peer[owner[n]] = "gone",
      out |-> n \in w /\ peer[owner[n]] # "gone"] :
     n \in {m \in Fds : reg[m] # Nobody
                      /\ (unread[owner[m]] \/ peer[owner[m]] = "gone" \/ m \in w)}}
    \cup (IF Pending = {} THEN {} ELSE {[conn |-> Listen, in |-> TRUE, out |-> FALSE]})

\* epoll_wait fills m_events.
Wait ==
    /\ At("loop", "idle") /\ out = Nobody /\ batch = {}
    /\ \E w \in SUBSET armed : \E events \in SUBSET Ready(w) :
          /\ Ready(w) # {}
          /\ Cardinality(events) = IF Cardinality(Ready(w)) < MaxEvents
                                   THEN Cardinality(Ready(w)) ELSE MaxEvents
          /\ batch' = events
    /\ UNCHANGED <<peers, kernel, fd, th, out, sendMutex, served, harm>>

\* One event of a client: left out when fd is -1; otherwise the read handler runs for
\* EPOLLIN, and after it the write handler for EPOLLOUT.
Dispatch(e) ==
    /\ At("loop", "idle") /\ out = Nobody /\ e \in batch /\ e.conn # Listen
    /\ batch' = batch \ {e}
    /\ th' = IF fd[e.conn] # Closed /\ e.in
             THEN [th EXCEPT !["loop"] = [Idle EXCEPT !.at = "recv", !.conn = e.conn]]
             ELSE th
    /\ out' = IF fd[e.conn] # Closed /\ e.out THEN e.conn ELSE Nobody
    /\ UNCHANGED <<peers, kernel, fd, sendMutex, served, harm>>

\* recvproc: the argument of recv ...
RecvLoad ==
    /\ At("loop", "recv")
    /\ Load("loop", "recvcall")
    /\ UNCHANGED <<peers, kernel, fd, batch, out, sendMutex, served, harm>>

\* A mutant of RecvCall: the end of the stream is not acted upon.
RecvCallKeeps ==
    /\ At("loop", "recvcall")
    /\ Return("loop")
    /\ LET k == Target("loop") IN
          unread' = IF k = Nobody THEN unread ELSE [unread EXCEPT ![k] = FALSE]
    /\ UNCHANGED <<peer, kernel, fd, batch, out, served, harm>>

\* ... and the call: bytes, EAGAIN, or ClosesocketProc after 0 and after an error.
RecvCall ==
    /\ At("loop", "recvcall")
    /\ LET k == Target("loop") IN
       \/ /\ k # Nobody /\ unread[k]
          /\ unread' = [unread EXCEPT ![k] = FALSE]
          /\ served' = served \cup {th["loop"].conn}
          /\ Return("loop")
       \/ /\ k # Nobody /\ ~unread[k] /\ peer[k] # "gone"
          /\ Return("loop")
          /\ UNCHANGED <<unread, served>>
       \/ /\ k # Nobody => (~unread[k] /\ peer[k] = "gone")
          /\ Go("loop", "close")
          /\ UNCHANGED <<unread, sendMutex, served>>
    /\ UNCHANGED <<peer, kernel, fd, batch, out, harm>>

\* zhy_write_request_handler: sendproc loads the number, whatever the read handler of
\* the same event has done to it.
WriteLoad ==
    /\ At("loop", "idle") /\ out # Nobody
    /\ th' = [th EXCEPT !["loop"] = Loading("loop", out, "sendcall")]
    /\ out' = Nobody
    /\ UNCHANGED <<peers, kernel, fd, batch, sendMutex, served, harm>>

FreeFds == {n \in Fds : owner[n] = Nobody}

\* accept4 fails: no number left in the process or in the system (EMFILE, ENFILE), or
\* the like.  The client stays in the backlog.
AcceptRefused ==
    /\ At("loop", "idle") /\ out = Nobody
    /\ \E e \in batch : e.conn = Listen /\ batch' = batch \ {e}
    /\ UNCHANGED <<peers, kernel, fd, th, out, sendMutex, served, harm>>

\* accept4 returns the lowest free number, and zhy_get_connection an object for it.
Accept(c) ==
    /\ At("loop", "idle") /\ out = Nobody
    /\ \E e \in batch : e.conn = Listen /\ batch' = batch \ {e}
    /\ peer[c] = "pending"
    /\ \E s \in FreeFds :
          /\ \A n \in FreeFds : s <= n
          /\ owner' = [owner EXCEPT ![s] = c]
          /\ fd' = [fd EXCEPT ![c] = s]
          /\ th' = [th EXCEPT !["loop"] = [at |-> "register", conn |-> c, num |-> s,
                                           race |-> "none"]]
    /\ peer' = [peer EXCEPT ![c] = "up"]
    /\ UNCHANGED <<unread, reg, armed, out, sendMutex, served, harm>>

\* EPOLL_CTL_ADD; when it fails zhy_close_connection.
Register ==
    /\ At("loop", "register")
    /\ \/ /\ owner[th["loop"].num] = th["loop"].conn
          /\ reg' = [reg EXCEPT ![th["loop"].num] = th["loop"].conn]
          /\ Return("loop")
       \/ /\ Go("loop", "close")
          /\ UNCHANGED <<reg, sendMutex>>
    /\ UNCHANGED <<peers, owner, armed, fd, batch, out, served, harm>>

-----------------------------------------------------------------------------
(* sendMsg and ServerSendQueueThread, both under m_sendMessageQueueMutex.  *)

\* sendMsg cuts a client off that has more than 400 messages waiting.
CutOff(c) ==
    /\ At("business", "idle") /\ sendMutex = Nobody
    /\ sendMutex' = "business"
    /\ th' = [th EXCEPT !["business"] = [Idle EXCEPT !.at = "close", !.conn = c]]
    /\ UNCHANGED <<peers, kernel, fd, batch, out, served, harm>>

\* A message for c: sendproc loads the number, whatever it is.
SendLoad(c) ==
    /\ At("sender", "idle") /\ sendMutex = Nobody
    /\ sendMutex' = "sender"
    /\ th' = [th EXCEPT !["sender"] = Loading("sender", c, "sendcall")]
    /\ UNCHANGED <<peers, kernel, fd, batch, out, served, harm>>

-----------------------------------------------------------------------------
(* The clients.                                                            *)

Connect(c) ==
    /\ peer[c] = "away"
    /\ peer' = [peer EXCEPT ![c] = "pending"]
    /\ UNCHANGED <<unread, kernel, fd, th, batch, out, sendMutex, served, harm>>

Sends(c) ==
    /\ peer[c] = "up" /\ ~unread[c]
    /\ unread' = [unread EXCEPT ![c] = TRUE]
    /\ UNCHANGED <<peer, kernel, fd, th, batch, out, sendMutex, served, harm>>

Leaves(c) ==
    /\ peer[c] = "up"
    /\ peer' = [peer EXCEPT ![c] = "gone"]
    /\ UNCHANGED <<unread, kernel, fd, th, batch, out, sendMutex, served, harm>>

-----------------------------------------------------------------------------
ClosesocketProc(t) == CloseTest(t) \/ CloseCall(t) \/ CloseReset(t)

zhy_epoll_process_events ==
    \/ Wait \/ \E e \in batch : Dispatch(e)
    \/ AcceptRefused \/ \E c \in Clients : Accept(c)
    \/ Register \/ RecvLoad \/ RecvCall \/ ClosesocketProc("loop")
    \/ WriteLoad \/ SendSteps("loop")

sendMsg == ClosesocketProc("business") \/ \E c \in served : CutOff(c)
ServerSendQueueThread == SendSteps("sender") \/ \E c \in served : SendLoad(c)

Next ==
    \/ zhy_epoll_process_events
    \/ sendMsg
    \/ ServerSendQueueThread
    \/ \E c \in Clients : Connect(c) \/ Sends(c) \/ Leaves(c)

\* The event loop runs for ever, and a thread finishes the call it is inside of.
\* Nothing makes a client do anything, or the business logic call sendMsg.
Spec ==
    /\ Init /\ [][Next]_vars
    /\ WF_vars(zhy_epoll_process_events)
    /\ WF_vars(ClosesocketProc("business"))
    /\ WF_vars(SendSteps("sender"))

-----------------------------------------------------------------------------
(* Properties.                                                             *)

\* A socket that is open is known to the object of its client: whatever the threads do
\* to one another in ClosesocketProc, and whichever epoll_ctl fails, no descriptor is
\* left open that nobody can close any more.
NoDescriptorLost == \A n \in Fds : owner[n] # Nobody => fd[owner[n]] = n

\* The number a thread is about to call recv, send, close or epoll_ctl with is another
\* client's socket only through a race of two threads on the one object: the thread
\* loaded it between the other's close() and fd = -1, or, unless the thread is the event
\* loop, which alone accepts, the other closed it after the load; or such a call has
\* closed this object's own socket before.  Nothing else does it: not an event left in
\* m_events, not the write handler after the read handler has closed, however soon a
\* number is given out again.  And but for those an object that nobody is closing names
\* its own socket.
OwnSocketOnly ==
    /\ \A t \in Threads :
          (th[t].at \in Loaded /\ Victims(t) # {}) =>
             \/ th[t].race = "dangling"
             \/ th[t].race = "late" /\ t # "loop"
             \/ th[t].conn \in robbed
    /\ \A c \in Clients \ robbed :
          (fd[c] # Closed /\ \A t \in Threads : ~(At(t, "reset") /\ On(t, c))) =>
             owner[fd[c]] = c

\* A client that leaves is noticed and its descriptor closed (recvproc, 0 bytes or an
\* error), unless a call made for another client has closed its socket or taken its
\* entry in epoll.
LeavingIsNoticed ==
    \A c \in Clients : (peer[c] = "gone") ~> (fd[c] = Closed \/ c \in robbed \cup misled)
=============================================================================
