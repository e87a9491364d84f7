----------------------------- MODULE SendQueue -----------------------------
(***************************************************************************)
(* The sending side (sendMsg in net/zhy_socket.cpp, ServerSendQueueThread  *)
(* in zhy_socket_conn.cpp, zhy_write_request_handler in                    *)
(* zhy_socket.request.cpp): the business threads put messages in one list, *)
(* the send thread takes them out and writes them to the sockets, and what *)
(* a socket does not take at once the event loop writes on EPOLLOUT.       *)
(* iThrowsendCount is what keeps the two writers apart.                    *)
(*                                                                         *)
(* Messages are numbered in the order of the calls of sendMsg and consist  *)
(* of MsgLen pieces.  The operations of the pool appear as far as they     *)
(* touch the sending fields.                                               *)
(***************************************************************************)
EXTENDS Integers, Sequences, FiniteSets, SequencesExt

CONSTANTS
    Conns,      \* the connection objects
    MsgLen,     \* the pieces of a message (isendlen of a fresh one)
    QMax,       \* the 50000 in sendMsg
    CMax,       \* the 400 in sendMsg
    MaxMsgs,    \* bound on the number of calls of sendMsg
    MaxUses,    \* bound on the uses of each object
    NoMsg,      \* a null psendMemPointer
    NoConn      \* no connection

ASSUME SendAssumption ==
    /\ IsFiniteSet(Conns)
    /\ MsgLen \in Nat \ {0} /\ QMax \in Nat /\ CMax \in Nat
    /\ MaxMsgs \in Nat /\ MaxUses \in Nat
    /\ NoMsg \notin Nat
    /\ NoConn \notin Conns

Ids == 1..MaxMsgs

VARIABLES
    process,    \* "up", or "killed" by SIGPIPE
    queue,      \* m_MsgSendQueue, as message numbers
    count,      \* m_iSendMsgQueueCount
    sem,        \* the value of m_semEventSendQueue
    mutex,      \* m_sendMessageQueueMutex is held by the send thread
    sender,     \* where ServerSendQueueThread is
    pos,        \* its iterator, as a position in queue
    p_Conn,     \* its p_Conn, while it is at work on one message
    result,     \* its sendsize: "all", "part", "again" or "error"
    main,       \* the event loop: "epoll", or "count" inside the write handler
    handled,    \* the connection the write handler is at work on
    life,       \* each object: "open", "closed" (fd = -1), "recy" or "free"
    peer,       \* the client: "up"; "fin" (has sent a FIN) or "reset" since the events
                \* at hand were collected; "half" or "gone": the same before that
    seq,        \* iCurrsequence
    iSendCount,
    iThrowsendCount,
    psendMem,   \* the message at psendMemPointer
    isendlen,   \* what is left of it
    epollout,   \* EPOLLOUT is registered
    conn,       \* history: the connection of each message given to sendMsg ...
    stamp,      \* ... and its isCurrsequence
    refused,    \* history: the messages sendMsg did not take
    freed,      \* history: the messages given back to CMemory
    skipped,    \* history: queued messages the send thread passed over as busy
    wire,       \* history: the pieces written to the current socket
    calm        \* history: the client has done nothing but read, and was not cut off

vars == <<process, queue, count, sem, mutex, sender, pos, p_Conn, result, main,
          handled, life, peer, seq, iSendCount, iThrowsendCount, psendMem, isendlen,
          epollout, conn, stamp, refused, freed, skipped, wire, calm>>
list == <<queue, count, skipped>>
senderVars == <<mutex, sender, pos, p_Conn, result>>
mainVars == <<main, handled>>
connVars == <<life, peer, seq, calm>>
sending == <<iThrowsendCount, psendMem, isendlen, epollout>>
messages == <<conn, stamp, refused>>

TypeOK ==
    /\ process \in {"up", "killed"}
    /\ queue \in Seq(Ids)
    /\ count \in Int /\ sem \in Nat
    /\ mutex \in BOOLEAN
    /\ sender \in {"wait", "scan", "send", "settle", "register"}
    /\ pos \in Nat \ {0}
    /\ p_Conn \in Conns \cup {NoConn}
    /\ result \in {"all", "part", "again", "error"}
    /\ main \in {"epoll", "count"} /\ handled \in Conns \cup {NoConn}
    /\ life \in [Conns -> {"open", "closed", "recy", "free"}]
    /\ peer \in [Conns -> {"up", "fin", "half", "reset", "gone"}]
    /\ seq \in [Conns -> Nat]
    /\ iSendCount \in [Conns -> Int] /\ iThrowsendCount \in [Conns -> Int]
    /\ psendMem \in [Conns -> Ids \cup {NoMsg}]
    /\ isendlen \in [Conns -> 0..MsgLen]
    /\ epollout \in [Conns -> BOOLEAN]
    /\ conn \in Seq(Conns) /\ stamp \in Seq(Nat)
    /\ refused \subseteq Ids /\ freed \subseteq Ids /\ skipped \subseteq Ids
    /\ wire \in [Conns -> Seq(Ids \X (1..MsgLen))]
    /\ calm \in [Conns -> BOOLEAN]

Init ==
    /\ process = "up"
    /\ queue = <<>> /\ count = 0 /\ sem = 0 /\ skipped = {}
    /\ mutex = FALSE /\ sender = "wait" /\ pos = 1 /\ result = "all"
    /\ p_Conn = NoConn
    /\ main = "epoll" /\ handled = NoConn
    /\ life = [c \in Conns |-> "free"]
    /\ peer = [c \in Conns |-> "up"]
    /\ seq = [c \in Conns |-> 1]
    /\ iSendCount = [c \in Conns |-> 0]
    /\ iThrowsendCount = [c \in Conns |-> 0]
    /\ psendMem = [c \in Conns |-> NoMsg]
    /\ isendlen = [c \in Conns |-> 0]
    /\ epollout = [c \in Conns |-> FALSE]
    /\ conn = <<>> /\ stamp = <<>>
    /\ refused = {} /\ freed = {}
    /\ wire = [c \in Conns |-> <<>>]
    /\ calm = [c \in Conns |-> FALSE]

-----------------------------------------------------------------------------
(* The pool, as far as the sending fields go.                              *)

\* zhy_get_connection for a new client: getOneToUse.
Open(c) ==
    /\ life[c] = "free" /\ seq[c] < 3 * MaxUses
    /\ life' = [life EXCEPT ![c] = "open"]
    /\ peer' = [peer EXCEPT ![c] = "up"]
    /\ seq' = [seq EXCEPT ![c] = @ + 1]
    /\ calm' = [calm EXCEPT ![c] = TRUE]
    /\ iSendCount' = [iSendCount EXCEPT ![c] = 0]
    /\ iThrowsendCount' = [iThrowsendCount EXCEPT ![c] = 0]
    /\ psendMem' = [psendMem EXCEPT ![c] = NoMsg]
    /\ wire' = [wire EXCEPT ![c] = <<>>]
    /\ UNCHANGED <<process, list, sem, senderVars, mainVars, isendlen, epollout,
                   messages, freed>>

\* inRecyConnectQueue, for a closed connection.
GiveUp(c) ==
    /\ life[c] = "closed"
    /\ life' = [life EXCEPT ![c] = "recy"]
    /\ seq' = [seq EXCEPT ![c] = @ + 1]
    /\ UNCHANGED <<process, list, sem, senderVars, mainVars, peer, calm, iSendCount,
                   sending, messages, freed, wire>>

\* zhy_free_connection: putOneToFree.  That neither writer is in the middle of a
\* message of the object by then is what the waiting time is for.
Free(c) ==
    /\ life[c] = "recy" /\ c \notin {p_Conn, handled}
    /\ life' = [life EXCEPT ![c] = "free"]
    /\ seq' = [seq EXCEPT ![c] = @ + 1]
    /\ freed' = freed \cup ({psendMem[c]} \ {NoMsg})
    /\ psendMem' = [psendMem EXCEPT ![c] = NoMsg]
    /\ iThrowsendCount' = [iThrowsendCount EXCEPT ![c] = 0]
    /\ UNCHANGED <<process, list, sem, senderVars, mainVars, peer, calm, iSendCount,
                   isendlen, epollout, messages, wire>>

Broken(c) == peer[c] \in {"reset", "gone"}

\* The client sends a FIN and may go on reading, or it resets the connection.  Once
\* epoll has reported a FIN every event of the socket carries the hang-up.
PeerLeaves(c, how) ==
    /\ life[c] = "open" /\ ~Broken(c)
    /\ how = "fin" => peer[c] = "up"
    /\ peer' = [peer EXCEPT ![c] = IF @ = "half" THEN "gone" ELSE how]
    /\ calm' = [calm EXCEPT ![c] = FALSE]
    /\ UNCHANGED <<process, list, sem, senderVars, mainVars, life, seq, iSendCount,
                   sending, messages, freed, wire>>

\* The client after an event of its socket was handled: the next one tells of the FIN.
Collected(c) == IF peer[c] = "fin" THEN "half" ELSE peer[c]

\* iThrowsendCount after ClosesocketProc.
CloseCount(c) == IF iThrowsendCount[c] > 0 THEN iThrowsendCount[c] - 1
                                           ELSE iThrowsendCount[c]

-----------------------------------------------------------------------------
(* sendMsg, in a thread of the business logic, for a message that carries  *)
(* the sequence number c had when its request arrived.  The request may    *)
(* be from before the connection was given up, but not from another use.   *)

Call(c) ==
    /\ Len(conn) < MaxMsgs /\ life[c] # "free" /\ ~mutex
    /\ conn' = Append(conn, c)
    /\ stamp' = Append(stamp, IF life[c] = "recy" THEN seq[c] - 1 ELSE seq[c])

ThisMsg == Len(conn) + 1

\* The list is too long: the message is dropped.
SendMsgDrops(c) ==
    /\ Call(c)
    /\ count > QMax
    /\ freed' = freed \cup {ThisMsg}
    /\ refused' = refused \cup {ThisMsg}
    /\ UNCHANGED <<process, list, sem, senderVars, mainVars, connVars, iSendCount,
                   sending, wire>>

\* Too many messages wait for this client: dropped, and the client is cut off.
SendMsgCutsOff(c) ==
    /\ Call(c)
    /\ count <= QMax /\ iSendCount[c] > CMax
    /\ freed' = freed \cup {ThisMsg}
    /\ refused' = refused \cup {ThisMsg}
    /\ life' = [life EXCEPT ![c] = IF @ = "open" THEN "closed" ELSE @]
    /\ calm' = [calm EXCEPT ![c] = FALSE]
    /\ iThrowsendCount' = [iThrowsendCount EXCEPT ![c] = CloseCount(c)]
    /\ epollout' = [epollout EXCEPT ![c] = FALSE]
    /\ UNCHANGED <<process, list, sem, senderVars, mainVars, peer, seq, iSendCount,
                   psendMem, isendlen, wire>>

\* A mutant of SendMsgQueues: the semaphore is posted for the first message only.
SendMsgQueuesPostOnce(c) ==
    /\ Call(c)
    /\ count <= QMax /\ iSendCount[c] <= CMax
    /\ iSendCount' = [iSendCount EXCEPT ![c] = @ + 1]
    /\ queue' = Append(queue, ThisMsg)
    /\ count' = count + 1
    /\ sem' = IF queue = <<>> THEN sem + 1 ELSE sem
    /\ UNCHANGED <<process, skipped, senderVars, mainVars, connVars, sending, refused,
                   freed, wire>>

SendMsgQueues(c) ==
    /\ Call(c)
    /\ count <= QMax /\ iSendCount[c] <= CMax
    /\ iSendCount' = [iSendCount EXCEPT ![c] = @ + 1]
    /\ queue' = Append(queue, ThisMsg)
    /\ count' = count + 1
    /\ sem' = sem + 1
    /\ UNCHANGED <<process, skipped, senderVars, mainVars, connVars, sending, refused,
                   freed, wire>>

-----------------------------------------------------------------------------
(* ServerSendQueueThread.                                                  *)

\* sem_wait returns; the list is scanned from its start, under the mutex, if
\* m_iSendMsgQueueCount is not 0.
Scanning ==
    /\ IF count > 0 THEN mutex' = TRUE /\ sender' = "scan"
                    ELSE UNCHANGED <<mutex, sender>>
    /\ pos' = 1
    /\ UNCHANGED <<process, list, p_Conn, result, mainVars, connVars, iSendCount,
                   sending, messages, freed, wire>>

SenderWakes ==
    /\ sender = "wait" /\ sem > 0
    /\ sem' = sem - 1
    /\ Scanning

\* sem_wait blocks and fails with EINTR, and the thread goes on all the same.
SenderInterrupted ==
    /\ sender = "wait" /\ sem = 0
    /\ UNCHANGED sem
    /\ Scanning

\* The message at the iterator.
AtMessage(m) == sender = "scan" /\ pos <= Len(queue) /\ m = queue[pos]

Unlist(m) ==
    /\ queue' = RemoveAt(queue, pos)
    /\ count' = count - 1
    /\ skipped' = skipped \ {m}

\* The connection was given up since: the message is dropped.
DropStale(m) ==
    /\ AtMessage(m) /\ seq[conn[m]] # stamp[m]
    /\ Unlist(m)
    /\ freed' = freed \cup {m}
    /\ UNCHANGED <<process, sem, senderVars, mainVars, connVars, iSendCount, sending,
                   messages, wire>>

\* An earlier message of the connection is not written yet: this one stays.
SkipBusy(m) ==
    /\ AtMessage(m) /\ seq[conn[m]] = stamp[m] /\ iThrowsendCount[conn[m]] > 0
    /\ pos' = pos + 1
    /\ skipped' = skipped \cup {m}
    /\ UNCHANGED <<process, queue, count, sem, mutex, sender, p_Conn, result,
                   mainVars, connVars, iSendCount, sending, messages, freed, wire>>

\* A mutant of Take: iThrowsendCount is not looked at.
TakeBusyToo(m) ==
    /\ AtMessage(m) /\ seq[conn[m]] = stamp[m]
    /\ iSendCount' = [iSendCount EXCEPT ![conn[m]] = @ - 1]
    /\ psendMem' = [psendMem EXCEPT ![conn[m]] = m]
    /\ isendlen' = [isendlen EXCEPT ![conn[m]] = MsgLen]
    /\ Unlist(m)
    /\ sender' = "send" /\ p_Conn' = conn[m]
    /\ UNCHANGED <<process, sem, mutex, pos, result, mainVars, connVars,
                   iThrowsendCount, epollout, messages, freed, wire>>

\* A mutant of Take: m_iSendMsgQueueCount counted down, iSendCount forgotten.
TakeUncounted(m) ==
    /\ AtMessage(m) /\ seq[conn[m]] = stamp[m] /\ iThrowsendCount[conn[m]] <= 0
    /\ psendMem' = [psendMem EXCEPT ![conn[m]] = m]
    /\ isendlen' = [isendlen EXCEPT ![conn[m]] = MsgLen]
    /\ Unlist(m)
    /\ sender' = "send" /\ p_Conn' = conn[m]
    /\ UNCHANGED <<process, sem, mutex, pos, result, mainVars, connVars, iSendCount,
                   iThrowsendCount, epollout, messages, freed, wire>>

Take(m) ==
    /\ AtMessage(m) /\ seq[conn[m]] = stamp[m] /\ iThrowsendCount[conn[m]] <= 0
    /\ iSendCount' = [iSendCount EXCEPT ![conn[m]] = @ - 1]
    /\ psendMem' = [psendMem EXCEPT ![conn[m]] = m]
    /\ isendlen' = [isendlen EXCEPT ![conn[m]] = MsgLen]
    /\ Unlist(m)
    /\ sender' = "send" /\ p_Conn' = conn[m]
    /\ UNCHANGED <<process, sem, mutex, pos, result, mainVars, connVars,
                   iThrowsendCount, epollout, messages, freed, wire>>

\* n pieces of psendbuf reach the socket of c.
Writes(c, n) ==
    /\ isendlen' = [isendlen EXCEPT ![c] = @ - n]
    /\ wire' = [wire EXCEPT ![c] =
                  @ \o [i \in 1..n |-> <<psendMem[c], MsgLen - isendlen[c] + i>>]]

\* sendproc returns what the socket took: all of it, or a part.
SenderSends ==
    /\ sender = "send" /\ life[p_Conn] = "open" /\ ~Broken(p_Conn)
    /\ \E n \in 1..isendlen[p_Conn] :
          /\ Writes(p_Conn, n)
          /\ result' = IF n = isendlen[p_Conn] THEN "all" ELSE "part"
    /\ sender' = "settle"
    /\ UNCHANGED <<process, list, sem, mutex, pos, p_Conn, mainVars, connVars,
                   iSendCount, iThrowsendCount, psendMem, epollout, messages, freed>>

\* sendproc returns -1 (the socket's buffer is full), or -2 (it is closed or reset).
SenderSendFails ==
    /\ sender = "send"
    /\ result' = IF life[p_Conn] = "open" /\ ~Broken(p_Conn) THEN "again" ELSE "error"
    /\ sender' = "settle"
    /\ UNCHANGED <<process, list, sem, mutex, pos, p_Conn, mainVars, connVars,
                   iSendCount, sending, messages, freed, wire>>

\* A mutant of SettleDone: a message written in part is freed.
SettleDonePart ==
    /\ sender = "settle" /\ result \in {"all", "part", "error"}
    /\ freed' = freed \cup ({psendMem[p_Conn]} \ {NoMsg})
    /\ psendMem' = [psendMem EXCEPT ![p_Conn] = NoMsg]
    /\ iThrowsendCount' = [iThrowsendCount EXCEPT ![p_Conn] = 0]
    /\ sender' = "scan" /\ p_Conn' = NoConn /\ result' = "all"
    /\ UNCHANGED <<process, list, sem, mutex, pos, mainVars, connVars, iSendCount,
                   isendlen, epollout, messages, wire>>

\* Done with the message: it is freed, and iThrowsendCount is 0.
SettleDone ==
    /\ sender = "settle" /\ result \in {"all", "error"}
    /\ freed' = freed \cup ({psendMem[p_Conn]} \ {NoMsg})
    /\ psendMem' = [psendMem EXCEPT ![p_Conn] = NoMsg]
    /\ iThrowsendCount' = [iThrowsendCount EXCEPT ![p_Conn] = 0]
    /\ sender' = "scan" /\ p_Conn' = NoConn /\ result' = "all"
    /\ UNCHANGED <<process, list, sem, mutex, pos, mainVars, connVars, iSendCount,
                   isendlen, epollout, messages, wire>>

\* A mutant of SettleLater: iThrowsendCount stays.
SettleLaterUncounted ==
    /\ sender = "settle" /\ result \in {"part", "again"}
    /\ sender' = "register"
    /\ UNCHANGED <<process, list, sem, mutex, pos, p_Conn, result, mainVars,
                   connVars, iSendCount, sending, messages, freed, wire>>

\* Not done: iThrowsendCount goes up ...
SettleLater ==
    /\ sender = "settle" /\ result \in {"part", "again"}
    /\ iThrowsendCount' = [iThrowsendCount EXCEPT ![p_Conn] = @ + 1]
    /\ sender' = "register"
    /\ UNCHANGED <<process, list, sem, mutex, pos, p_Conn, result, mainVars,
                   connVars, iSendCount, psendMem, isendlen, epollout, messages,
                   freed, wire>>

\* A mutant of SenderRegisters: EPOLLOUT is not registered.
SenderRegistersNot ==
    /\ sender = "register"
    /\ sender' = "scan" /\ p_Conn' = NoConn /\ result' = "all"
    /\ UNCHANGED <<process, list, sem, mutex, pos, mainVars, connVars, iSendCount,
                   sending, messages, freed, wire>>

\* ... and EPOLLOUT is registered, which fails for a closed socket.
SenderRegisters ==
    /\ sender = "register"
    /\ epollout' = [epollout EXCEPT ![p_Conn] = (life[p_Conn] = "open")]
    /\ sender' = "scan" /\ p_Conn' = NoConn /\ result' = "all"
    /\ UNCHANGED <<process, list, sem, mutex, pos, mainVars, connVars, iSendCount,
                   iThrowsendCount, psendMem, isendlen, messages, freed, wire>>

SenderUnlocks ==
    /\ sender = "scan" /\ pos > Len(queue)
    /\ mutex' = FALSE /\ pos' = 1
    /\ sender' = "wait"
    /\ UNCHANGED <<process, list, sem, p_Conn, result, mainVars, connVars,
                   iSendCount, sending, messages, freed, wire>>

-----------------------------------------------------------------------------
(* zhy_epoll_process_events, in the event-loop thread.                     *)

\* EPOLLOUT, and no hang-up with it: zhy_write_request_handler writes a part of what is
\* left, or all of it, also when a FIN arrived since epoll_wait returned; with all of it
\* written EPOLLOUT is deregistered and the message freed ...
HandlerSends(c) ==
    /\ main = "epoll" /\ life[c] = "open" /\ epollout[c] /\ peer[c] \in {"up", "fin"}
    /\ peer' = [peer EXCEPT ![c] = Collected(c)]
    /\ \E n \in 1..isendlen[c] :
          /\ Writes(c, n)
          /\ IF n = isendlen[c]
             THEN /\ epollout' = [epollout EXCEPT ![c] = FALSE]
                  /\ freed' = freed \cup ({psendMem[c]} \ {NoMsg})
                  /\ psendMem' = [psendMem EXCEPT ![c] = NoMsg]
                  /\ main' = "count" /\ handled' = c
             ELSE UNCHANGED <<epollout, freed, psendMem, mainVars>>
    /\ UNCHANGED <<process, list, sem, senderVars, life, seq, calm, iSendCount,
                   iThrowsendCount, messages>>

\* ... or the reset arrived after epoll_wait returned: the message is freed and
\* EPOLLOUT stays.
HandlerFails(c) ==
    /\ main = "epoll" /\ life[c] = "open" /\ epollout[c] /\ peer[c] = "reset"
    /\ peer' = [peer EXCEPT ![c] = "gone"]
    /\ freed' = freed \cup ({psendMem[c]} \ {NoMsg})
    /\ psendMem' = [psendMem EXCEPT ![c] = NoMsg]
    /\ main' = "count" /\ handled' = c
    /\ UNCHANGED <<process, list, sem, senderVars, life, seq, calm, iSendCount,
                   iThrowsendCount, isendlen, epollout, messages, wire>>

\* ... and iThrowsendCount goes down.
HandlerCounts ==
    /\ main = "count"
    /\ iThrowsendCount' = [iThrowsendCount EXCEPT ![handled] = @ - 1]
    /\ main' = "epoll" /\ handled' = NoConn
    /\ UNCHANGED <<process, list, sem, senderVars, connVars, iSendCount, psendMem,
                   isendlen, epollout, messages, freed, wire>>

\* EPOLLIN with EPOLLRDHUP or EPOLLHUP.  The read handler closes the socket when it
\* sees the end of the stream or the error, not while data is left to read; and with
\* EPOLLOUT in the same event iThrowsendCount goes down, closed or not.
Hangup(c, closes, out) ==
    /\ main = "epoll" /\ life[c] = "open" /\ peer[c] # "up"
    /\ Broken(c) => closes
    /\ out => epollout[c]
    /\ iThrowsendCount[c] > -1      \* a bound of the model
    /\ closes \/ out
    /\ LET n == IF closes THEN CloseCount(c) ELSE iThrowsendCount[c]
       IN iThrowsendCount' = [iThrowsendCount EXCEPT ![c] = IF out THEN n - 1 ELSE n]
    /\ life' = [life EXCEPT ![c] = IF closes THEN "closed" ELSE "open"]
    /\ epollout' = [epollout EXCEPT ![c] = @ /\ ~closes]
    /\ peer' = [peer EXCEPT ![c] = Collected(c)]
    /\ UNCHANGED <<process, list, sem, senderVars, mainVars, seq, calm, iSendCount,
                   psendMem, isendlen, messages, freed, wire>>

\* A send to a connection that was reset may raise SIGPIPE, which nobody ignores.
BrokenPipe ==
    /\ \/ sender = "send" /\ life[p_Conn] = "open" /\ Broken(p_Conn)
       \/ main = "epoll" /\ \E c \in Conns :
             life[c] = "open" /\ epollout[c] /\ peer[c] = "reset"
    /\ process' = "killed"
    /\ UNCHANGED <<list, sem, senderVars, mainVars, connVars, iSendCount, sending,
                   messages, freed, wire>>

-----------------------------------------------------------------------------
sendMsg(c) == SendMsgDrops(c) \/ SendMsgCutsOff(c) \/ SendMsgQueues(c)

ServerSendQueueThread ==
    \/ SenderWakes
    \/ \E m \in Ids : DropStale(m) \/ SkipBusy(m) \/ Take(m)
    \/ SenderSends \/ SenderSendFails
    \/ SettleDone \/ SettleLater \/ SenderRegisters
    \/ SenderUnlocks

Next ==
    /\ process = "up"
    /\ \/ \E c \in Conns :
             \/ Open(c) \/ GiveUp(c) \/ Free(c)
             \/ \E how \in {"fin", "reset"} : PeerLeaves(c, how)
             \/ sendMsg(c)
             \/ HandlerSends(c) \/ HandlerFails(c)
             \/ \E closes, out \in BOOLEAN : Hangup(c, closes, out)
       \/ ServerSendQueueThread \/ SenderInterrupted
       \/ HandlerCounts
       \/ BrokenPipe

\* Both threads run, and a client that has not hung up reads, so that EPOLLOUT comes
\* for its socket again and again.
Spec ==
    /\ Init /\ [][Next]_vars
    /\ WF_vars(process = "up" /\ ServerSendQueueThread)
    /\ WF_vars(process = "up" /\ HandlerCounts)
    /\ \A c \in Conns : SF_vars(process = "up" /\ peer[c] = "up" /\ HandlerSends(c))

-----------------------------------------------------------------------------
(* Properties.                                                             *)

Calm(c) == life[c] = "open" /\ calm[c]
Settled(c) == c \notin {p_Conn, handled}

\* For a client that is connected and reads, iThrowsendCount says whether the event
\* loop has the rest of a message to write, with EPOLLOUT registered for it; the two
\* threads never write to it at once, and the count is never anything but 0 or 1.
OneWriter ==
    \A c \in Conns : Calm(c) =>
        /\ iThrowsendCount[c] \in {0, 1}
        /\ c = handled => c # p_Conn
        /\ Settled(c) =>
              /\ iThrowsendCount[c] = 1 <=> psendMem[c] # NoMsg
              /\ iThrowsendCount[c] = 1 <=> epollout[c]

Follows(a, b) == IF a[2] < MsgLen THEN b = <<a[1], a[2] + 1>>
                                  ELSE b[1] # a[1] /\ b[2] = 1

\* What such a client receives are whole messages, each finished before the next
\* begins, though two threads write them in pieces; only the last may be unfinished,
\* and then its rest is what psendMemPointer holds.  No message arrives twice.
WireOfWholeMessages ==
    \A c \in Conns : Calm(c) =>
        LET w == wire[c] IN
        /\ \A i \in 1..(Len(w) - 1) : Follows(w[i], w[i + 1])
        /\ w # <<>> =>
              /\ w[1][2] = 1
              /\ w[Len(w)][2] < MsgLen =>
                    /\ psendMem[c] = w[Len(w)][1]
                    /\ isendlen[c] = MsgLen - w[Len(w)][2]
        /\ \A i, j \in 1..Len(w) : w[i] = w[j] => i = j

\* The last piece of m has reached the socket.
Written(m) ==
    \E i \in 1..Len(wire[conn[m]]) : wire[conn[m]][i] = <<m, MsgLen>>

\* No message for such a client is lost.  It is freed only when sendMsg refused it, or
\* when it is written to its last piece; until then it waits in the list, once, or is
\* what psendMemPointer of the connection holds.
NoneLost ==
    /\ Cardinality(ToSet(queue)) = Len(queue)
    /\ \A m \in 1..Len(conn) :
          (Calm(conn[m]) /\ stamp[m] = seq[conn[m]]) =>
              IF m \in freed THEN m \in refused \/ Written(m)
              ELSE m \in ToSet(queue) \/ psendMem[conn[m]] = m

\* The counters follow the list, and the limits hold, one above at most: all messages
\* in the list, and for the client that has the object those that carry its number,
\* whatever earlier users of the object left behind.
QueueCounted ==
    /\ count = Len(queue) /\ count <= QMax + 1
    /\ \A c \in Conns : life[c] \in {"open", "closed"} =>
          /\ iSendCount[c] = Cardinality({m \in ToSet(queue) :
                                            conn[m] = c /\ stamp[m] = seq[c]})
          /\ iSendCount[c] <= CMax + 1

\* The list, its counters and the fields of the objects fit together.
QueueConsistent == TypeOK /\ QueueCounted

\* The send thread gets to every message in the list: takes it out, or passes over it
\* because its connection is busy (nothing wakes the thread when it no longer is).
AllLookedAt ==
    ~(ToSet(queue) \subseteq skipped) ~>
        (ToSet(queue) \subseteq skipped \/ process = "killed")

\* The rest of a message is written in the end, as long as the client only reads.
RestIsWritten ==
    \A c \in Conns : (Calm(c) /\ psendMem[c] # NoMsg) ~>
        (~Calm(c) \/ psendMem[c] = NoMsg \/ process = "killed")
=============================================================================
