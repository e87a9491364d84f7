------------------------------ MODULE PkgRecv ------------------------------
(***************************************************************************)
(* The receiving side of one connection object of the pool                 *)
(* (net/zhy_socket.request.cpp): what the event-loop thread does with the  *)
(* bytes of the client, from a fresh connection to the message list of the *)
(* thread pool, over several uses of the object.                           *)
(*                                                                         *)
(* The client may send any bytes: the value of pkgLen in a header that has *)
(* just been read is any member of Lens.  A read event is one step, because*)
(* only the event-loop thread touches the receiving fields while the socket*)
(* is open.  Where the bytes go is kept as a window of memory: the area    *)
(* precvbuf points into, the offset in it, and irecvlen.                   *)
(***************************************************************************)
EXTENDS Integers, FiniteSets

CONSTANTS
    LenPkgHeader,   \* sizeof(COMM_PKG_HEADER)
    LenMsgHeader,   \* sizeof(STRUC_MSG_HEADER)
    DataBufSize,    \* _DATA_BUFSIZE_, the size of dataHeadInfo
    MaxLegal,       \* _PKG_MAX_LENGTH - 1000
    Lens,           \* the values of pkgLen the client's bytes can spell
    NoMsg,          \* the null precvMemPointer
    MaxSeq          \* bound on iCurrsequence

ASSUME RecvAssumption ==
    /\ LenPkgHeader \in Nat \ {0}
    /\ LenMsgHeader \in Nat /\ LenPkgHeader < LenMsgHeader
    /\ DataBufSize \in Nat /\ LenMsgHeader <= DataBufSize
    /\ MaxLegal \in Nat
    /\ Lens \subseteq Nat
    /\ NoMsg \notin [len : Nat, seq : Nat]
    /\ MaxSeq \in Nat

VARIABLES
    sock,           \* the object: "free" in the pool, "open", "closed" (fd = -1),
                    \* "recy" in the recycle list
    stream,         \* the next thing in the socket: "data", "fin", "error"
    iCurrsequence,
    curStat,
    area,           \* what precvbuf points into: "head" (dataHeadInfo) or "msg"
    offset,         \* ... and how far from its start
    irecvlen,
    precvMem,       \* the buffer at precvMemPointer: its pkgLen and its stamp
    arrived,        \* history: how much of the body of precvMem has been received
    posted,         \* history: what was handed to inMsgRecvQueueAndSignal
    outstanding     \* history: buffers allocated here and neither posted nor freed

vars == <<sock, stream, iCurrsequence, curStat, area, offset, irecvlen, precvMem,
          arrived, posted, outstanding>>
socket == <<sock, stream>>

Messages == [len : Nat, seq : Nat]

TypeOK ==
    /\ sock \in {"free", "open", "closed", "recy"}
    /\ stream \in {"data", "fin", "error"}
    /\ iCurrsequence \in Nat
    /\ curStat \in {"HD_INIT", "HD_RECVING", "BD_INIT", "BD_RECVING"}
    /\ area \in {"head", "msg"}
    /\ offset \in Nat
    /\ irecvlen \in Nat
    /\ precvMem \in Messages \cup {NoMsg}
    /\ arrived \in Nat
    /\ posted \subseteq Messages \cup {NoMsg}
    /\ outstanding \in Int

\* initConnection: constructed, then getOneToUse once before it enters the pool.
Init ==
    /\ sock = "free"
    /\ stream = "data"
    /\ iCurrsequence = 1
    /\ curStat = "HD_INIT"
    /\ area = "head" /\ offset = 0 /\ irecvlen = LenPkgHeader
    /\ precvMem = NoMsg
    /\ arrived = 0
    /\ posted = {}
    /\ outstanding = 0

-----------------------------------------------------------------------------
(* The life of the connection object.                                      *)

\* zhy_get_connection hands the object to a new client: getOneToUse.
Open ==
    /\ sock = "free"
    /\ iCurrsequence < MaxSeq
    /\ sock' = "open"
    /\ stream' = "data"
    /\ iCurrsequence' = iCurrsequence + 1
    /\ curStat' = "HD_INIT"
    /\ area' = "head" /\ offset' = 0 /\ irecvlen' = LenPkgHeader
    /\ precvMem' = NoMsg
    /\ arrived' = 0
    /\ UNCHANGED <<posted, outstanding>>

\* The client closes or resets, or the network does.
PeerStops(how) ==
    /\ sock = "open" /\ stream = "data"
    /\ stream' = how
    /\ UNCHANGED <<sock, iCurrsequence, curStat, area, offset, irecvlen,
                   precvMem, arrived, posted, outstanding>>

\* ClosesocketProc called for another reason than a read: sendMsg on a client
\* with too many queued messages.
CloseElsewhere ==
    /\ sock = "open"
    /\ sock' = "closed"
    /\ UNCHANGED <<stream, iCurrsequence, curStat, area, offset,
                   irecvlen, precvMem, arrived, posted, outstanding>>

\* A mutant of inRecyConnectQueue: the object keeps the number of its last client.
inRecyConnectQueueKeeps ==
    /\ sock = "closed"
    /\ sock' = "recy"
    /\ UNCHANGED <<stream, iCurrsequence, curStat, area, offset, irecvlen, precvMem,
                   arrived, posted, outstanding>>

\* inRecyConnectQueue, called by the business logic for a closed connection.
inRecyConnectQueue ==
    /\ sock = "closed"
    /\ sock' = "recy"
    /\ iCurrsequence' = iCurrsequence + 1
    /\ UNCHANGED <<stream, curStat, area, offset, irecvlen, precvMem,
                   arrived, posted, outstanding>>

\* A mutant of putOneToFree: the half-received message is not freed.
putOneToFreeLeaks ==
    /\ iCurrsequence' = iCurrsequence + 1
    /\ precvMem' = NoMsg
    /\ UNCHANGED outstanding

putOneToFree ==
    /\ iCurrsequence' = iCurrsequence + 1
    /\ precvMem' = NoMsg
    /\ outstanding' = IF precvMem = NoMsg THEN outstanding ELSE outstanding - 1

\* The recycle thread gives the object back to the pool: zhy_free_connection.
zhy_free_connection ==
    /\ sock = "recy"
    /\ sock' = "free"
    /\ putOneToFree
    /\ UNCHANGED <<stream, curStat, area, offset, irecvlen, arrived,
                   posted>>

-----------------------------------------------------------------------------
(* zhy_read_request_handler.                                               *)

\* The window goes back to the start of dataHeadInfo, to read size bytes.
ExpectHeader(size) ==
    /\ curStat' = "HD_INIT"
    /\ area' = "head" /\ offset' = 0 /\ irecvlen' = size

\* zhy_wait_request_handler_proc_total; isflood is false wherever it is called.
proc_total ==
    /\ posted' = posted \cup {precvMem}
    /\ outstanding' = IF precvMem = NoMsg THEN outstanding ELSE outstanding - 1
    /\ precvMem' = NoMsg
    /\ ExpectHeader(LenPkgHeader)
    /\ UNCHANGED <<iCurrsequence, arrived>>

\* A mutant of proc_head: the lower bound on pkgLen is forgotten.
proc_headNoLower(len) ==
    /\ \/ /\ len > MaxLegal
          /\ ExpectHeader(LenPkgHeader)
          /\ UNCHANGED <<precvMem, arrived, outstanding>>
       \/ /\ len <= MaxLegal
          /\ precvMem' = [len |-> len, seq |-> iCurrsequence]
          /\ arrived' = 0
          /\ outstanding' = outstanding + 1
          /\ curStat' = "BD_INIT"
          /\ area' = "msg" /\ offset' = LenMsgHeader + LenPkgHeader
          /\ irecvlen' = len - LenPkgHeader
    /\ UNCHANGED <<iCurrsequence, posted>>

\* zhy_wait_request_handler_proc_head on a header that spells len.  The case of a
\* packet without a body comes after the test that rejects it: with a message
\* header longer than a packet header no len reaches it.
proc_head(len) ==
    \/ /\ len < LenMsgHeader
       /\ ExpectHeader(LenMsgHeader)
       /\ UNCHANGED <<iCurrsequence, precvMem, arrived, posted, outstanding>>
    \/ /\ len >= LenMsgHeader /\ len > MaxLegal
       /\ ExpectHeader(LenPkgHeader)
       /\ UNCHANGED <<iCurrsequence, precvMem, arrived, posted, outstanding>>
    \/ /\ len \in LenMsgHeader..MaxLegal
       /\ precvMem' = [len |-> len, seq |-> iCurrsequence]
       /\ arrived' = 0
       /\ outstanding' = outstanding + 1
       /\ curStat' = "BD_INIT"
       /\ area' = "msg" /\ offset' = LenMsgHeader + LenPkgHeader
       /\ irecvlen' = len - LenPkgHeader
       /\ UNCHANGED <<iCurrsequence, posted>>

\* The window after n of its bytes were received.
Advance(n) ==
    /\ offset' = offset + n
    /\ irecvlen' = irecvlen - n
    /\ UNCHANGED <<iCurrsequence, area, precvMem, arrived, posted, outstanding>>

\* recv returned n > 0 bytes.
Readable(n) == sock = "open" /\ stream = "data" /\ n \in 1..irecvlen

HeaderAtOnce(n) ==
    /\ Readable(n) /\ curStat = "HD_INIT" /\ n = LenPkgHeader
    /\ \E len \in Lens : proc_head(len)
    /\ UNCHANGED socket

HeaderBegins(n) ==
    /\ Readable(n) /\ curStat = "HD_INIT" /\ n # LenPkgHeader
    /\ curStat' = "HD_RECVING"
    /\ Advance(n)
    /\ UNCHANGED socket

\* In state _PKG_BD_INIT the handler has no branch: the bytes received are
\* overwritten by the next ones, and the state never changes.
BodyBytes(n) ==
    /\ Readable(n) /\ curStat = "BD_INIT"
    /\ arrived' = IF arrived + n < irecvlen THEN arrived + n ELSE irecvlen
    /\ UNCHANGED <<iCurrsequence, curStat, area, offset, irecvlen, precvMem, posted,
                   outstanding, socket>>

\* A mutant of Continues: the window moves on by one byte too many.
ContinuesPast(n) ==
    /\ Readable(n) /\ curStat \in {"HD_RECVING", "BD_RECVING"} /\ n # irecvlen
    /\ curStat' = "BD_RECVING"
    /\ offset' = offset + n + 1
    /\ irecvlen' = irecvlen - n
    /\ UNCHANGED <<iCurrsequence, area, precvMem, arrived, posted, outstanding,
                   socket>>

\* Part of what was missing: the state becomes _PKG_BD_RECVING for a header too.
Continues(n) ==
    /\ Readable(n) /\ curStat \in {"HD_RECVING", "BD_RECVING"} /\ n # irecvlen
    /\ curStat' = "BD_RECVING"
    /\ Advance(n)
    /\ UNCHANGED socket

\* A mutant of Completes: the end of the header is one more piece of it.
CompletesNever(n) ==
    /\ Readable(n) /\ curStat \in {"HD_RECVING", "BD_RECVING"} /\ n = irecvlen
    /\ curStat' = "BD_RECVING"
    /\ Advance(n)
    /\ UNCHANGED socket

\* The rest of what was missing.  After a split header too this goes straight to
\* proc_total: the header is not looked at.
Completes(n) ==
    /\ Readable(n) /\ curStat \in {"HD_RECVING", "BD_RECVING"} /\ n = irecvlen
    /\ proc_total
    /\ UNCHANGED socket

\* recvproc sees the end of the stream (n = 0) or an error: ClosesocketProc.
RecvFails ==
    /\ sock = "open" /\ stream \in {"fin", "error"}
    /\ sock' = "closed"
    /\ UNCHANGED <<stream, iCurrsequence, curStat, area, offset, irecvlen,
                   precvMem, arrived, posted, outstanding>>

\* recv with a length of 0 returns 0 as well, whatever the client did.
EmptyRead ==
    /\ sock = "open" /\ stream = "data" /\ irecvlen = 0
    /\ sock' = "closed"
    /\ UNCHANGED <<stream, iCurrsequence, curStat, area, offset, irecvlen,
                   precvMem, arrived, posted, outstanding>>

\* EAGAIN and EINTR leave everything as it was: they are stuttering steps.
zhy_read_request_handler ==
    \/ \E n \in 1..irecvlen :
          \/ HeaderAtOnce(n) \/ HeaderBegins(n) \/ BodyBytes(n)
          \/ Continues(n) \/ Completes(n)
    \/ RecvFails
    \/ EmptyRead

Next ==
    \/ Open
    \/ \E how \in {"fin", "error"} : PeerStops(how)
    \/ CloseElsewhere
    \/ inRecyConnectQueue
    \/ zhy_free_connection
    \/ zhy_read_request_handler

Spec == Init /\ [][Next]_vars

-----------------------------------------------------------------------------
(* Properties.                                                             *)

AreaSize == IF area = "head" THEN DataBufSize
            ELSE IF precvMem = NoMsg THEN 0 ELSE LenMsgHeader + precvMem.len

\* Whatever lengths the client declares and however its bytes are cut up, the next
\* recv writes inside dataHeadInfo, or inside the message allocated for the body.
WriteInBounds == sock = "open" => offset + irecvlen <= AreaSize

\* precvMemPointer holds a buffer exactly while a body is awaited, and the window is
\* then the body: all of it, and none of the headers in front of it.
BufferWhileBody ==
    sock = "open" =>
        /\ precvMem # NoMsg <=> curStat = "BD_INIT"
        /\ precvMem # NoMsg =>
              /\ area = "msg" /\ offset = LenMsgHeader + LenPkgHeader
              /\ irecvlen = precvMem.len - LenPkgHeader /\ irecvlen > 0

\* Every buffer is freed or posted in the end: none is lost when a client leaves in
\* the middle of a packet and the object is recycled for another one.
NoBufferLost == outstanding = IF precvMem = NoMsg THEN 0 ELSE 1

\* The stamp of a half-received message is the sequence number of its own client:
\* it equals iCurrsequence until the recycle list has the object, and never again.
StampIsCurrent ==
    precvMem # NoMsg =>
        IF sock \in {"open", "closed"} THEN precvMem.seq = iCurrsequence
                                      ELSE precvMem.seq < iCurrsequence

\* recv is asked for 0 bytes, and the client then closed as if it had gone, only in
\* the one case of a full re-read of LenMsgHeader bytes, which follows a pkgLen
\* below LenMsgHeader; otherwise a result of 0 does mean that the peer closed.
ZeroReadOnlyAfterShort ==
    (sock = "open" /\ irecvlen = 0) =>
        curStat = "HD_RECVING" /\ area = "head" /\ offset = LenMsgHeader

\* "_PKG_BD_RECVING ... goes straight back to state 0 when it is done"
\* (zhy_comm.h:10): a packet whose body is all there is not waited for any longer.
WholeBodyProcessed ==
    (sock = "open" /\ curStat = "BD_INIT") => arrived < irecvlen
=============================================================================
