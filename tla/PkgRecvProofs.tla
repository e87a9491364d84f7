--------------------------- MODULE PkgRecvProofs ---------------------------
(***************************************************************************)
(* What holds of PkgRecv for every size of the headers and the buffer,     *)
(* every set of lengths a client can spell, and every number of uses of    *)
(* the connection object.                                                  *)
(***************************************************************************)
EXTENDS PkgRecv, TLAPS

\* The window while bytes go to dataHeadInfo: it ends after a packet header or, on a
\* re-read, after a message header; and it is empty only at the end of a re-read.
HeadWindow ==
    /\ area = "head" /\ precvMem = NoMsg
    /\ offset + irecvlen \in {LenPkgHeader, LenMsgHeader}
    /\ curStat = "HD_INIT" => offset = 0
    /\ irecvlen = 0 => curStat = "HD_RECVING" /\ offset = LenMsgHeader

\* The window while a body is awaited: the message after its two headers.
BodyWindow ==
    /\ area = "msg" /\ precvMem # NoMsg
    /\ precvMem.len >= LenMsgHeader
    /\ offset = LenMsgHeader + LenPkgHeader
    /\ irecvlen = precvMem.len - LenPkgHeader

Window ==
    IF sock = "free" THEN precvMem = NoMsg
    ELSE IF curStat = "BD_INIT" THEN BodyWindow ELSE HeadWindow

IInv == TypeOK /\ Window /\ NoBufferLost /\ StampIsCurrent

-----------------------------------------------------------------------------
\* The window of a fresh connection is the whole of dataHeadInfo.
LEMMA InitIInv == Init => IInv
<1> SUFFICES ASSUME Init PROVE IInv
    OBVIOUS
<1>1. TypeOK
    BY RecvAssumption DEF Init, TypeOK
<1>2. Window
    BY DEF Init, Window
<1>3. NoBufferLost /\ StampIsCurrent
    BY DEF Init, NoBufferLost, StampIsCurrent
<1> QED
    BY <1>1, <1>2, <1>3 DEF IInv

\* The steps of the object's life outside the read handler.
LEMMA LifeStep ==
    ASSUME IInv,
           \/ Open
           \/ \E how \in {"fin", "error"} : PeerStops(how)
           \/ CloseElsewhere
           \/ inRecyConnectQueue
           \/ zhy_free_connection
    PROVE  IInv'
<1> USE RecvAssumption DEF IInv, TypeOK
<1>1. CASE Open
    BY <1>1 DEF Open, Window, HeadWindow, BodyWindow, NoBufferLost, StampIsCurrent
<1>2. CASE \E how \in {"fin", "error"} : PeerStops(how)
    BY <1>2 DEF PeerStops, Window, HeadWindow, BodyWindow, NoBufferLost, StampIsCurrent
<1>3. CASE CloseElsewhere
    BY <1>3 DEF CloseElsewhere, Window, HeadWindow, BodyWindow, NoBufferLost,
                StampIsCurrent
<1>4. CASE inRecyConnectQueue
  <2>1. TypeOK' /\ Window' /\ NoBufferLost'
    BY <1>4 DEF inRecyConnectQueue, Window, HeadWindow, BodyWindow, NoBufferLost
  <2>2. StampIsCurrent'
    BY <1>4 DEF inRecyConnectQueue, StampIsCurrent, Messages
  <2> QED
    BY <2>1, <2>2
<1>5. CASE zhy_free_connection
    BY <1>5 DEF zhy_free_connection, putOneToFree, Window, NoBufferLost, StampIsCurrent
<1> QED
    BY <1>1, <1>2, <1>3, <1>4, <1>5

\* A header that is complete: whatever it spells the window is a legal one again.
LEMMA HeaderStep ==
    ASSUME IInv, NEW n \in 1..irecvlen, HeaderAtOnce(n)
    PROVE  IInv'
<1> USE RecvAssumption DEF IInv, TypeOK, HeaderAtOnce, Readable, socket
<1>0. PICK len \in Lens : proc_head(len)
    BY DEF HeaderAtOnce
<1>1. precvMem = NoMsg /\ outstanding = 0 /\ len \in Nat /\ sock = "open"
    BY DEF Window, HeadWindow, NoBufferLost
<1>2. CASE precvMem' = precvMem /\ outstanding' = outstanding
  <2>1. /\ ExpectHeader(LenMsgHeader) \/ ExpectHeader(LenPkgHeader)
        /\ UNCHANGED <<iCurrsequence, arrived, posted>>
    BY <1>0, <1>1, <1>2 DEF proc_head
  <2>2. TypeOK'
    BY <1>2, <2>1 DEF ExpectHeader
  <2>3. Window'
    BY <1>1, <1>2, <2>1 DEF ExpectHeader, Window, HeadWindow
  <2> QED
    BY <1>1, <1>2, <2>2, <2>3 DEF NoBufferLost, StampIsCurrent
<1>3. CASE ~(precvMem' = precvMem /\ outstanding' = outstanding)
  <2>1. /\ len \in LenMsgHeader..MaxLegal
        /\ precvMem' = [len |-> len, seq |-> iCurrsequence]
        /\ arrived' = 0 /\ outstanding' = outstanding + 1
        /\ curStat' = "BD_INIT"
        /\ area' = "msg" /\ offset' = LenMsgHeader + LenPkgHeader
        /\ irecvlen' = len - LenPkgHeader
        /\ UNCHANGED <<iCurrsequence, posted>>
    BY <1>0, <1>3 DEF proc_head
  <2>2. precvMem' \in Messages /\ precvMem' # NoMsg
    BY <1>1, <2>1 DEF Messages
  <2>3. TypeOK'
    BY <2>1, <2>2
  <2>4. Window'
    BY <1>1, <2>1, <2>2 DEF Window, BodyWindow
  <2> QED
    BY <1>1, <2>1, <2>2, <2>3, <2>4 DEF NoBufferLost, StampIsCurrent
<1> QED
    BY <1>2, <1>3

\* The other outcomes of a read that returned n bytes.
LEMMA BytesStep ==
    ASSUME IInv, NEW n \in 1..irecvlen,
           HeaderBegins(n) \/ BodyBytes(n) \/ Continues(n) \/ Completes(n)
    PROVE  IInv'
<1> USE RecvAssumption DEF IInv, TypeOK, Readable, socket
<1>1. CASE HeaderBegins(n)
    BY <1>1 DEF HeaderBegins, Advance, Window, HeadWindow, NoBufferLost, StampIsCurrent
<1>2. CASE BodyBytes(n)
    BY <1>2 DEF BodyBytes, Window, BodyWindow, NoBufferLost, StampIsCurrent
<1>3. CASE Continues(n)
    BY <1>3 DEF Continues, Advance, Window, HeadWindow, NoBufferLost, StampIsCurrent
<1>4. CASE Completes(n)
    BY <1>4 DEF Completes, proc_total, ExpectHeader, Window, HeadWindow, NoBufferLost,
                StampIsCurrent
<1> QED
    BY <1>1, <1>2, <1>3, <1>4

\* The reads that end the use of the socket.
LEMMA CloseStep ==
    ASSUME IInv, RecvFails \/ EmptyRead
    PROVE  IInv'
    BY DEF IInv, TypeOK, RecvFails, EmptyRead, Window, HeadWindow, BodyWindow,
           NoBufferLost, StampIsCurrent

\* A step that changes nothing keeps the invariant.
LEMMA StutterStep == ASSUME IInv, UNCHANGED vars PROVE IInv'
    BY DEF IInv, TypeOK, vars, Window, HeadWindow, BodyWindow, NoBufferLost,
           StampIsCurrent

THEOREM Inductive == Spec => []IInv
<1>1. ASSUME IInv, [Next]_vars PROVE IInv'
  <2>1. CASE zhy_read_request_handler
    BY <1>1, <2>1, HeaderStep, BytesStep, CloseStep DEF zhy_read_request_handler
  <2>2. CASE UNCHANGED vars
    BY <1>1, <2>2, StutterStep
  <2> QED
    BY <1>1, <2>1, <2>2, LifeStep DEF Next
<1> QED
    BY <1>1, InitIInv, PTL DEF Spec

-----------------------------------------------------------------------------
\* The receive state machine of a connection keeps its fields well formed.
THEOREM Typing == Spec => []TypeOK
<1>1. IInv => TypeOK
    BY DEF IInv
<1> QED
    BY <1>1, Inductive, PTL

\* recv never writes outside the memory that belongs to the connection: dataHeadInfo
\* is large enough for a re-read of LenMsgHeader bytes, and a message for its body.
THEOREM InBounds == Spec => []WriteInBounds
<1>1. IInv => WriteInBounds
    BY RecvAssumption DEF IInv, TypeOK, Messages, Window, HeadWindow, BodyWindow,
       WriteInBounds, AreaSize
<1> QED
    BY <1>1, Inductive, PTL

\* A buffer is held exactly while a body is awaited, and the window is that body.
THEOREM BufferHeld == Spec => []BufferWhileBody
<1>1. IInv => BufferWhileBody
    BY RecvAssumption DEF IInv, TypeOK, Messages, Window, HeadWindow, BodyWindow,
       BufferWhileBody
<1> QED
    BY <1>1, Inductive, PTL

\* No buffer is lost between clients, and a half-received message bears the number of
\* the client it came from.
THEOREM BuffersAccounted == Spec => [](NoBufferLost /\ StampIsCurrent)
<1>1. IInv => NoBufferLost /\ StampIsCurrent
    BY DEF IInv
<1> QED
    BY <1>1, Inductive, PTL

\* A recv of 0 bytes is only ever asked for at the end of a full re-read.
THEOREM ZeroRead == Spec => []ZeroReadOnlyAfterShort
<1>1. IInv => ZeroReadOnlyAfterShort
    BY RecvAssumption DEF IInv, TypeOK, Messages, Window, HeadWindow, BodyWindow,
       ZeroReadOnlyAfterShort
<1> QED
    BY <1>1, Inductive, PTL
=============================================================================
