----------------------------- MODULE LogicSocket -----------------------------
(***************************************************************************)
(* CLogicSocket::threadRecvProcFunc (zhy_slogic.cpp): the checks a packet   *)
(* passes on a business thread before one of the handlers is called, while  *)
(* its connection may be given up at any moment.                            *)
(*                                                                         *)
(* The packets are those of the format of zhy_comm.h, complete, the body    *)
(* possibly changed on the way.  In this commit the call of the function is *)
(* commented out (zhy_threadpool.cpp:116), and the receive path hands on    *)
(* packets without a body only (PkgRecv); what follows is what the function *)
(* does with the packets it is written for.  Byte order is left out.        *)
(***************************************************************************)
EXTENDS Crc32

CONSTANTS
    Bodies,     \* what clients send behind the header
    Codes,      \* the values of msgCode they send
    Errors,     \* how a byte may be changed: the bits turned over
    MaxSeq,     \* bound on iCurrsequence
    NULL

ASSUME LogicAssumption ==
    /\ \A body \in Bodies : body \in Seq(Byte)
    /\ Codes \subseteq Nat /\ MaxSeq \in Nat
    /\ \A e \in Errors : e \in Byte \ {{}}
    /\ NULL \notin {"_HandlePing", "_HandleRegister", "_HandleLogIn"}

m_iLenPkgHeader == 8        \* sizeof(COMM_PKG_HEADER)
m_iLenMsgHeader == 16       \* sizeof(STRUC_MSG_HEADER)

\* statusHandler, whose entries 1 to 4 are NULL.
statusHandler ==
    [imsgCode \in 0..6 |-> CASE imsgCode = 0 -> "_HandlePing"
                             [] imsgCode = 5 -> "_HandleRegister"
                             [] imsgCode = 6 -> "_HandleLogIn"
                             [] OTHER        -> NULL]

VARIABLES
    iCurrsequence,  \* of the connection the packet came from
    at,             \* the last check the packet has passed ("posted", "verified",
                    \* "current"), or how it ended ("handled", "dropped")
    sent,           \* the body as the client sent it
    pkg,            \* the packet received: crc32, msgCode, body, and the message's isCurrsequence
    pPkgBody,       \* the body as the function hands it on
    stale           \* history: the connection was given up before the numbers were compared

vars == <<iCurrsequence, at, sent, pkg, pPkgBody, stale>>

pkgLen == m_iLenPkgHeader + Len(pkg.body)

-----------------------------------------------------------------------------
\* The body is received as it was sent, or with one byte changed.
Received(body) ==
    {body} \cup {[body EXCEPT ![i] = SymDiff(@, e)] : i \in DOMAIN body, e \in Errors}

\* A client declares the sum of what it sends, or zero.
Packet(body, seq) ==
    [crc32 : {Get_CRC(body), {}}, msgCode : Codes, body : Received(body),
     isCurrsequence : {seq}]

Init ==
    /\ iCurrsequence = 1
    /\ at = "posted"
    /\ sent \in Bodies
    /\ pkg \in Packet(sent, 1)
    /\ pPkgBody = NULL
    /\ stale = FALSE

\* inRecyConnectQueue: the connection is given up, its number raised.
GiveUp ==
    /\ iCurrsequence < MaxSeq
    /\ iCurrsequence' = iCurrsequence + 1
    /\ stale' = (stale \/ at \in {"posted", "verified"})
    /\ UNCHANGED <<at, sent, pkg, pPkgBody>>

\* A mutant of Verify: the sum is not compared.
VerifyNot ==
    /\ at = "posted"
    /\ at' = "verified"
    /\ pPkgBody' = IF pkgLen = m_iLenMsgHeader THEN NULL ELSE pkg.body
    /\ UNCHANGED <<iCurrsequence, sent, pkg, stale>>

\* A mutant of Verify: the length of the wrong header is passed over and taken off.
VerifyShort ==
    /\ at = "posted"
    /\ at' = IF pkg.crc32 = Get_CRC(SubSeq(pkg.body, 1, pkgLen - m_iLenMsgHeader))
             THEN "verified" ELSE "dropped"
    /\ pPkgBody' = SubSeq(pkg.body, m_iLenMsgHeader - m_iLenPkgHeader + 1, Len(pkg.body))
    /\ UNCHANGED <<iCurrsequence, sent, pkg, stale>>

\* Lines 76 to 93.  The length is compared with that of the message header, not of
\* the packet header: it is a body of 8 bytes that is neither summed nor handed on.
Verify ==
    /\ at = "posted"
    /\ IF pkgLen = m_iLenMsgHeader
       THEN /\ at' = IF pkg.crc32 = {} THEN "verified" ELSE "dropped"
            /\ pPkgBody' = NULL
       ELSE /\ at' = IF pkg.crc32 = Get_CRC(pkg.body) THEN "verified" ELSE "dropped"
            /\ pPkgBody' = pkg.body
    /\ UNCHANGED <<iCurrsequence, sent, pkg, stale>>

\* A mutant of CheckSequence: a number that has grown since is taken too.
CheckSequenceLoose ==
    /\ at = "verified"
    /\ at' = IF iCurrsequence >= pkg.isCurrsequence THEN "current" ELSE "dropped"
    /\ UNCHANGED <<iCurrsequence, sent, pkg, pPkgBody, stale>>

\* The number of the message against that of the connection.
CheckSequence ==
    /\ at = "verified"
    /\ at' = IF iCurrsequence = pkg.isCurrsequence THEN "current" ELSE "dropped"
    /\ UNCHANGED <<iCurrsequence, sent, pkg, pPkgBody, stale>>

\* The two tests of msgCode, and the call of the handler.
Dispatch ==
    /\ at = "current"
    /\ at' = IF pkg.msgCode \in DOMAIN statusHandler
                /\ statusHandler[pkg.msgCode] # NULL THEN "handled" ELSE "dropped"
    /\ UNCHANGED <<iCurrsequence, sent, pkg, pPkgBody, stale>>

threadRecvProcFunc == Verify \/ CheckSequence \/ Dispatch

Next == threadRecvProcFunc \/ GiveUp

Spec == Init /\ [][Next]_vars

-----------------------------------------------------------------------------
(* Properties.                                                             *)

\* The table-driven sum is the remainder CRC-32 is defined by, for the bodies as sent
\* and as received.
CrcIsRemainder == \A body \in {sent, pkg.body} : Get_CRC(body) = RemainderSum(body)

\* A body that was changed on the way reaches no handler when its client declared its
\* sum: what is handed on, if anything is, is what was sent.
OnlyIntactHandled ==
    (at = "handled" /\ pkg.crc32 = Get_CRC(sent) /\ pPkgBody # NULL) => pPkgBody = sent

\* A packet as its client meant it: the body unchanged, its right sum declared, and a code
\* that has a handler.
Sound == pkg.body = sent /\ pkg.crc32 = Get_CRC(sent) /\ pkg.msgCode \in {0, 5, 6}

\* No packet reaches a handler whose connection was given up, its object perhaps in use
\* for another client, before the numbers were compared; and no other sound packet is
\* dropped, however long its body is, with one exception: a body of exactly 8 bytes, taken
\* for a header without a body, is dropped when its sum is not zero.
SoundHandledUnlessStale ==
    /\ at = "handled" => ~stale
    /\ (Sound /\ at = "dropped") => stale \/ (Len(sent) = 8 /\ Get_CRC(sent) # {})
=============================================================================
