-------------------------- MODULE DescriptorsProofs --------------------------
(***************************************************************************)
(* What holds of Descriptors for any clients, any set of numbers and any   *)
(* interleaving of the three threads.                                      *)
(***************************************************************************)
EXTENDS Descriptors, TLAPS

Owns(c) == \E n \in Fds : owner[n] = c
Known(c) == peer[c] \in {"up", "gone"}

\* An object nobody has been accepted for has no number.
FreshClosed == \A c \in Clients : ~Known(c) => fd[c] = Closed

\* Whatever a thread is at work on was accepted, and so was what a message names and
\* what has an EPOLLOUT to be handled.
OnlyKnown ==
    /\ \A c \in served : Known(c)
    /\ \A t \in Threads : ~At(t, "idle") => th[t].conn \in Clients /\ Known(th[t].conn)
    /\ out # Nobody => Known(out)

\* Between its test and its close() a thread holds the number of the client's socket,
\* or that socket is closed already; after close() it certainly is.
CloserHolds == \A t \in Threads :
    /\ At(t, "closing") =>
          th[t].num \in Fds /\ (fd[th[t].conn] = th[t].num \/ ~Owns(th[t].conn))
    /\ At(t, "reset") => ~Owns(th[t].conn)

\* The loop registers the number it has just been given.
LoopRegisters == At("loop", "register") => th["loop"].num \in Fds

IInv == TypeOK /\ FreshClosed /\ OnlyKnown /\ CloserHolds /\ LoopRegisters
        /\ NoDescriptorLost

\* What th[t] may be.
Thread == [at : Places, conn : Clients \cup {Nobody}, num : Fds \cup {Closed},
           race : Races]

-----------------------------------------------------------------------------
\* No descriptor is open at the start.
LEMMA InitIInv == Init => IInv
<1> SUFFICES ASSUME Init PROVE IInv
    OBVIOUS
<1> USE DescriptorAssumption DEF Init, Idle, Threads, Closed
<1>1. TypeOK
    BY DEF TypeOK, Places, Races
<1>2. FreshClosed /\ NoDescriptorLost
    BY DEF FreshClosed, NoDescriptorLost
<1>3. OnlyKnown /\ CloserHolds /\ LoopRegisters
    BY DEF OnlyKnown, CloserHolds, LoopRegisters, At
<1> QED
    BY <1>1, <1>2, <1>3 DEF IInv

\* What the helpers of a thread's steps leave in th.
LEMMA StepsTyped ==
    ASSUME TypeOK, NEW t \in Threads, NEW place \in Places
    PROVE  /\ Go(t, place) => th' \in [Threads -> Thread]
           /\ Load(t, place) /\ th[t].conn \in Clients => th' \in [Threads -> Thread]
           /\ Return(t) => th' \in [Threads -> Thread]
           /\ \A c \in Clients : Loading(t, c, place) \in Thread
<1>1. th \in [Threads -> Thread]
    BY DEF TypeOK, Thread
<1>2. Idle \in Thread
    BY DEF Idle, Places, Races, Thread
<1>3. \A c \in Clients : Loading(t, c, place) \in Thread
    BY DEF TypeOK, Loading, Races, Thread
<1>4. Go(t, place) => th' \in [Threads -> Thread]
    BY <1>1 DEF Go, Thread
<1>5. Load(t, place) /\ th[t].conn \in Clients => th' \in [Threads -> Thread]
    BY <1>1, <1>3 DEF Load
<1>6. Return(t) => th' \in [Threads -> Thread]
    BY <1>1, <1>2 DEF Return
<1> QED
    BY <1>3, <1>4, <1>5, <1>6

\* close(): what it leaves of the other threads is what they were, but for the race.
LEMMA CloseThreads ==
    ASSUME TypeOK, NEW t \in Threads, CloseCall(t)
    PROVE  /\ th' \in [Threads -> Thread]
           /\ th'[t].at = "reset" /\ th'[t].conn = th[t].conn /\ th'[t].num = th[t].num
           /\ \A u \in Threads \ {t} :
                 /\ th'[u].at = th[u].at /\ th'[u].conn = th[u].conn
                 /\ th'[u].num = th[u].num
                 /\ th'[u].race # th[u].race =>
                       th'[u].race = "late" /\ th[u].race = "none"
                       /\ th[u].conn = th[t].conn
                 /\ (th[u].at \in Loaded /\ th[u].conn = th[t].conn) =>
                       th'[u].race # "none"
<1>1. \A u \in Threads : th[u] \in Thread
    BY DEF TypeOK, Thread
<1>2. \A u \in Threads : [th[u] EXCEPT !.at = "reset"] \in Thread
                         /\ [th[u] EXCEPT !.race = "late"] \in Thread
    BY <1>1 DEF Thread, Places, Races
<1>3. th' = [u \in Threads |->
               IF u = t THEN [th[u] EXCEPT !.at = "reset"]
               ELSE IF th[u].at \in Loaded /\ th[u].conn = th[t].conn
                       /\ th[u].race = "none"
                    THEN [th[u] EXCEPT !.race = "late"] ELSE th[u]]
    BY DEF CloseCall
<1>4. th' \in [Threads -> Thread]
    BY <1>1, <1>2, <1>3
<1>5. th'[t].at = "reset" /\ th'[t].conn = th[t].conn /\ th'[t].num = th[t].num
    BY <1>1, <1>3 DEF Thread
<1>6. ASSUME NEW u \in Threads \ {t}
      PROVE  /\ th'[u].at = th[u].at /\ th'[u].conn = th[u].conn
             /\ th'[u].num = th[u].num
             /\ th'[u].race # th[u].race =>
                   th'[u].race = "late" /\ th[u].race = "none" /\ th[u].conn = th[t].conn
             /\ (th[u].at \in Loaded /\ th[u].conn = th[t].conn) => th'[u].race # "none"
    <2>1. CASE th[u].at \in Loaded /\ th[u].conn = th[t].conn /\ th[u].race = "none"
        <3>1. th'[u] = [th[u] EXCEPT !.race = "late"]
            BY <1>3, <2>1
        <3> QED
            BY <1>1, <2>1, <3>1 DEF Thread
    <2>2. CASE ~(th[u].at \in Loaded /\ th[u].conn = th[t].conn /\ th[u].race = "none")
        <3>1. th'[u] = th[u]
            BY <1>3, <2>2
        <3> QED
            BY <2>2, <3>1
    <2> QED
        BY <2>1, <2>2
<1> QED
    BY <1>4, <1>5, <1>6

\* The steps that open, close and forget a descriptor.
LEMMA StepClosers ==
    ASSUME IInv, NEW t \in Threads, ClosesocketProc(t) \/ Register
    PROVE  IInv'
<1> USE DescriptorAssumption DEF Threads, Closed
<1>1. /\ TypeOK /\ FreshClosed /\ OnlyKnown /\ CloserHolds /\ LoopRegisters
      /\ NoDescriptorLost
    BY DEF IInv
<1>2. CASE CloseTest(t)
    <2>1. th[t].conn \in Clients /\ Known(th[t].conn)
        BY <1>1, <1>2 DEF CloseTest, OnlyKnown, At
    <2>2. th' \in [Threads -> Thread] /\ sendMutex' \in Threads \cup {Nobody}
        BY <1>1, <1>2, <2>1, StepsTyped DEF CloseTest, TypeOK, Return, Places, Loaded
    <2>3. TypeOK'
        BY <1>1, <1>2, <2>2 DEF CloseTest, TypeOK, Thread, peers, kernel, harm
    <2>4. /\ UNCHANGED <<peer, owner, fd, served, out>>
          /\ \A u \in Threads \ {t} : th'[u] = th[u]
          /\ \/ th'[t].at = "idle"
             \/ /\ th'[t].at = "closing" /\ th'[t].conn = th[t].conn
                /\ th'[t].num = fd[th[t].conn] /\ fd[th[t].conn] # Closed
        BY <1>1, <1>2 DEF CloseTest, Return, Load, Loading, Idle, TypeOK, peers, kernel
    <2>5. fd[th[t].conn] \in Fds \cup {Closed}
        BY <1>1, <2>1 DEF TypeOK
    <2>6. FreshClosed' /\ NoDescriptorLost'
        BY <1>1, <2>4 DEF FreshClosed, NoDescriptorLost, Known
    <2>7. OnlyKnown' /\ LoopRegisters'
        BY <1>1, <2>1, <2>4 DEF OnlyKnown, LoopRegisters, At, Known
    <2>8. CloserHolds'
        BY <1>1, <2>4, <2>5 DEF CloserHolds, At, Owns
    <2> QED
        BY <2>3, <2>6, <2>7, <2>8 DEF IInv
<1>3. CASE CloseCall(t)
    <2>1. PICK c \in Clients, n \in Fds :
             /\ c = th[t].conn /\ n = th[t].num /\ Known(c) /\ (fd[c] = n \/ ~Owns(c))
        BY <1>1, <1>3 DEF CloseCall, OnlyKnown, CloserHolds, At
    <2>2. /\ UNCHANGED <<peer, fd, served, out, unread, batch, sendMutex, misled>>
          /\ owner' = [owner EXCEPT ![n] = Nobody]
          /\ reg' = [reg EXCEPT ![n] = Nobody] /\ armed' = armed \ {n}
          /\ robbed' = robbed \cup Victims(t)
        BY <1>3, <2>1 DEF CloseCall, peers
    <2>3. Victims(t) \subseteq Clients
        BY <1>1, <2>1 DEF Victims, Target, TypeOK
    <2>4. /\ th' \in [Threads -> Thread]
          /\ th'[t].at = "reset" /\ th'[t].conn = c
          /\ \A u \in Threads \ {t} : th'[u].at = th[u].at /\ th'[u].conn = th[u].conn
                                      /\ th'[u].num = th[u].num
        BY <1>1, <1>3, <2>1, CloseThreads
    <2>5. TypeOK'
        BY <1>1, <2>1, <2>2, <2>3, <2>4 DEF TypeOK, Thread
    <2>6. /\ \A m \in Fds : owner'[m] # Nobody => owner'[m] = owner[m] /\ m # n
          /\ \A d \in Clients : Owns(d)' => Owns(d)
        BY <1>1, <2>1, <2>2 DEF TypeOK, Owns
    <2>7. ~Owns(c)'
        <3> SUFFICES ASSUME NEW m \in Fds, owner'[m] = c PROVE FALSE
            BY DEF Owns
        <3>1. owner[m] = c /\ m # n
            BY <2>1, <2>6
        <3> QED
            BY <1>1, <2>1, <3>1 DEF NoDescriptorLost, Owns
    <2>8. FreshClosed' /\ NoDescriptorLost'
        BY <1>1, <2>2, <2>6 DEF FreshClosed, NoDescriptorLost, Known
    <2>9. OnlyKnown' /\ LoopRegisters'
        BY <1>1, <2>1, <2>2, <2>4 DEF OnlyKnown, LoopRegisters, At, Known
    <2>10. CloserHolds'
        <3> SUFFICES ASSUME NEW u \in Threads
                     PROVE  /\ th'[u].at = "closing" =>
                                  /\ th'[u].num \in Fds
                                  /\ \/ fd[th'[u].conn] = th'[u].num
                                     \/ \A m \in Fds : owner'[m] # th'[u].conn
                            /\ th'[u].at = "reset" =>
                                  \A m \in Fds : owner'[m] # th'[u].conn
            BY <2>2 DEF CloserHolds, At, Owns
        <3>1. CASE u = t
            BY <2>4, <2>7, <3>1 DEF Owns
        <3>2. CASE u # t
            <4>1. th[u].at # "idle" => th[u].conn \in Clients
                BY <1>1 DEF OnlyKnown, At
            <4>2. th'[u].at = th[u].at /\ th'[u].conn = th[u].conn /\ th'[u].num = th[u].num
                BY <2>4, <3>2
            <4> QED
                BY <1>1, <2>6, <4>1, <4>2 DEF CloserHolds, At, Owns
        <3> QED
            BY <3>1, <3>2
    <2> QED
        BY <2>5, <2>8, <2>9, <2>10 DEF IInv
<1>4. CASE CloseReset(t)
    <2>1. th[t].conn \in Clients /\ Known(th[t].conn) /\ ~Owns(th[t].conn)
        BY <1>1, <1>4 DEF CloseReset, OnlyKnown, CloserHolds, At
    <2>2. th' \in [Threads -> Thread] /\ sendMutex' \in Threads \cup {Nobody}
        BY <1>1, <1>4, StepsTyped DEF CloseReset, TypeOK, Return, Places
    <2>3. TypeOK'
        BY <1>1, <1>4, <2>2 DEF CloseReset, TypeOK, Thread, peers, kernel, harm
    <2>4. /\ UNCHANGED <<peer, owner, served, out>>
          /\ fd' = [fd EXCEPT ![th[t].conn] = Closed]
          /\ \A u \in Threads \ {t} : th'[u] = th[u]
          /\ th'[t].at = "idle"
        BY <1>1, <1>4 DEF CloseReset, Return, Idle, TypeOK, peers, kernel
    <2>5. /\ \A d \in Clients : fd'[d] = IF d = th[t].conn THEN Closed ELSE fd[d]
          /\ \A d \in Clients : Owns(d)' <=> Owns(d)
        BY <1>1, <2>4 DEF TypeOK, Owns
    <2>6. FreshClosed'
        BY <1>1, <2>4, <2>5 DEF FreshClosed, Known
    <2>7. NoDescriptorLost'
        <3> SUFFICES ASSUME NEW m \in Fds, owner[m] # Nobody PROVE fd'[owner[m]] = m
            BY <2>4 DEF NoDescriptorLost
        <3>1. owner[m] \in Clients /\ owner[m] # th[t].conn
            BY <1>1, <2>1 DEF TypeOK, Owns
        <3> QED
            BY <1>1, <2>5, <3>1 DEF NoDescriptorLost
    <2>8. OnlyKnown' /\ LoopRegisters'
        BY <1>1, <2>1, <2>4 DEF OnlyKnown, LoopRegisters, At, Known
    <2>9. CloserHolds'
        <3> SUFFICES ASSUME NEW u \in Threads, u # t
                     PROVE  /\ th[u].at = "closing" =>
                                  /\ th[u].num \in Fds
                                  /\ fd'[th[u].conn] = th[u].num \/ ~Owns(th[u].conn)
                            /\ th[u].at = "reset" => ~Owns(th[u].conn)
            BY <2>4 DEF CloserHolds, At, Owns
        <3>1. th[u].at # "idle" => th[u].conn \in Clients
            BY <1>1 DEF OnlyKnown, At
        <3> QED
            BY <1>1, <2>1, <2>5, <3>1 DEF CloserHolds, At, Owns
    <2> QED
        BY <2>3, <2>6, <2>7, <2>8, <2>9 DEF IInv
<1>5. CASE Register
    <2>1. /\ th["loop"].conn \in Clients /\ Known(th["loop"].conn)
          /\ th["loop"].num \in Fds
        BY <1>1, <1>5 DEF Register, OnlyKnown, LoopRegisters, At
    <2>2. th' \in [Threads -> Thread] /\ sendMutex' \in Threads \cup {Nobody}
        BY <1>1, <1>5, StepsTyped DEF Register, TypeOK, Return, Places
    <2>3. TypeOK'
        BY <1>1, <1>5, <2>1, <2>2 DEF Register, TypeOK, Thread, peers, harm
    <2>4. /\ UNCHANGED <<peer, owner, fd, served, out>>
          /\ \A u \in Threads \ {"loop"} : th'[u] = th[u]
          /\ \/ th'["loop"].at = "idle"
             \/ th'["loop"].at = "close" /\ th'["loop"].conn = th["loop"].conn
        <3>1. th \in [Threads -> Thread] /\ "loop" \in Threads
            BY <1>1 DEF TypeOK, Thread
        <3> QED
            BY <1>5, <3>1 DEF Register, Return, Go, Idle, Thread, peers
    <2>5. FreshClosed' /\ NoDescriptorLost'
        BY <1>1, <2>4 DEF FreshClosed, NoDescriptorLost, Known
    <2>6. OnlyKnown' /\ LoopRegisters'
        BY <1>1, <2>1, <2>4 DEF OnlyKnown, LoopRegisters, At, Known
    <2>7. CloserHolds'
        BY <1>1, <2>4 DEF CloserHolds, At, Owns
    <2> QED
        BY <2>3, <2>5, <2>6, <2>7 DEF IInv
<1> QED
    BY <1>2, <1>3, <1>4, <1>5 DEF ClosesocketProc

\* A step of a thread that neither changes a field, the owner of a number or a client,
\* nor begins to close or to register.
LEMMA Frame ==
    ASSUME IInv, TypeOK', fd' = fd, owner' = owner, peer' = peer,
           \A c \in served' : Known(c), out' # Nobody => Known(out'),
           NEW t \in Threads,
           \A u \in Threads \ {t} : th'[u] = th[u],
           th'[t].at \notin {"closing", "reset", "register"},
           th'[t].at # "idle" => th'[t].conn \in Clients /\ Known(th'[t].conn)
    PROVE  IInv'
<1> USE DEF IInv, At, Known, Owns
<1>1. FreshClosed' /\ NoDescriptorLost'
    BY DEF FreshClosed, NoDescriptorLost
<1>2. OnlyKnown'
    BY DEF OnlyKnown
<1>3. CloserHolds'
    BY DEF CloserHolds
<1>4. LoopRegisters'
    BY DEF LoopRegisters, Threads
<1> QED
    BY <1>1, <1>2, <1>3, <1>4

\* What epoll reports are events.
LEMMA ReadyEvents == TypeOK => \A w : Ready(w) \subseteq Event
<1> SUFFICES ASSUME TypeOK, NEW w, NEW e \in Ready(w) PROVE e \in Event
    OBVIOUS
<1>1. \A n \in Fds : reg[n] # Nobody => reg[n] \in Clients
    BY DEF TypeOK
<1>2. CASE e = [conn |-> Listen, in |-> TRUE, out |-> FALSE]
    BY <1>2 DEF Event
<1>3. CASE \E n \in Fds :
              /\ reg[n] # Nobody
              /\ e = [conn |-> reg[n], in |-> unread[owner[n]] \/ peer[owner[n]] = "gone",
                      out |-> n \in w /\ peer[owner[n]] # "gone"]
    <2>1. PICK n \in Fds :
              /\ reg[n] # Nobody
              /\ e = [conn |-> reg[n], in |-> unread[owner[n]] \/ peer[owner[n]] = "gone",
                      out |-> n \in w /\ peer[owner[n]] # "gone"]
        BY <1>3
    <2>2. (unread[owner[n]] \/ peer[owner[n]] = "gone") \in BOOLEAN
        OBVIOUS
    <2>3. (n \in w /\ peer[owner[n]] # "gone") \in BOOLEAN
        OBVIOUS
    <2> QED
        BY <1>1, <2>1, <2>2, <2>3 DEF Event
<1>4. \/ e = [conn |-> Listen, in |-> TRUE, out |-> FALSE]
      \/ \E n \in Fds :
              /\ reg[n] # Nobody
              /\ e = [conn |-> reg[n], in |-> unread[owner[n]] \/ peer[owner[n]] = "gone",
                      out |-> n \in w /\ peer[owner[n]] # "gone"]
    BY DEF Ready
<1> QED
    BY <1>2, <1>3, <1>4

\* The steps that wait, read, write and arm: they change neither fd nor the owner of a
\* number.
LEMMA StepUsers ==
    ASSUME IInv,
           \/ Wait \/ AcceptRefused \/ RecvLoad \/ RecvCall \/ WriteLoad
           \/ \E t \in Threads : SendSteps(t)
           \/ \E e \in batch : Dispatch(e)
           \/ \E c \in served : CutOff(c) \/ SendLoad(c)
    PROVE  IInv'
<1>1. fd' = fd /\ owner' = owner /\ peer' = peer
    BY DEF Wait, AcceptRefused, RecvLoad, RecvCall, WriteLoad, SendSteps, SendCall, ModLoad,
           ModCall, Dispatch, CutOff, SendLoad, peers, kernel
<1>2. /\ TypeOK /\ "loop" \in Threads /\ "sender" \in Threads /\ "business" \in Threads
      /\ th \in [Threads -> Thread] /\ Nobody \notin Clients
    BY DescriptorAssumption DEF IInv, Threads, TypeOK, Thread
<1>3. /\ \A c \in served : Known(c)
      /\ \A t \in Threads : ~At(t, "idle") => th[t].conn \in Clients /\ Known(th[t].conn)
      /\ out # Nobody => Known(out)
    BY DEF IInv, OnlyKnown
<1> USE DEF peers, kernel, harm
<1>4. CASE Wait \/ AcceptRefused
    <2>1. batch' \subseteq Event
        BY <1>2, <1>4, ReadyEvents DEF Wait, AcceptRefused, TypeOK
    <2>2. /\ th' = th /\ served' = served /\ out' = out
          /\ UNCHANGED <<unread, reg, armed, sendMutex, robbed, misled>>
        BY <1>4 DEF Wait, AcceptRefused
    <2>3. TypeOK'
        BY <1>1, <1>2, <2>1, <2>2 DEF TypeOK
    <2> QED
        BY <1>1, <2>2, <2>3 DEF IInv, FreshClosed, OnlyKnown, CloserHolds, LoopRegisters,
                                NoDescriptorLost, Known, Owns, At
<1>5. CASE RecvLoad \/ RecvCall
    <2>1. th["loop"].conn \in Clients /\ Known(th["loop"].conn)
        BY <1>5, <1>2, <1>3 DEF RecvLoad, RecvCall, At
    <2>2. Target("loop") \in Clients \cup {Nobody}
        BY <1>2 DEF Target, TypeOK, Thread
    <2>3. th' \in [Threads -> Thread]
        BY <1>5, <1>2, <2>1, StepsTyped DEF RecvLoad, RecvCall, Places, Loaded
    <2>4. /\ unread' \in [Clients -> BOOLEAN] /\ served' \subseteq Clients
          /\ sendMutex' \in Threads \cup {Nobody}
          /\ UNCHANGED <<reg, armed, batch, out, robbed, misled>>
        BY <1>5, <1>2, <2>1, <2>2 DEF RecvLoad, RecvCall, Return, TypeOK
    <2>5. TypeOK'
        BY <1>1, <1>2, <2>3, <2>4 DEF TypeOK, Thread
    <2>6. \A c \in served' : Known(c)
        BY <1>5, <1>3, <2>1 DEF RecvLoad, RecvCall
    <2>7. /\ \A u \in Threads \ {"loop"} : th'[u] = th[u]
          /\ th'["loop"].at \notin {"closing", "reset", "register"}
          /\ th'["loop"].at # "idle" =>
                th'["loop"].conn \in Clients /\ Known(th'["loop"].conn)
        BY <1>5, <1>2, <2>1 DEF RecvLoad, RecvCall, Load, Loading, Return, Go, Idle, Thread
    <2> QED
        BY <1>1, <1>2, <1>3, <2>4, <2>5, <2>6, <2>7, Frame
<1>6. ASSUME NEW t \in Threads, SendSteps(t) PROVE IInv'
    <2>1. th[t].conn \in Clients /\ Known(th[t].conn)
        BY <1>6, <1>2, <1>3 DEF SendSteps, SendCall, ModLoad, ModCall, At
    <2>2. th' \in [Threads -> Thread]
        BY <1>6, <1>2, <2>1, StepsTyped
           DEF SendSteps, SendCall, ModLoad, ModCall, Places, Loaded
    <2>3. /\ sendMutex' \in Threads \cup {Nobody}
          /\ UNCHANGED <<unread, batch, out, served, robbed>>
        BY <1>6, <1>2 DEF SendSteps, SendCall, ModLoad, ModCall, Return, TypeOK
    <2>4. reg' \in [Fds -> Clients \cup {Nobody}] /\ armed' \subseteq Fds
          /\ misled' \subseteq Clients
        <3>1. CASE SendCall(t) \/ ModLoad(t)
            BY <1>2, <3>1 DEF SendCall, ModLoad, TypeOK
        <3>2. CASE ModCall(t)
            <4>1. th[t].num # Closed => th[t].num \in Fds
                BY <1>2 DEF Thread
            <4>2. Victims(t) \subseteq Clients
                BY <1>2, <4>1 DEF Victims, Target, TypeOK
            <4> QED
                BY <1>2, <2>1, <3>2, <4>1, <4>2 DEF ModCall, TypeOK
        <3> QED
            BY <1>6, <3>1, <3>2 DEF SendSteps
    <2>5. TypeOK'
        BY <1>1, <1>2, <2>2, <2>3, <2>4 DEF TypeOK, Thread
    <2>6. /\ \A u \in Threads \ {t} : th'[u] = th[u]
          /\ th'[t].at \notin {"closing", "reset", "register"}
          /\ th'[t].at # "idle" => th'[t].conn \in Clients /\ Known(th'[t].conn)
        BY <1>6, <1>2, <2>1
           DEF SendSteps, SendCall, ModLoad, ModCall, Load, Loading, Return, Go, Idle, Thread
    <2> QED
        BY <1>1, <1>3, <2>3, <2>5, <2>6, Frame
<1>7. ASSUME NEW e \in batch, Dispatch(e) PROVE IInv'
    <2>1. e \in Event /\ e.conn \in Clients
        BY <1>2, <1>7 DEF Dispatch, TypeOK, Event
    <2>2. fd[e.conn] # Closed => Known(e.conn)
        BY <2>1 DEF IInv, FreshClosed
    <2>3. [Idle EXCEPT !.at = "recv", !.conn = e.conn] \in Thread
        BY <2>1 DEF Idle, Thread, Places, Races
    <2>4. th' \in [Threads -> Thread] /\ out' \in Clients \cup {Nobody}
        BY <1>2, <1>7, <2>1, <2>3 DEF Dispatch
    <2>5. TypeOK' /\ served' = served
        BY <1>1, <1>2, <1>7, <2>4 DEF Dispatch, TypeOK, Thread
    <2>6. /\ \A u \in Threads \ {"loop"} : th'[u] = th[u]
          /\ th'["loop"].at \in {"idle", "recv"}
          /\ th'["loop"].at # "idle" =>
                th'["loop"].conn \in Clients /\ Known(th'["loop"].conn)
        BY <1>7, <1>2, <2>1, <2>2 DEF Dispatch, Idle, At
    <2>7. out' # Nobody => Known(out')
        BY <1>7, <2>2 DEF Dispatch
    <2> QED
        BY <1>1, <1>2, <1>3, <2>5, <2>6, <2>7, Frame
<1>8. CASE WriteLoad
    <2>1. out \in Clients /\ Known(out)
        BY <1>2, <1>3, <1>8 DEF WriteLoad, TypeOK
    <2>2. Loading("loop", out, "sendcall") \in Thread
        BY <1>2, <2>1, StepsTyped DEF Places, Loaded
    <2>3. TypeOK' /\ served' = served /\ out' = Nobody
        BY <1>1, <1>2, <1>8, <2>2 DEF WriteLoad, TypeOK, Thread
    <2>4. /\ \A u \in Threads \ {"loop"} : th'[u] = th[u]
          /\ th'["loop"].at = "sendcall" /\ th'["loop"].conn = out
        BY <1>2, <1>8 DEF WriteLoad, Loading
    <2> QED
        BY <1>1, <1>2, <1>3, <2>1, <2>3, <2>4, Frame
<1>9. ASSUME NEW c \in served, CutOff(c) \/ SendLoad(c) PROVE IInv'
    <2>1. c \in Clients /\ Known(c)
        BY <1>2, <1>3 DEF TypeOK
    <2>2. /\ Loading("sender", c, "sendcall") \in Thread
          /\ [Idle EXCEPT !.at = "close", !.conn = c] \in Thread
        BY <1>2, <2>1, StepsTyped DEF Idle, Thread, Places, Loaded, Races
    <2>3. TypeOK' /\ served' = served /\ out' = out
        <3>1. th' \in [Threads -> Thread] /\ sendMutex' \in Threads \cup {Nobody}
            BY <1>2, <1>9, <2>2 DEF CutOff, SendLoad
        <3>2. UNCHANGED <<unread, reg, armed, batch, out, served, robbed, misled>>
            BY <1>9 DEF CutOff, SendLoad
        <3> QED
            BY <1>1, <1>2, <3>1, <3>2 DEF TypeOK, Thread
    <2>4. CASE CutOff(c)
        <3>1. /\ \A u \in Threads \ {"business"} : th'[u] = th[u]
              /\ th'["business"].at = "close" /\ th'["business"].conn = c
            BY <1>2, <2>4 DEF CutOff, Idle
        <3> QED
            BY <1>1, <1>2, <1>3, <2>1, <2>3, <3>1, Frame
    <2>5. CASE SendLoad(c)
        <3>1. /\ \A u \in Threads \ {"sender"} : th'[u] = th[u]
              /\ th'["sender"].at = "sendcall" /\ th'["sender"].conn = c
            BY <1>2, <2>5 DEF SendLoad, Loading
        <3> QED
            BY <1>1, <1>2, <1>3, <2>1, <2>3, <3>1, Frame
    <2> QED
        BY <1>9, <2>4, <2>5
<1> QED
    BY <1>4, <1>5, <1>6, <1>7, <1>8, <1>9

\* The steps of the clients, and the accepting of one.
LEMMA StepClients ==
    ASSUME IInv, NEW c \in Clients, Accept(c) \/ Connect(c) \/ Sends(c) \/ Leaves(c)
    PROVE  IInv'
<1> USE DescriptorAssumption
        DEF IInv, Threads, Closed, peers, kernel, harm, Known, Owns, At
<1>1. CASE Accept(c)
    <2>1. PICK s \in FreeFds :
            /\ owner' = [owner EXCEPT ![s] = c]
            /\ fd' = [fd EXCEPT ![c] = s]
            /\ th' = [th EXCEPT !["loop"] = [at |-> "register", conn |-> c, num |-> s,
                                             race |-> "none"]]
        BY <1>1 DEF Accept
    <2>2. s \in Fds /\ owner[s] = Nobody
        BY DEF FreeFds
    <2>3. TypeOK' /\ LoopRegisters'
        BY <1>1, <2>1, <2>2 DEF Accept, TypeOK, LoopRegisters, Places, Loaded, Races
    <2>4. ~Known(c) /\ fd[c] = Closed
        BY <1>1 DEF Accept, FreshClosed
    <2>5. ~Owns(c)
        BY <2>4 DEF NoDescriptorLost, TypeOK
    <2>6. FreshClosed' /\ OnlyKnown'
        BY <1>1, <2>1, <2>2 DEF Accept, FreshClosed, OnlyKnown, TypeOK
    <2>7. NoDescriptorLost'
        BY <2>1, <2>2, <2>5 DEF NoDescriptorLost, TypeOK
    <2>8. CloserHolds'
        BY <2>1, <2>2, <2>4 DEF CloserHolds, OnlyKnown, TypeOK
    <2> QED
        BY <2>3, <2>6, <2>7, <2>8
<1>2. CASE Connect(c) \/ Sends(c) \/ Leaves(c)
    <2>1. TypeOK'
        BY <1>2 DEF Connect, Sends, Leaves, TypeOK
    <2>2. /\ UNCHANGED <<kernel, fd, th, served, out>>
          /\ \A k \in Clients : Known(k) => Known(k)'
        BY <1>2 DEF Connect, Sends, Leaves, TypeOK
    <2>3. FreshClosed' /\ NoDescriptorLost'
        BY <2>2 DEF FreshClosed, NoDescriptorLost
    <2>4. OnlyKnown'
        BY <2>2 DEF OnlyKnown, TypeOK
    <2>5. CloserHolds' /\ LoopRegisters'
        BY <2>2 DEF CloserHolds, LoopRegisters
    <2> QED
        BY <2>1, <2>3, <2>4, <2>5
<1> QED
    BY <1>1, <1>2

\* Every step keeps the invariant.
LEMMA StepIInv == IInv /\ [Next]_vars => IInv'
<1> SUFFICES ASSUME IInv, [Next]_vars PROVE IInv'
    OBVIOUS
<1>1. CASE UNCHANGED vars
    BY <1>1 DEF vars, peers, kernel, harm, IInv, TypeOK, FreshClosed, OnlyKnown, CloserHolds,
                LoopRegisters, NoDescriptorLost, Known, Owns, At
<1>2. CASE Next
    BY <1>2, StepClosers, StepUsers, StepClients
       DEF Next, zhy_epoll_process_events, sendMsg, ServerSendQueueThread, Threads
<1> QED
    BY <1>1, <1>2

-----------------------------------------------------------------------------
\* Type correctness, for any clients and any set of descriptor numbers.
THEOREM TypeCorrect == Spec => []TypeOK
<1>1. IInv => TypeOK
    BY DEF IInv
<1> QED
    BY InitIInv, StepIInv, <1>1, PTL DEF Spec

\* No descriptor is left open that no object knows, although ClosesocketProc tests,
\* closes and resets in three steps and two threads may be inside of it for one object:
\* the field is reset only after a close() that the object's socket did not survive.
THEOREM DescriptorsAccounted == Spec => []NoDescriptorLost
<1>1. IInv => NoDescriptorLost
    BY DEF IInv
<1> QED
    BY InitIInv, StepIInv, <1>1, PTL DEF Spec

-----------------------------------------------------------------------------
(* Whose socket a thread reaches.                                          *)

\* A loaded number that no race has spoilt is the object's own socket, or -1; the loop's
\* own may at most have been closed meanwhile, because only the loop accepts.
NumberOwn == \A t \in Threads : th[t].at \in Loaded /\ th[t].conn \notin robbed =>
    /\ th[t].race = "none" => th[t].num = Closed \/ owner[th[t].num] = th[t].conn
    /\ t = "loop" /\ th[t].race = "late" =>
          th[t].num = Closed \/ owner[th[t].num] \in {th[t].conn, Nobody}

\* A number in a field is the client's socket, except between close() and the reset.
FieldOwned == \A c \in Clients \ robbed :
    (fd[c] # Closed /\ \A t \in Threads : ~(At(t, "reset") /\ On(t, c))) =>
        owner[fd[c]] = c

OwnInv == NumberOwn /\ FieldOwned

\* What a thread loads: without a race, the socket of the object.
LEMMA LoadOwn ==
    ASSUME IInv, FieldOwned, NEW t \in Threads, NEW c \in Clients, NEW place \in Loaded,
           c \notin robbed, ~(At(t, "reset") /\ On(t, c)),
           Loading(t, c, place).race # "dangling"
    PROVE  fd[c] = Closed \/ owner[fd[c]] = c
<1>1. ~ \E u \in Threads \ {t} : At(u, "reset") /\ On(u, c)
    BY DEF Loading
<1> QED
    BY <1>1 DEF FieldOwned

\* A step of one thread that changes neither a field nor the owner of a number, and at
\* most loads a number.
LEMMA OwnFrame ==
    ASSUME IInv, OwnInv, NEW t \in Threads,
           fd' = fd, owner' = owner, robbed' = robbed,
           \A u \in Threads \ {t} : th'[u] = th[u],
           ~At(t, "reset"),
           \/ th'[t].at \notin Loaded
           \/ \E c \in Clients, place \in Loaded : th'[t] = Loading(t, c, place)
    PROVE  OwnInv'
<1>1. NumberOwn'
    <2> SUFFICES ASSUME NEW u \in Threads, th'[u].at \in Loaded, th'[u].conn \notin robbed
                 PROVE  /\ th'[u].race = "none" =>
                             th'[u].num = Closed \/ owner[th'[u].num] = th'[u].conn
                        /\ u = "loop" /\ th'[u].race = "late" =>
                             th'[u].num = Closed
                             \/ owner[th'[u].num] \in {th'[u].conn, Nobody}
        BY DEF NumberOwn
    <2>1. CASE u # t
        BY <2>1 DEF OwnInv, NumberOwn
    <2>2. CASE u = t
        <3>1. PICK c \in Clients, place \in Loaded : th'[t] = Loading(t, c, place)
            BY <2>2
        <3>2. th'[t].conn = c /\ th'[t].num = fd[c]
            BY <3>1 DEF Loading
        <3> QED
            BY <2>2, <3>1, <3>2, LoadOwn DEF OwnInv
    <2> QED
        BY <2>1, <2>2
<1>2. FieldOwned'
    <2>1. \A c : (At(t, "reset") /\ On(t, c)) = FALSE
        BY DEF At
    <2>2. ASSUME NEW c, NEW u \in Threads, At(u, "reset") /\ On(u, c)
          PROVE  (At(u, "reset") /\ On(u, c))'
        BY <2>2 DEF At, On
    <2> QED
        BY <2>2 DEF OwnInv, FieldOwned
<1> QED
    BY <1>1, <1>2 DEF OwnInv

\* Nothing is open at the start.
LEMMA InitOwn == Init => OwnInv
    BY DEF Init, Idle, OwnInv, NumberOwn, FieldOwned, Loaded, Threads, Closed, At

\* The steps of ClosesocketProc.
LEMMA CloserOwn ==
    ASSUME IInv, OwnInv, NEW t \in Threads, ClosesocketProc(t)
    PROVE  OwnInv'
<1> DEFINE c == th[t].conn
<1>1. /\ NumberOwn /\ FieldOwned /\ TypeOK /\ c \in Clients /\ th \in [Threads -> Thread]
      /\ Nobody \notin Clients
    BY DescriptorAssumption
       DEF OwnInv, IInv, OnlyKnown, ClosesocketProc, CloseTest, CloseCall, CloseReset, At,
           TypeOK, Thread
<1>2. CASE CloseTest(t)
    <2>1. /\ fd' = fd /\ owner' = owner /\ robbed' = robbed /\ ~At(t, "reset")
          /\ \A u \in Threads \ {t} : th'[u] = th[u]
          /\ \/ th'[t].at \notin Loaded
             \/ \E d \in Clients, place \in Loaded : th'[t] = Loading(t, d, place)
        BY <1>1, <1>2 DEF CloseTest, Return, Load, At, Idle, kernel, harm, Loaded
    <2> QED
        BY <2>1, OwnFrame
<1>3. CASE CloseCall(t)
    <2> DEFINE n == th[t].num
    <2>1. /\ fd' = fd /\ owner' = [owner EXCEPT ![n] = Nobody] /\ n \in Fds
          /\ robbed' = robbed \cup Victims(t) /\ At(t, "closing")
        BY <1>3 DEF CloseCall, IInv, CloserHolds
    <2>2. \A m \in Fds : owner'[m] = IF m = n THEN Nobody ELSE owner[m]
        BY <1>1, <2>1 DEF TypeOK
    <2>3. owner[n] \in robbed' \cup {c, Nobody}
        BY <2>1, DescriptorAssumption DEF Victims, Target, Closed
    <2>4. /\ th'[t].at = "reset" /\ th'[t].conn = c
          /\ \A u \in Threads \ {t} :
                 /\ th'[u].at = th[u].at /\ th'[u].conn = th[u].conn
                 /\ th'[u].num = th[u].num
                 /\ th'[u].race # th[u].race =>
                       th'[u].race = "late" /\ th[u].race = "none"
                       /\ th[u].conn = c
                 /\ (th[u].at \in Loaded /\ th[u].conn = c) => th'[u].race # "none"
        BY <1>1, <1>3, CloseThreads
    <2>5. NumberOwn'
        <3> SUFFICES ASSUME NEW u \in Threads, th'[u].at \in Loaded,
                            th'[u].conn \notin robbed'
                     PROVE  /\ th'[u].race = "none" =>
                                 th'[u].num = Closed \/ owner'[th'[u].num] = th'[u].conn
                            /\ u = "loop" /\ th'[u].race = "late" =>
                                 th'[u].num = Closed
                                 \/ owner'[th'[u].num] \in {th'[u].conn, Nobody}
            BY DEF NumberOwn
        <3>1. u # t /\ th[u].at \in Loaded /\ th[u].conn \notin robbed
            BY <2>1, <2>4 DEF Loaded
        <3>2. th[u].num \in Fds \cup {Closed} /\ th[u].conn \in Clients
            BY <1>1, <3>1 DEF Thread, IInv, OnlyKnown, At, Loaded
        <3>3. ASSUME th'[u].race = "none"
              PROVE  th[u].num = Closed \/ owner'[th[u].num] = th[u].conn
            <4>1. th[u].race = "none" /\ th[u].conn # c
                BY <2>4, <3>1, <3>3
            <4>2. th[u].num = Closed \/ owner[th[u].num] = th[u].conn
                BY <1>1, <3>1, <4>1 DEF NumberOwn
            <4>3. th[u].num # n \/ th[u].num = Closed
                BY <1>1, <2>3, <2>4, <3>1, <3>2, <4>1, <4>2
            <4> QED
                BY <2>2, <3>2, <4>2, <4>3
        <3>4. ASSUME u = "loop", th'[u].race = "late"
              PROVE  th[u].num = Closed \/ owner'[th[u].num] \in {th[u].conn, Nobody}
            <4>1. th[u].num = Closed \/ owner[th[u].num] \in {th[u].conn, Nobody}
                BY <1>1, <2>4, <3>1, <3>4 DEF NumberOwn
            <4> QED
                BY <2>2, <3>2, <4>1
        <3> QED
            BY <2>4, <3>1, <3>3, <3>4
    <2>6. FieldOwned'
        <3> SUFFICES ASSUME NEW d \in Clients \ robbed', fd[d] # Closed,
                            \A u \in Threads : ~(At(u, "reset") /\ On(u, d))'
                     PROVE  owner'[fd[d]] = d
            BY <2>1 DEF FieldOwned
        <3>1. d # c
            BY <2>4 DEF At, On
        <3>2. \A u \in Threads : ~(At(u, "reset") /\ On(u, d))
            BY <2>1, <2>4 DEF At, On
        <3>3. owner[fd[d]] = d
            BY <1>1, <2>1, <3>2 DEF FieldOwned
        <3>4. fd[d] # n /\ fd[d] \in Fds
            BY <1>1, <2>3, <3>1, <3>3 DEF TypeOK
        <3> QED
            BY <2>2, <3>3, <3>4
    <2> QED
        BY <2>5, <2>6 DEF OwnInv
<1>4. CASE CloseReset(t)
    <2>1. /\ fd' = [fd EXCEPT ![c] = Closed] /\ owner' = owner /\ robbed' = robbed
          /\ th' = [th EXCEPT ![t] = Idle]
        BY <1>4 DEF CloseReset, Return, kernel, harm
    <2>2. NumberOwn'
        <3>1. \A u \in Threads : u # t => th'[u] = th[u]
            BY <1>1, <2>1
        <3>2. th'[t].at \notin Loaded
            BY <1>1, <2>1 DEF Idle, Loaded
        <3> QED
            BY <1>1, <2>1, <3>1, <3>2 DEF NumberOwn
    <2>3. FieldOwned'
        <3> SUFFICES ASSUME NEW d \in Clients \ robbed, fd'[d] # Closed,
                            \A u \in Threads : ~(At(u, "reset") /\ On(u, d))'
                     PROVE  owner[fd'[d]] = d
            BY <2>1 DEF FieldOwned
        <3>1. d # c /\ fd'[d] = fd[d]
            BY <1>1, <2>1 DEF TypeOK
        <3>2. \A u \in Threads : ~(At(u, "reset") /\ On(u, d))
            BY <1>1, <2>1, <3>1 DEF At, On
        <3> QED
            BY <1>1, <3>1, <3>2 DEF FieldOwned
    <2> QED
        BY <2>2, <2>3 DEF OwnInv
<1> QED
    BY <1>2, <1>3, <1>4 DEF ClosesocketProc

\* Accepting a client: the number is free, no thread knows the object yet, and the loop
\* itself holds no number.
LEMMA AcceptOwn ==
    ASSUME IInv, OwnInv, NEW c \in Clients, Accept(c)
    PROVE  OwnInv'
<1>1. /\ NumberOwn /\ FieldOwned /\ TypeOK /\ th \in [Threads -> Thread]
      /\ Nobody \notin Clients /\ "loop" \in Threads
    BY DescriptorAssumption DEF OwnInv, IInv, TypeOK, Thread, Threads
<1>2. PICK s \in FreeFds :
        /\ owner' = [owner EXCEPT ![s] = c]
        /\ fd' = [fd EXCEPT ![c] = s]
        /\ th' = [th EXCEPT !["loop"] = [at |-> "register", conn |-> c, num |-> s,
                                         race |-> "none"]]
    BY DEF Accept
<1>3. s \in Fds /\ owner[s] = Nobody /\ robbed' = robbed /\ th["loop"].at = "idle"
    BY DEF Accept, FreeFds, At, harm
<1>4. \A m \in Fds : owner'[m] = IF m = s THEN c ELSE owner[m]
    BY <1>1, <1>2, <1>3 DEF TypeOK
<1>5. NumberOwn'
    <2> SUFFICES ASSUME NEW u \in Threads, th'[u].at \in Loaded, th'[u].conn \notin robbed'
                 PROVE  /\ th'[u].race = "none" =>
                             th'[u].num = Closed \/ owner'[th'[u].num] = th'[u].conn
                        /\ u = "loop" /\ th'[u].race = "late" =>
                             th'[u].num = Closed
                             \/ owner'[th'[u].num] \in {th'[u].conn, Nobody}
        BY DEF NumberOwn
    <2>1. CASE u = "loop"
        BY <1>1, <1>2, <1>3, <1>4, <2>1
    <2>2. CASE u # "loop"
        <3>1. th'[u] = th[u]
            BY <1>1, <1>2, <2>2
        <3>2. th[u].num \in Fds \cup {Closed} /\ th[u].conn \in Clients
            BY <1>1, <3>1 DEF Thread, IInv, OnlyKnown, At, Loaded
        <3>3. th[u].race = "none" => th[u].num = Closed \/ owner[th[u].num] = th[u].conn
            BY <1>1, <1>3, <3>1 DEF NumberOwn
        <3> QED
            BY <1>1, <1>3, <1>4, <2>2, <3>1, <3>2, <3>3
    <2> QED
        BY <2>1, <2>2
<1>6. FieldOwned'
    <2> SUFFICES ASSUME NEW d \in Clients \ robbed, fd'[d] # Closed,
                        \A u \in Threads : ~(At(u, "reset") /\ On(u, d))'
                 PROVE  owner'[fd'[d]] = d
        BY <1>3 DEF FieldOwned
    <2>1. CASE d = c
        BY <1>1, <1>2, <1>3, <1>4, <2>1 DEF TypeOK
    <2>2. CASE d # c
        <3>1. fd'[d] = fd[d]
            BY <1>1, <1>2, <2>2 DEF TypeOK
        <3>2. \A u \in Threads : ~(At(u, "reset") /\ On(u, d))
            BY <1>1, <1>2, <1>3 DEF At, On
        <3>3. owner[fd[d]] = d /\ fd[d] \in Fds
            BY <1>1, <3>1, <3>2 DEF FieldOwned, TypeOK
        <3> QED
            BY <1>1, <1>3, <1>4, <3>1, <3>3
    <2> QED
        BY <2>1, <2>2
<1> QED
    BY <1>5, <1>6 DEF OwnInv

\* The steps that load a number, make a call with it, or take up an event.
LEMMA UserOwn ==
    ASSUME IInv, OwnInv,
           \/ Register \/ RecvLoad \/ RecvCall \/ WriteLoad
           \/ \E t \in Threads : SendSteps(t)
           \/ \E e \in batch : Dispatch(e)
           \/ \E c \in served : CutOff(c) \/ SendLoad(c)
    PROVE  OwnInv'
<1>1. /\ TypeOK /\ "loop" \in Threads /\ "sender" \in Threads /\ "business" \in Threads
      /\ th \in [Threads -> Thread]
      /\ \A t \in Threads : th[t].at # "idle" => th[t].conn \in Clients
      /\ \A c \in served : c \in Clients
    BY DEF IInv, OnlyKnown, At, TypeOK, Thread, Threads
<1>2. /\ fd' = fd /\ owner' = owner /\ robbed' = robbed
    BY DEF Register, RecvLoad, RecvCall, WriteLoad, SendSteps, SendCall, ModLoad, ModCall,
           Dispatch, CutOff, SendLoad, kernel, harm
<1>3. SUFFICES \E t \in Threads :
                  /\ \A u \in Threads \ {t} : th'[u] = th[u]
                  /\ ~At(t, "reset")
                  /\ \/ th'[t].at \notin Loaded
                     \/ \E c \in Clients, place \in Loaded : th'[t] = Loading(t, c, place)
    BY <1>2, OwnFrame
<1>4. CASE Register \/ RecvCall
    <2>1. \/ th' = [th EXCEPT !["loop"] = Idle]
          \/ th' = [th EXCEPT !["loop"].at = "close"]
        BY <1>4 DEF Register, RecvCall, Return, Go
    <2>2. th'["loop"].at \notin Loaded /\ ~At("loop", "reset")
        BY <1>1, <1>4, <2>1 DEF Register, RecvCall, At, Loaded, Idle, Thread
    <2>3. \A u \in Threads \ {"loop"} : th'[u] = th[u]
        BY <1>1, <2>1
    <2> QED
        BY <1>1, <2>2, <2>3
<1>5. CASE RecvLoad
    <2>1. th'["loop"] = Loading("loop", th["loop"].conn, "recvcall")
          /\ ~At("loop", "reset") /\ th["loop"].conn \in Clients
        BY <1>1, <1>5 DEF RecvLoad, Load, At
    <2>2. \A u \in Threads \ {"loop"} : th'[u] = th[u]
        BY <1>1, <1>5 DEF RecvLoad, Load
    <2> QED
        BY <1>1, <2>1, <2>2 DEF Loaded
<1>6. CASE WriteLoad
    <2>1. th'["loop"] = Loading("loop", out, "sendcall")
          /\ ~At("loop", "reset") /\ out \in Clients
        BY <1>1, <1>6 DEF WriteLoad, At, TypeOK
    <2>2. \A u \in Threads \ {"loop"} : th'[u] = th[u]
        BY <1>1, <1>6 DEF WriteLoad
    <2> QED
        BY <1>1, <2>1, <2>2 DEF Loaded
<1>7. ASSUME NEW t \in Threads, SendCall(t) \/ ModCall(t)
      PROVE  /\ \A u \in Threads \ {t} : th'[u] = th[u]
             /\ ~At(t, "reset") /\ th'[t].at \notin Loaded
    <2>1. \/ th' = [th EXCEPT ![t] = Idle]
          \/ th' = [th EXCEPT ![t].at = "mod"]
        BY <1>7 DEF SendCall, ModCall, Return, Go
    <2>2. th'[t].at \notin Loaded /\ ~At(t, "reset")
        BY <1>1, <1>7, <2>1 DEF SendCall, ModCall, At, Loaded, Idle, Thread
    <2> QED
        BY <1>1, <2>1, <2>2
<1>8. ASSUME NEW t \in Threads, ModLoad(t)
      PROVE  /\ \A u \in Threads \ {t} : th'[u] = th[u]
             /\ ~At(t, "reset") /\ th[t].conn \in Clients
             /\ th'[t] = Loading(t, th[t].conn, "modcall")
    BY <1>1, <1>8 DEF ModLoad, Load, At
<1>9. ASSUME NEW e \in batch, Dispatch(e)
      PROVE  /\ \A u \in Threads \ {"loop"} : th'[u] = th[u]
             /\ ~At("loop", "reset") /\ th'["loop"].at \notin Loaded
    BY <1>1, <1>9 DEF Dispatch, Idle, At, Loaded
<1>10. ASSUME NEW c \in served, CutOff(c)
       PROVE  /\ \A u \in Threads \ {"business"} : th'[u] = th[u]
              /\ ~At("business", "reset") /\ th'["business"].at \notin Loaded
    BY <1>1, <1>10 DEF CutOff, Idle, At, Loaded
<1>11. ASSUME NEW c \in served, SendLoad(c)
       PROVE  /\ \A u \in Threads \ {"sender"} : th'[u] = th[u]
              /\ ~At("sender", "reset") /\ c \in Clients
              /\ th'["sender"] = Loading("sender", c, "sendcall")
    BY <1>1, <1>11 DEF SendLoad, At
<1>12. "modcall" \in Loaded /\ "sendcall" \in Loaded
    BY DEF Loaded
<1> QED
    BY <1>1, <1>4, <1>5, <1>6, <1>7, <1>8, <1>9, <1>10, <1>11, <1>12 DEF SendSteps

\* Every step keeps it.
LEMMA StepOwn == IInv /\ OwnInv /\ [Next]_vars => OwnInv'
<1> SUFFICES ASSUME IInv, OwnInv, [Next]_vars PROVE OwnInv'
    OBVIOUS
<1>1. CASE UNCHANGED <<fd, owner, th, robbed>>
    BY <1>1 DEF OwnInv, NumberOwn, FieldOwned, At, On
<1>2. CASE UNCHANGED vars
    BY <1>1, <1>2 DEF vars, kernel, harm
<1>3. CASE \/ Wait \/ AcceptRefused
           \/ \E c \in Clients : Connect(c) \/ Sends(c) \/ Leaves(c)
    BY <1>1, <1>3 DEF Wait, AcceptRefused, Connect, Sends, Leaves, kernel, harm
<1>4. CASE Next
    BY <1>3, <1>4, CloserOwn, AcceptOwn, UserOwn
       DEF Next, zhy_epoll_process_events, sendMsg, ServerSendQueueThread, Threads
<1> QED
    BY <1>2, <1>4

\* A thread holds another client's number only through a race of two threads on one
\* object, in the three ways OwnSocketOnly names, whatever the number of clients and of
\* descriptors: what the loop itself loads before a close of another thread cannot be
\* given out again before it calls, because only the loop accepts.
THEOREM OwnSocket == Spec => []OwnSocketOnly
<1>1. ASSUME IInv, OwnInv PROVE OwnSocketOnly
    <2>1. ASSUME NEW t \in Threads, th[t].at \in Loaded, Victims(t) # {},
                 th[t].race # "dangling", th[t].conn \notin robbed
          PROVE  th[t].race = "late" /\ t # "loop"
        <3>1. th[t].race \in Races
            BY <1>1 DEF IInv, TypeOK
        <3>2. th[t].num # Closed /\ owner[th[t].num] \notin {th[t].conn, Nobody}
            BY <2>1 DEF Victims, Target
        <3> QED
            BY <1>1, <2>1, <3>1, <3>2 DEF OwnInv, NumberOwn, Races
    <2> QED
        BY <1>1, <2>1 DEF OwnSocketOnly, OwnInv, FieldOwned
<1> QED
    BY InitIInv, StepIInv, InitOwn, StepOwn, <1>1, PTL DEF Spec
=============================================================================
