-------------------------- MODULE ThreadPoolProofs --------------------------
(***************************************************************************)
(* What holds of ThreadPool for every finite set of threads and every set  *)
(* of messages.                                                            *)
(***************************************************************************)
EXTENDS ThreadPool, TLAPS, FiniteSetTheorems, SequenceTheorems, FunctionTheorems

Busy == {t \in Threads : pc[t] = "busy"}

\* The mutex is held exactly where ThreadFunc is between lock and unlock, and nobody
\* is on the stretch behind the unlock that follows m_shutdown.
Locked == \A t \in Threads :
    /\ pc[t] \in {"check", "sleep", "take"} <=> mutex = t
    /\ pc[t] \notin {"front", "pop"}

Branch == \A t \in Threads :
    /\ pc[t] = "take" => queue # <<>>
    /\ pc[t] = "sleep" => queue = <<>>

\* The messages are told apart by where they are; this says without cardinalities what
\* EachMessageOnce says with them.
Apart ==
    /\ \A i, j \in 1..Len(queue) : queue[i] = queue[j] => i = j
    /\ \A t, u \in InHand : jobbuf[t] = jobbuf[u] => t = u
    /\ \A t \in InHand : jobbuf[t] \in Bufs /\ jobbuf[t] \notin freed
    /\ \A i \in 1..Len(queue) : queue[i] \notin freed
    /\ \A i \in 1..Len(queue) : \A t \in InHand : queue[i] # jobbuf[t]
    /\ posted = Queued \cup Held \cup freed

\* The two counters agree with what they count, after m_shutdown too.
Counts ==
    /\ count = Len(queue)
    /\ running = Cardinality(Busy)

IInv == TypeOK /\ Counts /\ (~shutdown => Locked /\ Branch /\ Apart)

-----------------------------------------------------------------------------
(* The list.                                                               *)

\* Taking the first element leaves the others, each one place further to the front.
LEMMA TailElements ==
    ASSUME NEW S, NEW q \in Seq(S), q # <<>>
    PROVE  /\ Tail(q) \in Seq(S) /\ Len(Tail(q)) = Len(q) - 1 /\ Len(q) > 0
           /\ Head(q) = q[1] /\ Head(q) \in S
           /\ \A i \in 1..Len(Tail(q)) : Tail(q)[i] = q[i + 1]
<1>1. Len(q) \in Nat \ {0}
    BY EmptySeq
<1> QED
    BY <1>1, HeadTailProperties

\* Appending leaves the others where they are.
LEMMA AppendElements ==
    ASSUME NEW S, NEW q \in Seq(S), NEW e \in S
    PROVE  /\ Append(q, e) \in Seq(S) /\ Len(Append(q, e)) = Len(q) + 1
           /\ Append(q, e) # <<>>
           /\ \A i \in 1..Len(q) : Append(q, e)[i] = q[i]
           /\ Append(q, e)[Len(q) + 1] = e
OBVIOUS

-----------------------------------------------------------------------------
\* At the start no thread is busy or has the mutex and the list is empty.
LEMMA InitIInv == Init => IInv
<1> SUFFICES ASSUME Init PROVE IInv
    OBVIOUS
<1> USE PoolAssumption
<1>1. TypeOK
    <2>1. queue \in Seq(Bufs) /\ count \in Int /\ running \in Int
        BY EmptySeq DEF Init
    <2>2. isrunning \in [Threads -> BOOLEAN] /\ shutdown \in BOOLEAN
        BY DEF Init
    <2>3. running \in 0..Cardinality(Threads)
        BY FS_CardinalityType DEF Init
    <2> QED
        BY <2>1, <2>2, <2>3 DEF Init, TypeOK, ThreadPC
<1>2. Counts
    <2>1. Busy = {}
        BY DEF Init, Busy
    <2> QED
        BY <2>1, FS_EmptySet, EmptySeq DEF Init, Counts
<1>3. Locked /\ Branch /\ Apart
    BY DEF Init, Locked, Branch, Apart, InHand, Held, Queued
<1> QED
    BY <1>1, <1>2, <1>3 DEF IInv

\* m_iRecvMsgQueueCount goes with the list, and m_iRunningThreadNum goes up when a
\* thread begins with a message and down when it has freed it.
LEMMA StepCounts == TypeOK /\ Counts /\ [Next]_vars => Counts'
<1> SUFFICES ASSUME TypeOK, Counts, [Next]_vars PROVE Counts'
    OBVIOUS
<1> USE PoolAssumption DEF TypeOK, Counts
<1>1. IsFiniteSet(Busy)
    BY FS_Subset DEF Busy
<1>2. ASSUME NEW t \in Threads, Begin(t) PROVE Counts'
    <2>1. Busy' = Busy \cup {t} /\ t \notin Busy /\ running' = running + 1
        BY <1>2 DEF Begin, Busy
    <2>2. queue' = queue /\ count' = count
        BY <1>2 DEF Begin
    <2> QED
        BY <1>1, <2>1, <2>2, FS_AddElement
<1>3. ASSUME NEW t \in Threads, Finish(t) PROVE Counts'
    <2>1. Busy' = Busy \ {t} /\ t \in Busy /\ running' = running - 1
        BY <1>3 DEF Finish, Busy
    <2>2. queue' = queue /\ count' = count
        BY <1>3 DEF Finish
    <2> QED
        BY <1>1, <2>1, <2>2, FS_RemoveElement
<1>4. ASSUME NEW b \in Bufs, Enqueue(b) PROVE Counts'
    <2>1. Busy' = Busy /\ running' = running
        BY <1>4 DEF Enqueue, Busy
    <2>2. Len(queue') = Len(queue) + 1 /\ count' = count + 1
        BY <1>4, AppendElements DEF Enqueue
    <2> QED
        BY <2>1, <2>2
<1>5. ASSUME NEW t \in Threads, Take(t) \/ UnlockedPop(t) PROVE Counts'
    <2>1. Busy' = Busy /\ running' = running
        BY <1>5 DEF Take, UnlockedPop, Busy
    <2>2. Len(queue') = Len(queue) - 1 /\ count' = count - 1
        BY <1>5, TailElements DEF Take, UnlockedPop
    <2> QED
        BY <2>1, <2>2
<1>6. CASE \/ \E t \in Threads : SpawnThread(t)
           \/ SpawnFails \/ CreateReturns \/ Call \/ StopAll \/ Broadcast
           \/ UNCHANGED vars
    <2>1. Busy' = Busy /\ running' = running /\ queue' = queue /\ count' = count
        BY <1>6 DEF SpawnThread, SpawnFails, CreateReturns, Call, Waiting, StopAll,
                    Broadcast, vars, Busy
    <2> QED
        BY <2>1
<1>7. ASSUME NEW t \in Threads,
             \/ Lock(t) \/ Check(t) \/ CondWait(t) \/ SpuriousWakeup(t)
             \/ UnlockOnShutdown(t) \/ UnlockedFront(t) \/ UnlockedPopAborts(t)
             \/ DoubleFree(t)
      PROVE  Counts'
    <2>1. Busy' = Busy /\ running' = running /\ queue' = queue /\ count' = count
        BY <1>7 DEF Lock, Check, CondWait, SpuriousWakeup, UnlockOnShutdown,
                    UnlockedFront, UnlockedPopAborts, DoubleFree, Busy
    <2> QED
        BY <2>1
<1> QED
    BY <1>2, <1>3, <1>4, <1>5, <1>6, <1>7 DEF Next, MainStep, ThreadStep

\* A count of threads is at most their number, a length is not negative.
LEMMA CountsRange ==
    ASSUME TypeOK, Counts, NEW q \in Seq(Bufs), NEW B \in SUBSET Threads
    PROVE  Len(q) \in Nat /\ Cardinality(B) \in 0..Cardinality(Threads)
<1>1. /\ IsFiniteSet(B) /\ Cardinality(B) <= Cardinality(Threads)
      /\ Cardinality(B) \in Nat /\ Cardinality(Threads) \in Nat
    BY PoolAssumption, FS_Subset, FS_CardinalityType
<1> QED
    BY <1>1

\* Every step keeps the types, after m_shutdown too.
LEMMA StepType == TypeOK /\ Counts /\ [Next]_vars => TypeOK'
<1> SUFFICES ASSUME TypeOK, Counts, [Next]_vars PROVE TypeOK'
    OBVIOUS
<1>1. queue' \in Seq(Bufs) => count' \in Nat
    BY StepCounts DEF Counts
<1>2. running' \in 0..Cardinality(Threads)
    <2>1. running' = Cardinality(Busy') /\ Busy' \in SUBSET Threads
        BY StepCounts DEF Counts, Busy
    <2>2. <<>> \in Seq(Bufs)
        BY EmptySeq
    <2> QED
        BY <2>1, <2>2, CountsRange
<1> USE <1>1, <1>2, PoolAssumption DEF TypeOK, ThreadPC
<1>3. CASE \E t \in Threads : SpawnThread(t)
    BY <1>3 DEF SpawnThread
<1>4. CASE SpawnFails \/ CreateReturns \/ StopAll
    BY <1>4 DEF SpawnFails, CreateReturns, StopAll
<1>5. ASSUME NEW b \in Bufs, Enqueue(b) PROVE TypeOK'
    BY <1>5, AppendElements DEF Enqueue
<1>6. CASE Call \/ Broadcast
    BY <1>6 DEF Call, Broadcast, Waiting
<1>7. ASSUME NEW t \in Threads PROVE Lock(t) => TypeOK'
    BY DEF Lock
<1>8. ASSUME NEW t \in Threads PROVE Check(t) => TypeOK'
    BY DEF Check
<1>9. ASSUME NEW t \in Threads PROVE CondWait(t) => TypeOK'
    BY DEF CondWait
<1>10. ASSUME NEW t \in Threads PROVE SpuriousWakeup(t) => TypeOK'
    BY DEF SpuriousWakeup
<1>11. ASSUME NEW t \in Threads PROVE UnlockOnShutdown(t) => TypeOK'
    BY DEF UnlockOnShutdown
<1>12. ASSUME NEW t \in Threads PROVE UnlockedPopAborts(t) => TypeOK'
    BY DEF UnlockedPopAborts
<1>13. ASSUME NEW t \in Threads PROVE Begin(t) => TypeOK'
    BY DEF Begin
<1>14. ASSUME NEW t \in Threads PROVE DoubleFree(t) => TypeOK'
    BY DEF DoubleFree
<1>15. ASSUME NEW t \in Threads PROVE Take(t) => TypeOK'
    BY TailElements DEF Take
<1>16. ASSUME NEW t \in Threads PROVE UnlockedPop(t) => TypeOK'
    BY TailElements DEF UnlockedPop
<1>17. ASSUME NEW t \in Threads PROVE UnlockedFront(t) => TypeOK'
    BY TailElements DEF UnlockedFront
<1>18. ASSUME NEW t \in Threads PROVE Finish(t) => TypeOK'
    BY DEF Finish
<1>19. CASE UNCHANGED vars
    BY <1>19 DEF vars
<1> QED
    BY <1>3, <1>4, <1>5, <1>6, <1>7, <1>8, <1>9, <1>10, <1>11, <1>12, <1>13, <1>14,
       <1>15, <1>16, <1>17, <1>18, <1>19
       DEF Next, MainStep, ThreadStep

-----------------------------------------------------------------------------
(* Until StopAll.                                                          *)

\* Most steps touch neither the list nor what a thread has in hand.
LEMMA QuietStep ==
    ASSUME IInv, TypeOK', ~shutdown, ~shutdown',
           \/ \E t \in Threads : SpawnThread(t)
           \/ SpawnFails \/ CreateReturns \/ Call \/ Broadcast
           \/ \E t \in Threads : Lock(t) \/ Check(t) \/ CondWait(t) \/ SpuriousWakeup(t)
                                 \/ UnlockedPopAborts(t) \/ Begin(t) \/ DoubleFree(t)
           \/ UNCHANGED vars
    PROVE  (Locked /\ Branch /\ Apart)'
<1> USE PoolAssumption DEF IInv, TypeOK
<1>1. UNCHANGED <<queue, jobbuf, posted, freed>>
    BY DEF SpawnThread, SpawnFails, CreateReturns, Call, Broadcast, Lock, Check,
           CondWait, SpuriousWakeup, UnlockedPopAborts, Begin, DoubleFree, vars
<1>2. InHand' = InHand
    BY DEF InHand, SpawnThread, SpawnFails, CreateReturns, Call, Waiting, Broadcast, Lock,
           Check, CondWait, SpuriousWakeup, UnlockedPopAborts, Begin, DoubleFree, vars
<1>3. Apart'
    BY <1>1, <1>2 DEF Apart, Queued, Held
<1>4. CASE \E t \in Threads : SpawnThread(t)
    BY <1>3, <1>4 DEF SpawnThread, Locked, Branch
<1>5. CASE SpawnFails \/ CreateReturns \/ UNCHANGED vars
    BY <1>3, <1>5 DEF SpawnFails, CreateReturns, vars, Locked, Branch
<1>6. CASE Call \/ Broadcast
    BY <1>3, <1>6 DEF Call, Broadcast, Waiting, Locked, Branch
<1>7. ASSUME NEW t \in Threads,
             \/ Lock(t) \/ Check(t) \/ CondWait(t) \/ SpuriousWakeup(t)
             \/ UnlockedPopAborts(t) \/ Begin(t) \/ DoubleFree(t)
      PROVE  (Locked /\ Branch)'
    BY <1>7 DEF Lock, Check, CondWait, SpuriousWakeup, UnlockedPopAborts, Begin,
                DoubleFree, Locked, Branch
<1> QED
    BY <1>3, <1>4, <1>5, <1>6, <1>7

\* Nobody is between lock and unlock when the event loop appends.
LEMMA EnqueueStep ==
    ASSUME IInv, ~shutdown, NEW b \in Bufs, Enqueue(b)
    PROVE  (Locked /\ Branch /\ Apart)'
<1> USE PoolAssumption DEF IInv, TypeOK, Enqueue
<1>1. (Locked /\ Branch)'
    BY DEF Locked, Branch
<1>2. /\ queue' \in Seq(Bufs) /\ Len(queue') = Len(queue) + 1
      /\ \A i \in 1..Len(queue) : queue'[i] = queue[i]
      /\ queue'[Len(queue) + 1] = b
    BY AppendElements
<1>3. b \notin Queued /\ b \notin Held /\ b \notin freed
    BY DEF Apart
<1>4. InHand' = InHand /\ Held' = Held
    BY DEF InHand, Held
<1>5. \A i \in 1..Len(queue) : queue[i] \in Queued
    BY DEF Queued
<1>6. Queued' = Queued \cup {b}
    BY <1>2 DEF Queued
<1>7. \A t \in InHand : jobbuf[t] \in Held
    BY DEF Held
<1>8. Len(queue) \in Nat
    OBVIOUS
<1>9. \A i, j \in 1..Len(queue') : queue'[i] = queue'[j] => i = j
    <2> SUFFICES ASSUME NEW i \in 1..(Len(queue) + 1), NEW j \in 1..(Len(queue) + 1),
                        queue'[i] = queue'[j]
                 PROVE  i = j
        BY <1>2
    <2>1. CASE i \in 1..Len(queue) /\ j \in 1..Len(queue)
        BY <1>2, <2>1 DEF Apart
    <2>2. CASE i = Len(queue) + 1 \/ j = Len(queue) + 1
        BY <1>2, <1>3, <1>5, <1>8, <2>2
    <2> QED
        BY <1>8, <2>1, <2>2
<1>11. \A i \in 1..Len(queue') : queue'[i] \notin freed'
    BY <1>2, <1>3, <1>8 DEF Apart
<1>12. \A i \in 1..Len(queue') : \A t \in InHand' : queue'[i] # jobbuf'[t]
    BY <1>2, <1>3, <1>4, <1>7, <1>8 DEF Apart
<1>13. posted' = Queued' \cup Held' \cup freed'
    BY <1>4, <1>6 DEF Apart
<1> QED
    BY <1>1, <1>4, <1>9, <1>11, <1>12, <1>13 DEF Apart

\* The first message of the list goes to the one thread that holds the mutex.
LEMMA TakeStep ==
    ASSUME IInv, ~shutdown, NEW t \in Threads, Take(t)
    PROVE  (Locked /\ Branch /\ Apart)'
<1> USE PoolAssumption DEF IInv, TypeOK, Take
<1>1. (Locked /\ Branch)'
    BY DEF Locked, Branch
<1>2. /\ queue' \in Seq(Bufs) /\ Len(queue') = Len(queue) - 1 /\ Len(queue) > 0
      /\ jobbuf'[t] = queue[1] /\ queue[1] \in Bufs
      /\ \A i \in 1..Len(queue') : queue'[i] = queue[i + 1]
    BY TailElements
<1>3. Len(queue) \in Nat
    OBVIOUS
<1>4. InHand' = InHand \cup {t} /\ t \notin InHand
    BY DEF InHand
<1>5. \A u \in InHand : jobbuf'[u] = jobbuf[u]
    BY <1>4 DEF InHand
<1>6. Held' = Held \cup {queue[1]}
    BY <1>2, <1>4, <1>5 DEF Held
<1>7. Queued = Queued' \cup {queue[1]}
    <2>1. ASSUME NEW i \in 1..Len(queue) PROVE queue[i] \in Queued' \cup {queue[1]}
        <3>1. CASE i = 1
            BY <3>1
        <3>2. CASE i # 1
            <4>1. i - 1 \in 1..Len(queue') /\ queue'[i - 1] = queue[i]
                BY <1>2, <1>3, <3>2
            <4> QED
                BY <4>1 DEF Queued
        <3> QED
            BY <3>1, <3>2
    <2>2. ASSUME NEW i \in 1..Len(queue') PROVE queue'[i] \in Queued
        BY <1>2, <1>3 DEF Queued
    <2>3. queue[1] \in Queued
        BY <1>2, <1>3 DEF Queued
    <2> QED
        BY <2>1, <2>2, <2>3 DEF Queued
<1>8. \A i, j \in 1..Len(queue') : queue'[i] = queue'[j] => i = j
    BY <1>2, <1>3 DEF Apart
<1>9. \A i \in 1..Len(queue') : queue'[i] # queue[1] /\ queue'[i] \notin freed
    BY <1>2, <1>3 DEF Apart
<1>10. \A u \in InHand : jobbuf[u] # queue[1]
    BY <1>2, <1>3 DEF Apart
<1>11. queue[1] \notin freed
    BY <1>2, <1>3 DEF Apart
<1>12. \A u, v \in InHand' : jobbuf'[u] = jobbuf'[v] => u = v
    BY <1>2, <1>4, <1>5, <1>10 DEF Apart
<1>13. \A u \in InHand' : jobbuf'[u] \in Bufs /\ jobbuf'[u] \notin freed'
    BY <1>2, <1>4, <1>5, <1>11 DEF Apart
<1>14. \A i \in 1..Len(queue') : \A u \in InHand' : queue'[i] # jobbuf'[u]
    BY <1>2, <1>3, <1>4, <1>5, <1>9 DEF Apart
<1>15. posted' = Queued' \cup Held' \cup freed'
    BY <1>2, <1>6, <1>7 DEF Apart
<1> QED
    BY <1>1, <1>8, <1>9, <1>12, <1>13, <1>14, <1>15 DEF Apart

\* What a thread frees was in its hand alone.
LEMMA FinishStep ==
    ASSUME IInv, ~shutdown, NEW t \in Threads, Finish(t)
    PROVE  (Locked /\ Branch /\ Apart)'
<1> USE PoolAssumption DEF IInv, TypeOK, Finish
<1>1. (Locked /\ Branch)'
    BY DEF Locked, Branch
<1>2. t \in InHand /\ InHand' = InHand \ {t}
    BY DEF InHand
<1>3. \A u \in InHand' : jobbuf'[u] = jobbuf[u] /\ u # t /\ u \in InHand
    BY <1>2 DEF InHand
<1>4. jobbuf[t] \in Bufs /\ freed' = freed \cup {jobbuf[t]}
    BY <1>2 DEF Apart
<1>5. Held = Held' \cup {jobbuf[t]}
    BY <1>2, <1>3 DEF Held
<1>6. Queued' = Queued /\ queue' = queue
    BY DEF Queued
<1> QED
    BY <1>1, <1>2, <1>3, <1>4, <1>5, <1>6 DEF Apart

\* Every step keeps the invariant.
LEMMA StepIInv == IInv /\ [Next]_vars => IInv'
<1> SUFFICES ASSUME IInv, [Next]_vars PROVE IInv'
    OBVIOUS
<1>1. TypeOK' /\ Counts'
    BY StepType, StepCounts DEF IInv
<1>2. ASSUME ~shutdown' PROVE (Locked /\ Branch /\ Apart)'
    <2>1. ~shutdown /\ ~StopAll
        BY <1>2 DEF Next, MainStep, ThreadStep, SpawnThread, SpawnFails, CreateReturns,
                    Enqueue, Call, StopAll, Broadcast, Lock, Check, CondWait, Take,
                    UnlockOnShutdown, UnlockedFront, UnlockedPop, UnlockedPopAborts,
                    Begin, Finish, DoubleFree, SpuriousWakeup, vars
    <2>2. ASSUME NEW t \in Threads
          PROVE  ~UnlockOnShutdown(t) /\ ~UnlockedFront(t) /\ ~UnlockedPop(t)
        BY <2>1 DEF IInv, Locked, UnlockOnShutdown, UnlockedFront, UnlockedPop
    <2>3. ASSUME NEW b \in Bufs, Enqueue(b) PROVE (Locked /\ Branch /\ Apart)'
        BY <2>1, <2>3, EnqueueStep
    <2>4. ASSUME NEW t \in Threads, Take(t) PROVE (Locked /\ Branch /\ Apart)'
        BY <2>1, <2>4, TakeStep
    <2>5. ASSUME NEW t \in Threads, Finish(t) PROVE (Locked /\ Branch /\ Apart)'
        BY <2>1, <2>5, FinishStep
    <2> QED
        BY <1>1, <1>2, <2>1, <2>2, <2>3, <2>4, <2>5, QuietStep
           DEF Next, MainStep, ThreadStep
<1> QED
    BY <1>1, <1>2 DEF IInv

-----------------------------------------------------------------------------
(* The cardinalities.                                                      *)

\* Nothing takes m_shutdown back.
LEMMA ShutdownStays == [Next]_vars /\ ~shutdown' => ~shutdown
BY DEF Next, MainStep, ThreadStep, SpawnThread, SpawnFails, CreateReturns, Enqueue, Call,
       StopAll, Broadcast, Lock, Check, CondWait, Take, UnlockOnShutdown, UnlockedFront,
       UnlockedPop, UnlockedPopAborts, Begin, Finish, DoubleFree, SpuriousWakeup, vars

\* Whoever is awake stays so, or goes to sleep with the list empty; a message more is
\* paid for by the signal that follows, and that signal by the thread it wakes.
LEMMA StepWakeup == IInv /\ WakeupPerMessage /\ [Next]_vars => WakeupPerMessage'
<1> SUFFICES ASSUME IInv, IInv', WakeupPerMessage, [Next]_vars, ~shutdown', Waiting' # {}
             PROVE  Len(queue') <= Cardinality(Awake')
                                       + (IF main' = "signal" THEN 1 ELSE 0)
    BY StepIInv DEF WakeupPerMessage
<1> USE PoolAssumption DEF IInv, TypeOK
<1>1. ~shutdown
    BY ShutdownStays
<1>2. /\ IsFiniteSet(Awake) /\ IsFiniteSet(Awake')
      /\ Cardinality(Awake) \in Nat /\ Cardinality(Awake') \in Nat
      /\ Len(queue) \in Nat /\ Len(queue') \in Nat
    BY FS_Subset, FS_CardinalityType DEF Awake
<1>3. ASSUME NEW b \in Bufs, Enqueue(b)
      PROVE  Len(queue') <= Cardinality(Awake') + (IF main' = "signal" THEN 1 ELSE 0)
    <2>1. /\ Len(queue') = Len(queue) + 1 /\ main = "loop" /\ main' = "signal"
          /\ Awake' = Awake /\ Waiting # {}
        BY <1>3, AppendElements DEF Enqueue, Awake, Waiting
    <2> QED
        BY <1>1, <1>2, <2>1 DEF WakeupPerMessage
<1>4. CASE Call
    <2>1. Waiting # {} /\ queue' = queue /\ main = "signal" /\ main' = "loop"
        BY <1>4 DEF Call, Waiting
    <2>2. PICK t \in Waiting : pc' = [pc EXCEPT ![t] = "woken"]
        BY <1>4, <2>1 DEF Call
    <2>3. Awake' = Awake \cup {t} /\ t \notin Awake
        BY <2>2 DEF Awake, Waiting
    <2>4. Cardinality(Awake') = Cardinality(Awake) + 1
        BY <1>2, <2>3, FS_AddElement
    <2> QED
        BY <1>1, <1>2, <2>1, <2>4 DEF WakeupPerMessage
<1>5. ASSUME NEW t \in Threads, CondWait(t)
      PROVE  Len(queue') <= Cardinality(Awake') + (IF main' = "signal" THEN 1 ELSE 0)
    <2>1. queue' = <<>>
        BY <1>1, <1>5 DEF CondWait, Branch
    <2>2. Len(queue') = 0
        BY <2>1, EmptySeq
    <2> QED
        BY <1>2, <2>2
<1>6. ASSUME NEW t \in Threads, Take(t)
      PROVE  Len(queue') <= Cardinality(Awake') + (IF main' = "signal" THEN 1 ELSE 0)
    <2>1. /\ Len(queue') = Len(queue) - 1 /\ main' = main
          /\ Awake' = Awake /\ Waiting # {}
        BY <1>6, TailElements DEF Take, Awake, Waiting
    <2> QED
        BY <1>1, <1>2, <2>1 DEF WakeupPerMessage
<1>7. ASSUME queue' = queue, main' = "signal" <=> main = "signal",
             Awake \subseteq Awake', Waiting # {}
      PROVE  Len(queue') <= Cardinality(Awake') + (IF main' = "signal" THEN 1 ELSE 0)
    <2>1. Cardinality(Awake) <= Cardinality(Awake')
        BY <1>2, <1>7, FS_Subset
    <2> QED
        BY <1>1, <1>2, <1>7, <2>1 DEF WakeupPerMessage
<1>8. CASE \/ \E t \in Threads : SpawnThread(t)
           \/ SpawnFails \/ CreateReturns \/ StopAll \/ Broadcast \/ UNCHANGED vars
    BY <1>7, <1>8 DEF SpawnThread, SpawnFails, CreateReturns, StopAll, Broadcast, vars,
                      Awake, Waiting
<1>9. ASSUME NEW t \in Threads,
             \/ Lock(t) \/ Check(t) \/ UnlockOnShutdown(t) \/ UnlockedFront(t)
             \/ UnlockedPopAborts(t) \/ Begin(t) \/ Finish(t) \/ DoubleFree(t)
             \/ SpuriousWakeup(t)
      PROVE  Len(queue') <= Cardinality(Awake') + (IF main' = "signal" THEN 1 ELSE 0)
    BY <1>7, <1>9 DEF Lock, Check, UnlockOnShutdown, UnlockedFront, UnlockedPopAborts,
                      Begin, Finish, DoubleFree, SpuriousWakeup, Awake, Waiting
<1>10. ASSUME NEW t \in Threads PROVE ~UnlockedPop(t)
    BY <1>1 DEF UnlockedPop, Locked
<1> QED
    BY <1>3, <1>4, <1>5, <1>6, <1>8, <1>9, <1>10 DEF Next, MainStep, ThreadStep

\* Elements without repetition: as many as there are places.
LEMMA ApartCardinality ==
    ASSUME TypeOK, Apart
    PROVE  Cardinality(Queued) = Len(queue) /\ Cardinality(Held) = Cardinality(InHand)
<1> USE PoolAssumption DEF TypeOK, Apart
<1>1. Cardinality(Queued) = Len(queue)
    <2> DEFINE f == [i \in 1..Len(queue) |-> queue[i]]
    <2>1. Len(queue) \in Nat
        OBVIOUS
    <2>2. f \in Bijection(1..Len(queue), Queued)
        BY DEF Queued, Bijection, Injection, Surjection, IsInjective
    <2>3. ExistsBijection(1..Len(queue), Queued)
        BY <2>2 DEF ExistsBijection
    <2>4. IsFiniteSet(1..Len(queue)) /\ Cardinality(1..Len(queue)) = Len(queue)
        <3>1. PICK n \in Nat : n = Len(queue)
            BY <2>1
        <3>2. /\ IsFiniteSet(1..n)
              /\ Cardinality(1..n) = IF 1 > n THEN 0 ELSE n - 1 + 1
            BY FS_Interval
        <3> QED
            BY <3>1, <3>2
    <2> QED
        BY <2>3, <2>4, FS_Bijection
<1>2. Cardinality(Held) = Cardinality(InHand)
    <2> DEFINE f == [t \in InHand |-> jobbuf[t]]
    <2>1. f \in Bijection(InHand, Held)
        BY DEF Held, Bijection, Injection, Surjection, IsInjective
    <2>2. ExistsBijection(InHand, Held)
        BY <2>1 DEF ExistsBijection
    <2>3. IsFiniteSet(InHand)
        BY FS_Subset DEF InHand
    <2> QED
        BY <2>2, <2>3, FS_Bijection
<1> QED
    BY <1>1, <1>2

-----------------------------------------------------------------------------
(* Theorems.                                                               *)

\* The inductive invariant, with the count that rests on it: in every reachable state
\* the two counters agree with what they count, and before StopAll the mutex is where
\* ThreadFunc has it, the branch a thread takes matches the list, the messages are
\* apart, and there is a thread awake per message.
THEOREM Inductive == Spec => [](IInv /\ WakeupPerMessage)
<1>1. Init => IInv /\ WakeupPerMessage
    <2>1. Init => Waiting = {}
        BY DEF Init, Waiting
    <2> QED
        BY <2>1, InitIInv DEF WakeupPerMessage
<1>2. IInv /\ WakeupPerMessage /\ [Next]_vars => (IInv /\ WakeupPerMessage)'
    BY StepIInv, StepWakeup
<1> QED
    BY <1>1, <1>2, PTL DEF Spec

\* Every variable of the pool stays within its type, whatever pointers are posted, NULL
\* included, and StopAll or not: m_iRunningThreadNum stays between zero and the number
\* of threads, m_iRecvMsgQueueCount never goes below zero.
THEOREM TypeCorrect == Spec => []TypeOK
<1>1. IInv => TypeOK
    BY DEF IInv
<1> QED
    BY <1>1, Inductive, PTL

\* Until StopAll, only the owner of m_pthreadMutex is between lock and unlock in
\* ThreadFunc, and m_iRunningThreadNum counts the threads at work.
THEOREM MutexHeldByOne == Spec => []LockDiscipline
<1>1. IInv => LockDiscipline
    BY DEF IInv, Counts, Locked, Busy, LockDiscipline
<1> QED
    BY <1>1, Inductive, PTL

\* Until StopAll, ThreadFunc never takes the front of an empty m_MsgRecvQueue, and
\* never goes to sleep with a message in it.
THEOREM NoFrontOfEmpty == Spec => []ListMatchesBranch
<1>1. IInv => ListMatchesBranch
    BY DEF IInv, Branch, ListMatchesBranch
<1> QED
    BY <1>1, Inductive, PTL

\* Until StopAll, each message posted is in the list, in the hands of one thread, or
\* freed once, and m_iRecvMsgQueueCount is the length of the list.
THEOREM OneTakerPerMessage == Spec => []EachMessageOnce
<1>1. IInv => EachMessageOnce
    <2> SUFFICES ASSUME IInv, ~shutdown PROVE EachMessageOnce
        BY DEF EachMessageOnce
    <2>1. Cardinality(Queued) = Len(queue) /\ Cardinality(Held) = Cardinality(InHand)
        BY ApartCardinality DEF IInv
    <2>2. Queued \cap Held = {} /\ Queued \cap freed = {} /\ Held \cap freed = {}
        BY DEF IInv, Apart, Queued, Held
    <2> QED
        BY <2>1, <2>2 DEF IInv, Counts, Apart, EachMessageOnce
<1> QED
    BY <1>1, Inductive, PTL

\* Until StopAll, no wake-up is lost, although inMsgRecvQueueAndSignal signals after
\* it has released the mutex: with a thread asleep there is one awake per message.
THEOREM NoLostWakeup == Spec => []WakeupPerMessage
BY Inductive, PTL

-----------------------------------------------------------------------------
(* The refinement.                                                         *)

\* Until StopAll a thread begins and finishes a message as JobQueue says, and every
\* other step leaves the list, the messages in hand and the freed ones alone.
LEMMA StepJobQueue == IInv /\ [Next]_vars => [JobQueue!Next]_(JobQueue!vars)
<1> SUFFICES ASSUME IInv, [Next]_vars PROVE [JobQueue!Next]_(JobQueue!vars)
    OBVIOUS
<1> USE PoolAssumption DEF IInv, TypeOK
<1>1. CASE shutdown
    <2>1. shutdown'
        BY <1>1 DEF Next, MainStep, ThreadStep, SpawnThread, SpawnFails, CreateReturns,
                    Enqueue, Call, StopAll, Broadcast, Lock, Check, CondWait, Take,
                    UnlockOnShutdown, UnlockedFront, UnlockedPop, UnlockedPopAborts,
                    Begin, Finish, DoubleFree, SpuriousWakeup, vars
    <2> QED
        BY <1>1, <2>1 DEF JobQueue!Next, JobQueue!Unspecified
<1>2. CASE ~shutdown
    <2>1. ASSUME NEW b \in Bufs, Enqueue(b) PROVE JobQueue!Post
        <3>1. b \notin JobQueue!Known
            BY <1>2, <2>1 DEF Enqueue, Apart, Queued, JobQueue!Known
        <3>2. Held' = Held
            BY <2>1 DEF Enqueue, Held, InHand
        <3> QED
            BY <2>1, <3>1, <3>2 DEF Enqueue, JobQueue!Post
    <2>2. ASSUME NEW t \in Threads, Take(t) PROVE JobQueue!Begin
        <3>1. InHand' = InHand \cup {t} /\ t \notin InHand
            BY <2>2 DEF Take, InHand
        <3>2. jobbuf'[t] = Head(queue) /\ \A u \in InHand : jobbuf'[u] = jobbuf[u]
            BY <2>2, <3>1 DEF Take, InHand
        <3>3. Held' = Held \cup {Head(queue)}
            BY <3>1, <3>2 DEF Held
        <3> QED
            BY <2>2, <3>3 DEF Take, JobQueue!Begin
    <2>3. ASSUME NEW t \in Threads, Finish(t) PROVE JobQueue!Finish
        <3>1. t \in InHand /\ InHand' = InHand \ {t}
            BY <2>3 DEF Finish, InHand
        <3>2. \A u \in InHand' : jobbuf'[u] = jobbuf[u] /\ u # t /\ u \in InHand
            BY <2>3, <3>1 DEF Finish, InHand
        <3>3. jobbuf[t] \in Held /\ jobbuf[t] \in Bufs
            BY <1>2, <3>1 DEF Held, Apart
        <3>4. Held' = Held \ {jobbuf[t]}
            BY <1>2, <3>1, <3>2 DEF Held, Apart
        <3>5. freed' = freed \cup {jobbuf[t]}
            BY <2>3, <3>3 DEF Finish
        <3> QED
            BY <1>2, <2>3, <3>3, <3>4, <3>5 DEF Finish, JobQueue!Finish
    <2>4. CASE StopAll
        <3>1. Held' = Held
            BY <2>4 DEF StopAll, Held, InHand
        <3> QED
            BY <1>2, <2>4, <3>1 DEF StopAll, JobQueue!Next, JobQueue!Stop
    <2>5. ASSUME NEW t \in Threads
          PROVE  ~UnlockOnShutdown(t) /\ ~UnlockedFront(t) /\ ~UnlockedPop(t)
        BY <1>2 DEF Locked, UnlockOnShutdown, UnlockedFront, UnlockedPop
    <2>6. CASE \/ \E t \in Threads : SpawnThread(t)
               \/ SpawnFails \/ CreateReturns \/ Call \/ Broadcast \/ UNCHANGED vars
        <3>1. UNCHANGED <<shutdown, queue, freed>> /\ UNCHANGED jobbuf /\ InHand' = InHand
            BY <2>6 DEF SpawnThread, SpawnFails, CreateReturns, Call, Waiting, Broadcast,
                        vars, InHand
        <3> QED
            BY <3>1 DEF JobQueue!vars, Held
    <2>7. ASSUME NEW t \in Threads,
                 \/ Lock(t) \/ Check(t) \/ CondWait(t) \/ SpuriousWakeup(t)
                 \/ UnlockedPopAborts(t) \/ Begin(t) \/ DoubleFree(t)
          PROVE  UNCHANGED JobQueue!vars
        <3>1. UNCHANGED <<shutdown, queue, freed>> /\ UNCHANGED jobbuf /\ InHand' = InHand
            BY <2>7 DEF Lock, Check, CondWait, SpuriousWakeup, UnlockedPopAborts, Begin,
                        DoubleFree, InHand
        <3> QED
            BY <3>1 DEF JobQueue!vars, Held
    <2> QED
        BY <2>1, <2>2, <2>3, <2>4, <2>5, <2>6, <2>7
           DEF Next, MainStep, ThreadStep, JobQueue!Next
<1> QED
    BY <1>1, <1>2

\* The thread pool implements the queue of jobs its callers rely on: every message
\* handed to inMsgRecvQueueAndSignal is begun in its turn, by one thread, and freed
\* once, whatever the threads' interleaving, until StopAll.
THEOREM ImplementsQueue == Spec => ImplementsJobQueue
<1>1. Init => JobQueue!Init
    BY DEF Init, JobQueue!Init, Held, InHand
<1> QED
    BY <1>1, Inductive, StepJobQueue, PTL DEF Spec, JobQueue!Spec, ImplementsJobQueue
=============================================================================
