----------------------------- MODULE ThreadPool -----------------------------
(***************************************************************************)
(* CThreadPool (misc/zhy_threadpool.cpp): the worker threads of a worker   *)
(* process, the list of received messages they consume, and the mutex and  *)
(* condition variable between them and the event-loop thread.              *)
(*                                                                         *)
(* The event-loop thread ("main") runs Create, then posts messages with    *)
(* inMsgRecvQueueAndSignal, and may call StopAll.  Each thread runs        *)
(* ThreadFunc.  One action is one stretch of code between two points where *)
(* another thread can interfere: a lock acquisition, the call of           *)
(* pthread_cond_wait, an access outside the lock.                          *)
(***************************************************************************)
EXTENDS Integers, Sequences, FiniteSets

CONSTANTS
    Threads,    \* the threads Create(threadNum) makes
    Bufs,       \* the messages main posts, one for each call of inMsgRecvQueueAndSignal
    Nulls,      \* those of them whose pointer is NULL
    NoBuf,      \* a thread's jobbuf before it has taken one
    Free        \* the owner of the mutex when nobody holds it

ASSUME PoolAssumption ==
    /\ IsFiniteSet(Threads)
    /\ Threads # {}
    /\ Nulls \subseteq Bufs
    /\ NoBuf \notin Bufs
    /\ Free \notin Threads

VARIABLES
    process,    \* "up", "exited" (exit(-2)) or "aborted" (undefined behaviour ended it)
    main,       \* where the event-loop thread is
    pc,         \* where each thread is in ThreadFunc
    mutex,      \* the owner of m_pthreadMutex
    shutdown,   \* m_shutdown
    isrunning,  \* ThreadItem::isrunning
    queue,      \* m_MsgRecvQueue
    count,      \* m_iRecvMsgQueueCount
    running,    \* m_iRunningThreadNum
    jobbuf,     \* each thread's local jobbuf
    posted,     \* history: the messages main has posted
    freed       \* history: the messages given back to CMemory

vars == <<process, main, pc, mutex, shutdown, isrunning, queue, count, running,
          jobbuf, posted, freed>>

ThreadPC == {"none", "lock", "check", "sleep", "waiting", "woken", "take",
             "front", "pop", "begin", "busy"}

\* No thread's part of the pool's state leaves its type; m_iRunningThreadNum stays
\* between zero and the number of threads, m_iRecvMsgQueueCount never goes below zero.
TypeOK ==
    /\ process \in {"up", "exited", "aborted"}
    /\ main \in {"create", "starting", "loop", "signal", "broadcast", "join"}
    /\ pc \in [Threads -> ThreadPC]
    /\ mutex \in Threads \cup {Free}
    /\ shutdown \in BOOLEAN
    /\ isrunning \in [Threads -> BOOLEAN]
    /\ queue \in Seq(Bufs)
    /\ count \in Nat
    /\ running \in 0..Cardinality(Threads)
    /\ jobbuf \in [Threads -> Bufs \cup {NoBuf}]
    /\ posted \subseteq Bufs
    /\ freed \subseteq Bufs

Init ==
    /\ process = "up"
    /\ main = "create"
    /\ pc = [t \in Threads |-> "none"]
    /\ mutex = Free
    /\ shutdown = FALSE
    /\ isrunning = [t \in Threads |-> FALSE]
    /\ queue = <<>>
    /\ count = 0
    /\ running = 0
    /\ jobbuf = [t \in Threads |-> NoBuf]
    /\ posted = {}
    /\ freed = {}

-----------------------------------------------------------------------------
(* The event-loop thread.                                                  *)

\* One turn of Create's first loop: pthread_create succeeds.
SpawnThread(t) ==
    /\ main = "create" /\ pc[t] = "none"
    /\ pc' = [pc EXCEPT ![t] = "lock"]
    /\ main' = IF \A u \in Threads \ {t} : pc[u] # "none" THEN "starting" ELSE main
    /\ UNCHANGED <<process, mutex, shutdown, isrunning, queue, count, running,
                   jobbuf, posted, freed>>

\* pthread_create fails: Create returns false and the worker process exits.
SpawnFails ==
    /\ main = "create"
    /\ process' = "exited"
    /\ UNCHANGED <<main, pc, mutex, shutdown, isrunning, queue, count, running,
                   jobbuf, posted, freed>>

\* Create's second loop ends when it has seen every isrunning set.
CreateReturns ==
    /\ main = "starting"
    /\ \A t \in Threads : isrunning[t]
    /\ main' = "loop"
    /\ UNCHANGED <<process, pc, mutex, shutdown, isrunning, queue, count, running,
                   jobbuf, posted, freed>>

\* inMsgRecvQueueAndSignal, the locked part: the pointer enters the list.  It is not
\* looked at: CSocket posts NULL for a packet whose header came in two parts.  Each
\* NULL is a posting of its own here, under a name that tells it from the others.
Enqueue(b) ==
    /\ main = "loop" /\ ~shutdown
    /\ b \notin posted
    /\ mutex = Free
    /\ queue' = Append(queue, b)
    /\ count' = count + 1
    /\ posted' = posted \cup {b}
    /\ main' = "signal"
    /\ UNCHANGED <<process, pc, mutex, shutdown, isrunning, running, jobbuf, freed>>

Waiting == {t \in Threads : pc[t] = "waiting"}

\* A mutant of Call: signal only when the list was empty before this message.
CallIfFirst ==
    /\ main = "signal"
    /\ main' = "loop"
    /\ IF Waiting = {} \/ Len(queue) > 1
       THEN UNCHANGED pc
       ELSE \E t \in Waiting : pc' = [pc EXCEPT ![t] = "woken"]
    /\ UNCHANGED <<process, mutex, shutdown, isrunning, queue, count, running,
                   jobbuf, posted, freed>>

\* A mutant of Call: no signal.
CallSilent ==
    /\ main = "signal"
    /\ main' = "loop"
    /\ UNCHANGED <<process, pc, mutex, shutdown, isrunning, queue, count, running,
                   jobbuf, posted, freed>>

\* Call, after the unlock: pthread_cond_signal wakes one sleeper, if there is one.
Call ==
    /\ main = "signal"
    /\ main' = "loop"
    /\ IF Waiting = {}
       THEN UNCHANGED pc
       ELSE \E t \in Waiting : pc' = [pc EXCEPT ![t] = "woken"]
    /\ UNCHANGED <<process, mutex, shutdown, isrunning, queue, count, running,
                   jobbuf, posted, freed>>

\* StopAll sets m_shutdown without taking the mutex ...
StopAll ==
    /\ main = "loop" /\ ~shutdown
    /\ shutdown' = TRUE
    /\ main' = "broadcast"
    /\ UNCHANGED <<process, pc, mutex, isrunning, queue, count, running, jobbuf,
                   posted, freed>>

\* ... then wakes every sleeper, and joins the threads.  pthread_join returns
\* for a thread that has ended: ThreadFunc's while(true) has no way out, so the
\* program never gets further than this.
Broadcast ==
    /\ main = "broadcast"
    /\ main' = "join"
    /\ pc' = [t \in Threads |-> IF pc[t] = "waiting" THEN "woken" ELSE pc[t]]
    /\ UNCHANGED <<process, mutex, shutdown, isrunning, queue, count, running,
                   jobbuf, posted, freed>>

-----------------------------------------------------------------------------
(* ThreadFunc.                                                             *)

\* A mutant of Lock: a thread that wakes up does not look at the list again.
LockNoRecheck(t) ==
    /\ pc[t] \in {"lock", "woken"}
    /\ mutex = Free
    /\ mutex' = t
    /\ pc' = [pc EXCEPT ![t] = IF @ = "woken" THEN "take" ELSE "check"]
    /\ UNCHANGED <<process, main, shutdown, isrunning, queue, count, running,
                   jobbuf, posted, freed>>

\* pthread_mutex_lock at the head of the loop, or pthread_cond_wait getting the
\* mutex back: either way the thread evaluates the while condition next.
Lock(t) ==
    /\ pc[t] \in {"lock", "woken"}
    /\ mutex = Free
    /\ mutex' = t
    /\ pc' = [pc EXCEPT ![t] = "check"]
    /\ UNCHANGED <<process, main, shutdown, isrunning, queue, count, running,
                   jobbuf, posted, freed>>

\* A mutant of Check: isrunning is never set.
CheckSilent(t) ==
    /\ pc[t] = "check"
    /\ pc' = [pc EXCEPT ![t] = IF queue = <<>> /\ ~shutdown THEN "sleep" ELSE "take"]
    /\ UNCHANGED <<process, main, mutex, shutdown, isrunning, queue, count, running,
                   jobbuf, posted, freed>>

\* The while condition.  The thread still holds the mutex when it goes on to
\* pthread_cond_wait, but StopAll does not need the mutex to set m_shutdown.
Check(t) ==
    /\ pc[t] = "check"
    /\ IF queue = <<>> /\ ~shutdown
       THEN /\ isrunning' = [isrunning EXCEPT ![t] = TRUE]
            /\ pc' = [pc EXCEPT ![t] = "sleep"]
       ELSE /\ pc' = [pc EXCEPT ![t] = "take"]
            /\ UNCHANGED isrunning
    /\ UNCHANGED <<process, main, mutex, shutdown, queue, count, running, jobbuf,
                   posted, freed>>

\* pthread_cond_wait releases the mutex and starts to wait in one step.
CondWait(t) ==
    /\ pc[t] = "sleep"
    /\ pc' = [pc EXCEPT ![t] = "waiting"]
    /\ mutex' = Free
    /\ UNCHANGED <<process, main, shutdown, isrunning, queue, count, running,
                   jobbuf, posted, freed>>

\* pthread_cond_wait may return without a signal.
SpuriousWakeup(t) ==
    /\ pc[t] = "waiting"
    /\ pc' = [pc EXCEPT ![t] = "woken"]
    /\ UNCHANGED <<process, main, mutex, shutdown, isrunning, queue, count, running,
                   jobbuf, posted, freed>>

\* A mutant of Take: front() without pop_front().
TakeNoPop(t) ==
    /\ pc[t] = "take" /\ ~shutdown
    /\ queue # <<>>
    /\ jobbuf' = [jobbuf EXCEPT ![t] = Head(queue)]
    /\ count' = count - 1
    /\ mutex' = Free
    /\ pc' = [pc EXCEPT ![t] = "begin"]
    /\ UNCHANGED <<process, main, shutdown, isrunning, queue, running, posted, freed>>

\* A mutant of Take: the last message is taken.
TakeBack(t) ==
    /\ pc[t] = "take" /\ ~shutdown
    /\ queue # <<>>
    /\ jobbuf' = [jobbuf EXCEPT ![t] = queue[Len(queue)]]
    /\ queue' = SubSeq(queue, 1, Len(queue) - 1)
    /\ count' = count - 1
    /\ mutex' = Free
    /\ pc' = [pc EXCEPT ![t] = "begin"]
    /\ UNCHANGED <<process, main, shutdown, isrunning, running, posted, freed>>

\* The normal way out of the wait: take the first message and unlock.
Take(t) ==
    /\ pc[t] = "take" /\ ~shutdown
    /\ queue # <<>>
    /\ jobbuf' = [jobbuf EXCEPT ![t] = Head(queue)]
    /\ queue' = Tail(queue)
    /\ count' = count - 1
    /\ mutex' = Free
    /\ pc' = [pc EXCEPT ![t] = "begin"]
    /\ UNCHANGED <<process, main, shutdown, isrunning, running, posted, freed>>

\* With m_shutdown set the thread unlocks, and goes on to front() all the same.
UnlockOnShutdown(t) ==
    /\ pc[t] = "take" /\ shutdown
    /\ mutex' = Free
    /\ pc' = [pc EXCEPT ![t] = "front"]
    /\ UNCHANGED <<process, main, shutdown, isrunning, queue, count, running,
                   jobbuf, posted, freed>>

\* front() without the lock.  On an empty std::list it reads the sentinel.
UnlockedFront(t) ==
    /\ pc[t] = "front"
    /\ jobbuf' = [jobbuf EXCEPT ![t] = IF queue = <<>> THEN NoBuf ELSE Head(queue)]
    /\ pc' = [pc EXCEPT ![t] = "pop"]
    /\ UNCHANGED <<process, main, mutex, shutdown, isrunning, queue, count, running,
                   posted, freed>>

\* pop_front() and --count without the lock, then an unlock that frees the mutex
\* whoever holds it.
UnlockedPop(t) ==
    /\ pc[t] = "pop"
    /\ queue # <<>>
    /\ queue' = Tail(queue)
    /\ count' = count - 1
    /\ mutex' = Free
    /\ pc' = [pc EXCEPT ![t] = "begin"]
    /\ UNCHANGED <<process, main, shutdown, isrunning, running, jobbuf, posted, freed>>

\* pop_front() of an empty list frees the list's own sentinel, and two threads
\* inside pop_front() at once unlink one node twice: the allocator aborts.
UnlockedPopAborts(t) ==
    /\ pc[t] = "pop"
    /\ queue = <<>> \/ \E u \in Threads \ {t} : pc[u] = "pop"
    /\ process' = "aborted"
    /\ UNCHANGED <<main, pc, mutex, shutdown, isrunning, queue, count, running,
                   jobbuf, posted, freed>>

\* A mutant of Begin: m_iRunningThreadNum is not counted up.
BeginUncounted(t) ==
    /\ pc[t] = "begin"
    /\ pc' = [pc EXCEPT ![t] = "busy"]
    /\ UNCHANGED <<process, main, mutex, shutdown, isrunning, queue, count, running,
                   jobbuf, posted, freed>>

\* ++m_iRunningThreadNum.
Begin(t) ==
    /\ pc[t] = "begin"
    /\ running' = running + 1
    /\ pc' = [pc EXCEPT ![t] = "busy"]
    /\ UNCHANGED <<process, main, mutex, shutdown, isrunning, queue, count, jobbuf,
                   posted, freed>>

\* The message is freed (the call of threadRecvProcFunc is commented out), then
\* --m_iRunningThreadNum, and the loop begins again.  FreeMemory does nothing for
\* NULL, however often.
Finish(t) ==
    /\ pc[t] = "busy"
    /\ jobbuf[t] \notin freed \ Nulls
    /\ freed' = freed \cup ({jobbuf[t]} \ {NoBuf})
    /\ jobbuf' = [jobbuf EXCEPT ![t] = NoBuf]
    /\ running' = running - 1
    /\ pc' = [pc EXCEPT ![t] = "lock"]
    /\ UNCHANGED <<process, main, mutex, shutdown, isrunning, queue, count, posted>>

\* A buffer freed for the second time: the allocator aborts.
DoubleFree(t) ==
    /\ pc[t] = "busy"
    /\ jobbuf[t] \in freed \ Nulls
    /\ process' = "aborted"
    /\ UNCHANGED <<main, pc, mutex, shutdown, isrunning, queue, count, running,
                   jobbuf, posted, freed>>

-----------------------------------------------------------------------------
MainStep ==
    \/ \E t \in Threads : SpawnThread(t)
    \/ SpawnFails
    \/ CreateReturns
    \/ \E b \in Bufs : Enqueue(b)
    \/ Call
    \/ StopAll
    \/ Broadcast

ThreadStep(t) ==
    \/ Lock(t) \/ Check(t) \/ CondWait(t)
    \/ Take(t) \/ UnlockOnShutdown(t) \/ UnlockedFront(t)
    \/ UnlockedPop(t) \/ UnlockedPopAborts(t)
    \/ Begin(t) \/ Finish(t) \/ DoubleFree(t)

Next ==
    /\ process = "up"
    /\ \/ MainStep
       \/ \E t \in Threads : ThreadStep(t) \/ SpuriousWakeup(t)

\* The operating system runs every thread that can run, and main finishes a
\* call it is inside of.  Nothing makes a client send, StopAll be called, or a
\* sleeper wake up for no reason; and sleepers do not wake up for no reason for
\* ever (no fairness of the mutex itself is assumed).
Fairness ==
    /\ WF_vars(process = "up" /\ (CreateReturns \/ Call \/ Broadcast))
    /\ WF_vars(process = "up" /\ \E t \in Threads : SpawnThread(t))
    /\ \A t \in Threads : WF_vars(process = "up" /\ ThreadStep(t))
    /\ <>[][\A t \in Threads : ~SpuriousWakeup(t)]_vars

Spec == Init /\ [][Next]_vars /\ Fairness

-----------------------------------------------------------------------------
(* Properties.                                                             *)

Queued == {queue[i] : i \in 1..Len(queue)}
InHand == {t \in Threads : pc[t] \in {"begin", "busy"}}
Held == {jobbuf[t] : t \in InHand}
Awake == {t \in Threads : pc[t] \notin {"none", "waiting"}}

\* Only the owner of the mutex is between lock and unlock, and m_iRunningThreadNum
\* counts the threads at work on a message (until StopAll).
LockDiscipline ==
    ~shutdown =>
        /\ \A t \in Threads : pc[t] \in {"check", "sleep", "take"} <=> mutex = t
        /\ running = Cardinality({t \in Threads : pc[t] = "busy"})

\* Until StopAll no thread reaches front() with the list empty, whatever wakes it
\* up (a signal for a message another thread took first, or nothing at all) and
\* no thread goes to sleep with a message in the list.
ListMatchesBranch ==
    ~shutdown => \A t \in Threads :
        /\ pc[t] = "take" => queue # <<>>
        /\ pc[t] = "sleep" => queue = <<>>

\* Until StopAll every message posted is in exactly one place: once in the list, in
\* the hands of one thread, or freed; and the counter agrees with the list.
EachMessageOnce ==
    ~shutdown =>
        /\ count = Len(queue)
        /\ Cardinality(Queued) = Len(queue)
        /\ Cardinality(Held) = Cardinality(InHand)
        /\ Queued \cap Held = {} /\ Queued \cap freed = {} /\ Held \cap freed = {}
        /\ posted = Queued \cup Held \cup freed

\* While a thread sleeps there are as many threads awake as messages in the list,
\* counting the signal main is about to send: no message waits for a wake-up
\* that was lost.
WakeupPerMessage ==
    (~shutdown /\ Waiting # {}) =>
        Len(queue) <= Cardinality(Awake) + (IF main = "signal" THEN 1 ELSE 0)

\* Create returns: the flag it polls is set by every thread on its way to sleep.
CreateCompletes ==
    (main = "starting") ~> (main = "loop")

\* Every message posted is consumed, unless StopAll intervenes.
MessagesConsumed ==
    \A b \in Bufs : (b \in posted) ~> (b \in freed \/ shutdown)

\* Seen from the event loop the pool is a queue of jobs: begun in the order of their
\* posting, by one thread each, and freed once (inMsgRecvQueueAndSignal, ThreadFunc).
JobQueue == INSTANCE JobQueue WITH
    Jobs <- Bufs, open <- ~shutdown, waiting <- queue, inHand <- Held, done <- freed

ImplementsJobQueue == JobQueue!Spec
=============================================================================
