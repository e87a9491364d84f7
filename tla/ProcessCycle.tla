---------------------------- MODULE ProcessCycle ----------------------------
(***************************************************************************)
(* The master process, its workers and their signals                       *)
(* (proc/zhy_process_cycle.cpp, signal/zhy_signal.cpp): handlers are       *)
(* registered, the master blocks its signals, forks the workers and then   *)
(* waits for signals for ever; each worker marks itself as one, unblocks   *)
(* and sets itself up.                                                     *)
(*                                                                         *)
(* Three signals stand for all: HUP for the first of the table, TERM for   *)
(* those whose default action ends a process, CHLD for those that are      *)
(* ignored by default.  A signal is pending once at most, and a blocked    *)
(* one stays pending, as POSIX has it.                                     *)
(***************************************************************************)
EXTENDS Integers, Sequences

CONSTANTS
    Workers,    \* the WorkerProcesses children
    Master,     \* the master process
    MaxSent     \* bound on the signals sent from outside

ASSUME CycleAssumption ==
    /\ Master \notin Workers
    /\ MaxSent \in Nat

Procs == Workers \cup {Master}

\* The table signals[].
Table == <<"HUP", "TERM", "CHLD">>
Signals == {Table[i] : i \in 1..Len(Table)}

VARIABLES
    master,     \* where the master is
    phase,      \* where each worker is
    kind,       \* zhy_process, in each process
    registered, \* the signals that have zhy_signal_handler (inherited by fork)
    blocked,    \* the ten signals are in the process's mask
    pending,    \* the signals that wait to be delivered
    byProcess,  \* of those, the ones another process has sent: siginfo->si_pid is not 0
    ran,        \* history: the handler ran in a process, with this zhy_process
    sent        \* history: the number of signals sent from outside

cycle == <<master, phase, kind, registered, blocked, pending, byProcess, ran, sent>>

Kinds == {"master", "worker"}

\* What the variables hold: among it that handlers are registered for signals only
\* (the table ends with an entry of number 0).
TypeOK ==
    /\ master \in {"start", "block", "spawn", "suspend", "sleep", "killed"}
    /\ phase \in [Workers -> {"none", "failed", "forked", "marked", "setup", "loop",
                              "zombie"}]
    /\ kind \in [Procs -> Kinds]
    /\ registered \subseteq Signals
    /\ blocked \in [Procs -> BOOLEAN]
    /\ pending \in [Procs -> SUBSET Signals]
    /\ byProcess \in [Procs -> SUBSET Signals]
    /\ \A p \in Procs : byProcess[p] \subseteq pending[p]
    /\ ran \subseteq Procs \X Kinds
    /\ sent \in 0..MaxSent

InitCycle ==
    /\ master = "start"
    /\ phase = [w \in Workers |-> "none"]
    /\ kind = [p \in Procs |-> "master"]
    /\ registered = {}
    /\ blocked = [p \in Procs |-> FALSE]
    /\ pending = [p \in Procs |-> {}]
    /\ byProcess = [p \in Procs |-> {}]
    /\ ran = {}
    /\ sent = 0

Alive(p) == IF p = Master THEN master # "killed"
            ELSE phase[p] \notin {"none", "failed", "zombie"}

-----------------------------------------------------------------------------
(* The master.                                                             *)

\* return 0 stands inside the loop over the table: one turn, one signal.
zhy_init_signals ==
    /\ master = "start"
    /\ registered' = {Table[1]}
    /\ master' = "block"
    /\ UNCHANGED <<phase, kind, blocked, pending, byProcess, ran, sent>>

\* A mutant of MasterBlocks: SIG_UNBLOCK in place of SIG_BLOCK.
MasterBlocksNot ==
    /\ master = "block"
    /\ master' = "spawn"
    /\ UNCHANGED <<phase, kind, registered, blocked, pending, byProcess, ran, sent>>

\* zhy_master_process_cycle begins: sigprocmask(SIG_BLOCK).
MasterBlocks ==
    /\ master = "block"
    /\ blocked' = [blocked EXCEPT ![Master] = TRUE]
    /\ master' = "spawn"
    /\ UNCHANGED <<phase, kind, registered, pending, byProcess, ran, sent>>

\* fork succeeds: the child has the master's mask and zhy_process, and no signal
\* pending.
Fork(w) ==
    /\ master = "spawn" /\ phase[w] = "none"
    /\ phase' = [phase EXCEPT ![w] = "forked"]
    /\ kind' = [kind EXCEPT ![w] = kind[Master]]
    /\ blocked' = [blocked EXCEPT ![w] = blocked[Master]]
    /\ UNCHANGED <<master, registered, pending, byProcess, ran, sent>>

\* fork fails: it is logged, and the loop goes on.
ForkFails(w) ==
    /\ master = "spawn" /\ phase[w] = "none"
    /\ phase' = [phase EXCEPT ![w] = "failed"]
    /\ UNCHANGED <<master, kind, registered, blocked, pending, byProcess, ran, sent>>

\* A mutant of MasterSuspends: the old mask is handed to sigsuspend.
MasterSuspendsMasked ==
    /\ \/ master = "spawn" /\ \A w \in Workers : phase[w] # "none"
       \/ master = "sleep"
    /\ master' = "suspend"
    /\ UNCHANGED <<phase, kind, registered, blocked, pending, byProcess, ran, sent>>

\* All workers were forked, or sleep(1) is over: sigsuspend with the empty mask.
MasterSuspends ==
    /\ \/ master = "spawn" /\ \A w \in Workers : phase[w] # "none"
       \/ master = "sleep"
    /\ blocked' = [blocked EXCEPT ![Master] = FALSE]
    /\ master' = "suspend"
    /\ UNCHANGED <<phase, kind, registered, pending, byProcess, ran, sent>>

-----------------------------------------------------------------------------
(* A worker.                                                               *)

\* zhy_process = ZHY_PROCESS_WORKER.
WorkerMarks(w) ==
    /\ phase[w] = "forked"
    /\ kind' = [kind EXCEPT ![w] = "worker"]
    /\ phase' = [phase EXCEPT ![w] = "marked"]
    /\ UNCHANGED <<master, registered, blocked, pending, byProcess, ran, sent>>

\* A mutant of WorkerUnblocks: the mask of the master stays.
WorkerUnblocksNot(w) ==
    /\ phase[w] = "marked"
    /\ phase' = [phase EXCEPT ![w] = "setup"]
    /\ UNCHANGED <<master, kind, registered, blocked, pending, byProcess, ran, sent>>

\* zhy_worker_process_init begins: sigprocmask with the empty set.
WorkerUnblocks(w) ==
    /\ phase[w] = "marked"
    /\ blocked' = [blocked EXCEPT ![w] = FALSE]
    /\ phase' = [phase EXCEPT ![w] = "setup"]
    /\ UNCHANGED <<master, kind, registered, pending, byProcess, ran, sent>>

\* The thread pool, the socket threads and epoll are there.
WorkerStarts(w) ==
    /\ phase[w] = "setup"
    /\ phase' = [phase EXCEPT ![w] = "loop"]
    /\ UNCHANGED <<master, kind, registered, blocked, pending, byProcess, ran, sent>>

\* The end of a process is reported to the master, if there is one.
Dies(w) ==
    /\ phase' = [phase EXCEPT ![w] = "zombie"]
    /\ LET Report(set) == [set EXCEPT ![w] = {},
                              ![Master] = IF Alive(Master) THEN @ \cup {"CHLD"} ELSE @] IN
       pending' = Report(pending) /\ byProcess' = Report(byProcess)

\* A signal ends the process.
EndsBySignal(p) ==
    IF p = Master
    THEN /\ master' = "killed"
         /\ pending' = [pending EXCEPT ![Master] = {}]
         /\ byProcess' = [byProcess EXCEPT ![Master] = {}]
         /\ UNCHANGED phase
    ELSE Dies(p) /\ UNCHANGED master

\* One of them cannot be set up: exit(-2) or exit(2).  A worker in its loop only
\* ends by a signal.
WorkerExits(w) ==
    /\ phase[w] = "setup"
    /\ Dies(w)
    /\ UNCHANGED <<master, kind, registered, blocked, ran, sent>>

-----------------------------------------------------------------------------
(* Signals.                                                                *)

\* A signal from another process, or from the kernel (a terminal that hangs up).
Send(p, s) ==
    /\ sent < MaxSent /\ Alive(p) /\ s # "CHLD"
    /\ pending' = [pending EXCEPT ![p] = @ \cup {s}]
    /\ \/ s \notin pending[p] /\ byProcess' = [byProcess EXCEPT ![p] = @ \cup {s}]
       \/ UNCHANGED byProcess
    /\ sent' = sent + 1
    /\ UNCHANGED <<master, phase, kind, registered, blocked, ran>>

Delivered(p, s) == Alive(p) /\ ~blocked[p] /\ s \in pending[p]
Ran(p) == ran' = ran \cup {<<p, kind[p]>>}

\* zhy_signal_handler runs and logs the signal.  In sigsuspend its return ends the wait:
\* the old mask is back, and the master sleeps for a second.
zhy_signal_handler(p, s) ==
    /\ Delivered(p, s) /\ s \in registered /\ s \notin byProcess[p]
    /\ pending' = [pending EXCEPT ![p] = @ \ {s}]
    /\ Ran(p)
    /\ IF p = Master /\ master = "suspend"
       THEN master' = "sleep" /\ blocked' = [blocked EXCEPT ![Master] = TRUE]
       ELSE UNCHANGED <<master, blocked>>
    /\ UNCHANGED <<phase, kind, registered, byProcess, sent>>

\* With a sender to log the format is "... from %P%s": zhy_vslprintf does not know %P and
\* takes no argument for it, so that %s takes the number of the sending process for the
\* address of a string.  Nothing is mapped there: SIGSEGV.
HandlerFaults(p, s) ==
    /\ Delivered(p, s) /\ s \in registered /\ s \in byProcess[p]
    /\ Ran(p)
    /\ EndsBySignal(p)
    /\ UNCHANGED <<kind, registered, blocked, sent>>

\* The default action of a signal nobody registered: the end of the process ...
DefaultEnds(p, s) ==
    /\ Delivered(p, s) /\ s \notin registered /\ s # "CHLD"
    /\ EndsBySignal(p)
    /\ UNCHANGED <<kind, registered, blocked, ran, sent>>

\* ... or nothing.  A child that ended stays a zombie, and sigsuspend goes on.
DefaultIgnores(p) ==
    /\ Delivered(p, "CHLD") /\ "CHLD" \notin registered
    /\ pending' = [pending EXCEPT ![p] = @ \ {"CHLD"}]
    /\ byProcess' = [byProcess EXCEPT ![p] = @ \ {"CHLD"}]
    /\ UNCHANGED <<master, phase, kind, registered, blocked, ran, sent>>

-----------------------------------------------------------------------------
NextCycle ==
    \/ zhy_init_signals
    \/ MasterBlocks
    \/ \E w \in Workers : Fork(w)
    \/ \E w \in Workers : ForkFails(w)
    \/ MasterSuspends
    \/ \E w \in Workers : WorkerMarks(w)
    \/ \E w \in Workers : WorkerUnblocks(w)
    \/ \E w \in Workers : WorkerStarts(w)
    \/ \E w \in Workers : WorkerExits(w)
    \/ \E p \in Procs, s \in Signals : Send(p, s)
    \/ \E p \in Procs, s \in Signals : zhy_signal_handler(p, s)
    \/ \E p \in Procs, s \in Signals : HandlerFaults(p, s)
    \/ \E p \in Procs, s \in Signals : DefaultEnds(p, s)
    \/ \E p \in Procs : DefaultIgnores(p)

\* Each process runs until it has set itself up or waits, and the kernel delivers
\* what is pending and not blocked.
Fairness ==
    /\ WF_cycle(zhy_init_signals) /\ WF_cycle(MasterBlocks) /\ WF_cycle(MasterSuspends)
    /\ \A w \in Workers :
          /\ WF_cycle(Fork(w) \/ ForkFails(w))
          /\ WF_cycle(WorkerMarks(w)) /\ WF_cycle(WorkerUnblocks(w))
    /\ \A p \in Procs, s \in Signals :
          WF_cycle(zhy_signal_handler(p, s) \/ HandlerFaults(p, s) \/ DefaultEnds(p, s))

CycleSpec == InitCycle /\ [][NextCycle]_cycle /\ Fairness

-----------------------------------------------------------------------------
(* Properties.                                                             *)

\* The handler takes each process for what it is: the copy of zhy_process a child has
\* from its parent is corrected before the first signal gets through.
HandlerKnowsProcess ==
    \A r \in ran : r[2] = (IF r[1] = Master THEN "master" ELSE "worker")

\* The processes, their masks and what was delivered fit together.
ProcessesConsistent == TypeOK /\ HandlerKnowsProcess

\* A signal sent to the master is acted on, though it may come while it forks, inside
\* the sleep that follows a signal, or between that and sigsuspend.
MasterNotices ==
    \A s \in {"HUP", "TERM"} :
        (s \in pending[Master]) ~> (s \notin pending[Master])

\* A worker can be told to stop at any time after its birth.
WorkerNotices ==
    \A w \in Workers :
        (Alive(w) /\ "TERM" \in pending[w]) ~> (phase[w] = "zombie")

\* "When a signal comes ... the handler runs, and when it is done sigsuspend returns and
\* execution goes on" (zhy_process_cycle.cpp:66): only a signal without a handler ends
\* the master that waits.
SuspendReturns ==
    [][(master = "suspend" /\ master' = "killed") =>
           \E s \in pending[Master] : s \notin registered]_cycle
=============================================================================
