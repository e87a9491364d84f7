------------------------------- MODULE JobQueue -------------------------------
(***************************************************************************)
(* What the thread pool promises to the event loop: the messages it posts  *)
(* are begun in the order they were posted, each by one thread, and each   *)
(* is freed once, by the thread that began it.  Several may be in hand at  *)
(* once and are finished in any order.  The promise ends when the pool is  *)
(* told to stop.                                                           *)
(*                                                                         *)
(* ThreadPool implements this module (ThreadPool!ImplementsJobQueue).      *)
(***************************************************************************)
EXTENDS Naturals, Sequences

CONSTANT Jobs

VARIABLES
    open,       \* nobody has called StopAll
    waiting,    \* the jobs nobody has begun, in the order of their posting
    inHand,     \* the jobs begun and not finished
    done        \* the jobs finished

vars == <<open, waiting, inHand, done>>

Init == open = TRUE /\ waiting = <<>> /\ inHand = {} /\ done = {}

Known == {waiting[i] : i \in 1..Len(waiting)} \cup inHand \cup done

Post ==
    /\ open
    /\ \E j \in Jobs \ Known : waiting' = Append(waiting, j)
    /\ UNCHANGED <<open, inHand, done>>

Begin ==
    /\ open /\ waiting # <<>>
    /\ waiting' = Tail(waiting)
    /\ inHand' = inHand \cup {Head(waiting)}
    /\ UNCHANGED <<open, done>>

Finish ==
    /\ open
    /\ \E j \in inHand : inHand' = inHand \ {j} /\ done' = done \cup {j}
    /\ UNCHANGED <<open, waiting>>

Stop == open /\ ~open' /\ UNCHANGED <<waiting, inHand, done>>

\* Once stopped the pool may do anything but start again.
Unspecified == ~open /\ ~open'

Next == Post \/ Begin \/ Finish \/ Stop \/ Unspecified

Spec == Init /\ [][Next]_vars
=============================================================================
