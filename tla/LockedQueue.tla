----------------------------- MODULE LockedQueue -----------------------------
(***************************************************************************)
(* ThreadsafeQueue<T> without busy polling: a std::queue under mu_, and    *)
(* cond_ for the threads that find it empty.  What happens under mu_ is    *)
(* one step; the wait and the notification are not under one lock.  Only   *)
(* the number of elements matters here.                                    *)
(***************************************************************************)
EXTENDS Naturals

CONSTANTS Pushers,      \* the threads that call Push
          Poppers,      \* the threads that call WaitAndPop
          MaxQueue      \* bound: elements pushed and not popped

VARIABLES size,         \* queue_.size()
          notifying,    \* the threads in Push that have not yet notified
          asleep        \* the threads in cond_.wait that nobody has woken

lockedVars == <<size, notifying, asleep>>

LockedInit ==
    /\ size = 0
    /\ notifying = {}
    /\ asleep = {}

(* Push, under mu_.                                                        *)
PushLocked(p) ==
    /\ p \notin notifying
    /\ size < MaxQueue
    /\ size' = size + 1
    /\ notifying' = notifying \union {p}
    /\ UNCHANGED asleep

(* Mutant of NotifyAll: the mutex-protected Push notifies nobody.          *)
NotifyNobody(p) ==
    /\ p \in notifying
    /\ notifying' = notifying \ {p}
    /\ UNCHANGED <<size, asleep>>

(* The end of Push: cond_.notify_all().                                    *)
NotifyAll(p) ==
    /\ p \in notifying
    /\ notifying' = notifying \ {p}
    /\ asleep' = {}
    /\ UNCHANGED size

(***************************************************************************)
(* WaitAndPop under mu_, when called or when woken: cond_.wait looks at    *)
(* the queue, and sleeps again or lets the element be taken.               *)
(***************************************************************************)
WaitAndPopLocked(c) ==
    /\ c \notin asleep
    /\ IF size = 0 THEN /\ asleep' = asleep \union {c}
                        /\ UNCHANGED size
                   ELSE /\ size' = size - 1
                        /\ UNCHANGED asleep
    /\ UNCHANGED notifying

(* A condition variable may wake a thread for no reason.                   *)
WakeUp(c) ==
    /\ c \in asleep
    /\ asleep' = asleep \ {c}
    /\ UNCHANGED <<size, notifying>>

LockedNext ==
    \/ \E p \in Pushers : PushLocked(p) \/ NotifyAll(p)
    \/ \E c \in Poppers : WaitAndPopLocked(c) \/ WakeUp(c)

-----------------------------------------------------------------------------
(***************************************************************************)
(* No wake-up is lost: unless the queue is empty from some time on, its    *)
(* elements keep being popped.  A thread that finds the queue empty and    *)
(* goes to sleep while another pushes and notifies must not sleep on.      *)
(***************************************************************************)
PopsGoOn == <>[](size = 0) \/ []<><<size' < size>>_size

=============================================================================
