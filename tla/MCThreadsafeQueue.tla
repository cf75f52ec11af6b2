-------------------------- MODULE MCThreadsafeQueue --------------------------
(***************************************************************************)
(* A ThreadsafeQueue as its constructor makes it: the ring or the queue    *)
(* under a mutex, after STEPAF_BUSY_POLL_ENABLE.                           *)
(***************************************************************************)
EXTENDS ThreadsafeQueue, LockedQueue

VARIABLE lockless       \* lockless_

vars == <<queueVars, lockedVars, lockless>>

Init == QueueInit /\ LockedInit /\ lockless \in BOOLEAN

Ring(A) == lockless /\ A /\ UNCHANGED <<lockedVars, lockless>>
Locked(A) == ~lockless /\ A /\ UNCHANGED <<queueVars, lockless>>

Next == Ring(QueueNext) \/ Locked(LockedNext)

(***************************************************************************)
(* A thread in Push finishes it, and the threads that pop keep running;    *)
(* nobody wakes up without being notified.                                 *)
(***************************************************************************)
Fairness ==
    /\ \A p \in Producers : WF_vars(Ring(PushStep(p)))
    /\ \A c \in Consumers : WF_vars(Ring(PopProgress(c)))
    /\ \A p \in Pushers : WF_vars(Locked(NotifyAll(p)))
    /\ \A c \in Poppers : WF_vars(Locked(WaitAndPopLocked(c)))

Spec == Init /\ [][Next]_vars /\ Fairness

=============================================================================
