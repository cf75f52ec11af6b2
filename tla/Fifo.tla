-------------------------------- MODULE Fifo --------------------------------
(***************************************************************************)
(* What include/ps/internal/threadsafe_queue.h promises its callers: a     *)
(* queue that "push[es] an value into the end" and in which a caller waits *)
(* "until pop an element from the beginning".  Push and pop each take      *)
(* effect in one step, whatever the threads that call them do meanwhile.   *)
(***************************************************************************)
EXTENDS Sequences

CONSTANTS Consumers,    \* the threads that pop
          Value,        \* what is pushed
          NoValue       \* what a consumer holds before its first pop

VARIABLES q,            \* the elements, oldest first
          got           \* got[c]: the element c's last WaitAndPop returned

Init ==
    /\ q = << >>
    /\ got = [c \in Consumers |-> NoValue]

Push(v) ==
    /\ q' = Append(q, v)
    /\ UNCHANGED got

Pop(c) ==
    /\ q # << >>
    /\ got' = [got EXCEPT ![c] = Head(q)]
    /\ q' = Tail(q)

Next ==
    \/ \E v \in Value : Push(v)
    \/ \E c \in Consumers : Pop(c)

Spec == Init /\ [][Next]_<<q, got>>

=============================================================================
