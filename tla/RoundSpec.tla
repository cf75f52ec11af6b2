------------------------------ MODULE RoundSpec ------------------------------
(***************************************************************************)
(* What get_batch promises an FFN server: its n-th call returns the n-th   *)
(* request of every worker.                                                *)
(***************************************************************************)
EXTENDS Naturals

CONSTANTS Workers

VARIABLES arrived,      \* arrived[w]: requests of worker w so far
          rounds,       \* calls of get_batch that have returned
          batch         \* what the last one returned, a request <<w, n>> per
                        \* worker w

Init ==
    /\ arrived = [w \in Workers |-> 0]
    /\ rounds = 0
    /\ batch = [w \in Workers |-> <<w, 0>>]

Arrive(w) ==
    /\ arrived' = [arrived EXCEPT ![w] = @ + 1]
    /\ UNCHANGED <<rounds, batch>>

GetBatch ==
    /\ \A w \in Workers : arrived[w] > rounds
    /\ rounds' = rounds + 1
    /\ batch' = [w \in Workers |-> <<w, rounds + 1>>]
    /\ UNCHANGED arrived

Next == (\E w \in Workers : Arrive(w)) \/ GetBatch

Spec == Init /\ [][Next]_<<arrived, rounds, batch>>

=============================================================================
