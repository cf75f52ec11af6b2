----------------------------- MODULE BarrierSpec -----------------------------
(***************************************************************************)
(* What a barrier promises (include/ps/internal/postoffice.h: Start blocks *)
(* "until every nodes are started", Finalize "until every node is          *)
(* finalized", DoBarrier is a "barrier for all postoffice instances or     *)
(* groups"): a node leaves its k-th use of a barrier only when every node  *)
(* that takes part has entered its own k-th use.                           *)
(***************************************************************************)
EXTENDS Integers

CONSTANTS Node,         \* the postoffice instances
          Barriers,     \* the barriers in use
          Nowhere,      \* "not in a barrier"
          Callers(_)    \* the nodes that take part in a barrier

VARIABLES at,           \* at[n]: the barrier n is blocked in, or Nowhere
          entered       \* entered[b][n]: how often n has entered b

Init ==
    /\ at = [n \in Node |-> Nowhere]
    /\ entered = [b \in Barriers |-> [n \in Node |-> 0]]

Enter(n, b) ==
    /\ at[n] = Nowhere
    /\ at' = [at EXCEPT ![n] = b]
    /\ entered' = [entered EXCEPT ![b][n] = @ + 1]

Leave(n, b) ==
    /\ at[n] = b
    /\ \A m \in Callers(b) : entered[b][n] <= entered[b][m]
    /\ at' = [at EXCEPT ![n] = Nowhere]
    /\ UNCHANGED entered

Next == \E b \in Barriers : \E n \in Callers(b) : Enter(n, b) \/ Leave(n, b)

Spec == Init /\ [][Next]_<<at, entered>>

=============================================================================
