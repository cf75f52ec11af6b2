------------------------------ MODULE BatchSpec ------------------------------
(***************************************************************************)
(* What the batching layer promises the application of a server: a batch   *)
(* that a worker sent is handed to the request handle whole, once, and not *)
(* mixed with another.                                                     *)
(***************************************************************************)
CONSTANTS Batch,        \* the batches a worker may send
          NoMeta,       \* nothing handed over yet
          MetaOf(_)     \* the AFTensorMeta that describes a batch

VARIABLES pending,      \* batches sent and not handed over yet
          handled       \* what the request handle was called with last

Init ==
    /\ pending = {}
    /\ handled = NoMeta

Send(b) ==
    /\ b \notin pending
    /\ pending' = pending \union {b}
    /\ UNCHANGED handled

Handle(b) ==
    /\ b \in pending
    /\ pending' = pending \ {b}
    /\ handled' = MetaOf(b)

Next == \E b \in Batch : Send(b) \/ Handle(b)

Spec == Init /\ [][Next]_<<pending, handled>>

=============================================================================
