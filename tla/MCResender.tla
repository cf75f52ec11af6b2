------------------------------ MODULE MCResender ------------------------------
(* Instances of Resender: the scheduler 1, the server 8, workers 9, 265.   *)
EXTENDS Resender

FromTo(n, r, t) == [sender |-> n, recver |-> r, customer |-> 0, ts |-> t]

(* The scheduler sends to a server, and a worker twice.                    *)
ThreeMessages == {FromTo(1, 8, 0), FromTo(9, 8, 0), FromTo(9, 8, 1)}

OneMessage == {FromTo(9, 1, 0)}

TwoWorkersMessages == {FromTo(9, 1, 0), FromTo(265, 1, 0)}

TwoCustomersMessages == {[FromTo(9, 8, 0) EXCEPT !.customer = c] : c \in {0, 1}}
=============================================================================
