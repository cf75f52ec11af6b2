------------------------------ MODULE MCRDMAVan ------------------------------
(* Instances of RDMAVan.                                                   *)
EXTENDS RDMAVan

Program(m, r, n, l, ts, msgs, ctrls) ==
    [mode |-> m, role |-> r, qp_num |-> n, lag |-> l, tensors |-> ts,
     messages |-> msgs, controls |-> ctrls]

(* Every mode and role, whole tensors.  A worker that copies through the   *)
(* host pushes its key from either of two tensors.                         *)
Whole == {Program("host", "worker", n, FALSE, 1 :> {1, 2}, 2, 1) : n \in {1, 2}}
           \union {Program("host", "server", n, FALSE, 1 :> {1}, 2, 1) : n \in {1, 2}}
           \union {Program("gdr", "worker", n, FALSE, 1 :> {1}, 2, 1) : n \in {1, 2}}
           \union {Program("ipc", r, n, FALSE, 1 :> {1}, 2, 1) :
                      r \in {"worker", "server"}, n \in {1, 2}}

(* Tensors in halves; with two keys and three messages a first message and *)
(* a later one are sent at once.                                           *)
InHalves == {Program("host", "worker", 2, TRUE, 1 :> {1} @@ 2 :> {2}, 3, 0),
             Program("host", "server", 2, TRUE, 1 :> {1}, 2, 0),
             Program("gdr", "worker", 2, TRUE, 1 :> {1}, 2, 0)}

WholeAndHalves == Whole \union InHalves
=============================================================================
