--------------------------- MODULE MCAFTensorServer ---------------------------
(***************************************************************************)
(* AFTensorServer for small calls.                                         *)
(***************************************************************************)
EXTENDS AFTensorServer

CONSTANTS k1, k2, k3

(* One server: push and pull a tensor, push two others and pull one, pull  *)
(* one.                                                                    *)
MCShapes == {<<1, 1, <<k1, k1>>>>, <<2, 1, <<k2, k3, k2>>>>, <<0, 1, <<k1>>>>}

(* One worker sends three overlapping batches, the others fewer.           *)
CONSTANT Busy, Few

Allocated == [s \in Senders |-> IF s = Busy THEN MaxTimestamp ELSE Few]

(* Two servers: pull one tensor from each, push nothing.                   *)
PullOnly == {<<0, 2, <<k1>>>>}

=============================================================================
