---------------------------- MODULE MCAFTensorApp ----------------------------
(* AFTensorApp for small calls: a push and a pull, a push, and, with one   *)
(* server, a pull.                                                         *)
EXTENDS AFTensorApp

MCShapes == {<<1, 1>>, <<1, 0>>, <<0, 1>>}
MCMaxRequests == <<4, 2>>
MCMaxCalls == [kv |-> 3, af |-> 2]
=============================================================================
