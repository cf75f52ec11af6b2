----------------------------- MODULE DeliverySpec -----------------------------
(***************************************************************************)
(* What retransmission promises: a message that was sent is delivered at   *)
(* most once, and nothing is delivered that was not sent.                  *)
(***************************************************************************)
EXTENDS Naturals

CONSTANT Message

VARIABLES sent,      \* messages sent
          delivered  \* delivered[m]: how often m was delivered

vars == <<sent, delivered>>

Init ==
    /\ sent = {}
    /\ delivered = [m \in Message |-> 0]

Send(m) ==
    /\ m \notin sent
    /\ sent' = sent \union {m}
    /\ UNCHANGED delivered

Deliver(m) ==
    /\ m \in sent
    /\ delivered[m] = 0
    /\ delivered' = [delivered EXCEPT ![m] = 1]
    /\ UNCHANGED sent

Next == \E m \in Message : Send(m) \/ Deliver(m)

Spec == Init /\ [][Next]_vars
=============================================================================
