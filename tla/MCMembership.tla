----------------------------- MODULE MCMembership -----------------------------
(* Small deployments of Membership.                                        *)
EXTENDS Membership

W(host, port, aux, customers) ==
    [role |-> "worker", addr |-> <<host, port>>, aux |-> aux, customers |-> customers]
S(host, port, aux) ==
    [role |-> "server", addr |-> <<host, port>>, aux |-> aux, customers |-> 1]

(* One worker, two servers, two crashes: a server that comes back at the   *)
(* address of the first or of the second, or at a new one.                 *)
TwoServers ==
    {[procs |-> [w1 |-> W(1, 1, -1, 1), s1 |-> S(2, 1, -1), s2 |-> S(3, 1, -1),
                 s3 |-> S(h, 1, -1)],
      spare |-> {"s3"}, num |-> [worker |-> 1, server |-> 2], mode |-> "default",
      barrier |-> TRUE, timeout |-> TRUE, crashes |-> 2,
      mortal |-> {"s1", "s2"}, asks |-> TRUE, ends |-> {"w1", "s3"}] : h \in {2, 3, 4}}

(* Two servers come back.                                                  *)
SecondRecovery ==
    {[procs |-> [w1 |-> W(1, 1, -1, 1), s1 |-> S(2, 1, -1), s2 |-> S(2, 1, -1),
                 s3 |-> S(2, 2, -1)],
      spare |-> {"s2", "s3"}, num |-> [worker |-> 1, server |-> 1],
      mode |-> "default", barrier |-> TRUE, timeout |-> TRUE, crashes |-> 2,
      mortal |-> {"s1", "s2"}, asks |-> TRUE, ends |-> {"w1", "s3"}]}

(* Two servers crash; one comes back at a new address and then the other   *)
(* at its own.                                                             *)
BothServers ==
    {[procs |-> [w1 |-> W(1, 1, 0, 1), s1 |-> S(2, 1, 0), s2 |-> S(3, 1, 1),
                 s3 |-> S(4, 1, 0), s4 |-> S(3, 1, 1)],
      spare |-> {"s3", "s4"}, num |-> [worker |-> 1, server |-> 2],
      mode |-> "default", barrier |-> FALSE, timeout |-> TRUE, crashes |-> 2,
      mortal |-> {"s1", "s2"}, asks |-> FALSE, ends |-> {"s4"}]}

(* A worker with two customers, and a worker that replaces it.             *)
TwoCustomers ==
    {[procs |-> [w1 |-> W(1, 1, -1, 2), s1 |-> S(1, 2, -1), w2 |-> W(h, 1, -1, 2)],
      spare |-> {"w2"}, num |-> [worker |-> 2, server |-> 1], mode |-> "default",
      barrier |-> FALSE, timeout |-> TRUE, crashes |-> 1,
      mortal |-> {"w1"}, asks |-> TRUE, ends |-> {"w2", "s1"}] : h \in {1, 2}}

(* Preferred ranks, and the other orders of ranks.                         *)
Ordered ==
    {[procs |-> [w1 |-> W(1, 1, -1, 1), s1 |-> S(1, 2, -1), s2 |-> S(2, 1, -1)],
      spare |-> {}, num |-> [worker |-> 1, server |-> 2], mode |-> m,
      barrier |-> FALSE, timeout |-> FALSE, crashes |-> 0,
      mortal |-> {}, asks |-> TRUE, ends |-> {"w1", "s1"}]
        : m \in {"default", "mixed", "sparse"}}
    \union
    {[procs |-> [w1 |-> W(1, 1, 1, 1), w2 |-> W(2, 1, 0, 1), s1 |-> S(3, 1, 0)],
      spare |-> {}, num |-> [worker |-> 2, server |-> 1], mode |-> "default",
      barrier |-> TRUE, timeout |-> FALSE, crashes |-> 0,
      mortal |-> {}, asks |-> TRUE, ends |-> {}]}

MCDeployments == TwoServers \union SecondRecovery \union BothServers \union TwoCustomers \union Ordered

=============================================================================
