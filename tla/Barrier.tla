------------------------------- MODULE Barrier -------------------------------
(***************************************************************************)
(* The barriers of Postoffice and Van.  A node asks the scheduler and      *)
(* blocks (Postoffice::DoBarrier); the scheduler's receiving thread counts *)
(* the requests and answers when enough have come                          *)
(* (Van::ProcessInstanceBarrierCommand, Van::ProcessBarrierCommand); the   *)
(* receiving thread of a node that gets an answer wakes the blocked caller *)
(* (Postoffice::Manage).  No message carries a round number, and an answer *)
(* does not say which barrier it answers.                                  *)
(*                                                                         *)
(* A barrier is a pair <<kind, group>>.  Its group is a set of roles       *)
(* (kScheduler, kServerGroup, kWorkerGroup and their sums).  An instance   *)
(* barrier counts every instance of the group, a group barrier one request *)
(* for every GroupSize of them.  Every node runs one customer, number 0,   *)
(* as fserver and the tests do.                                            *)
(***************************************************************************)
EXTENDS Integers, Sequences, FiniteSets

CONSTANTS Node,         \* the postoffice instances, the scheduler included
          Role,         \* Role[n]: "scheduler", "server" or "worker"
          GroupSize,    \* DMLC_GROUP_SIZE: instances in an instance group
          Leaders,      \* the instances that call group barriers
          Barriers,     \* the barriers the application uses
          MaxEntries,   \* bound: times a node enters a barrier
          Nowhere       \* "not in a barrier"

Roles == {"scheduler", "server", "worker"}

(***************************************************************************)
(* Postoffice::GetNodeIDs: the instances of a role group.                  *)
(***************************************************************************)
GetNodeIDs(group) == {n \in Node : Role[n] \in group}

(***************************************************************************)
(* When the scheduler answers: all instances have asked, or one per        *)
(* instance group.  The scheduler is an instance group by itself.          *)
(***************************************************************************)
NumExpectedRequests(group) ==
    LET instances == Cardinality(GetNodeIDs(group))
    IN  IF group = {"scheduler"} THEN 1
        ELSE IF "scheduler" \in group THEN (instances - 1) \div GroupSize + 1
        ELSE instances \div GroupSize

Expected(b) == IF b[1] = "instance" THEN Cardinality(GetNodeIDs(b[2]))
                                    ELSE NumExpectedRequests(b[2])

(***************************************************************************)
(* DoBarrier returns at once when the group has one member.                *)
(***************************************************************************)
Trivial(b) == Cardinality(GetNodeIDs(b[2]))
                 <= IF b[1] = "instance" THEN 1 ELSE GroupSize

(***************************************************************************)
(* The nodes that call barrier b: DoBarrier checks the caller's role.      *)
(***************************************************************************)
Callers(b) == {n \in GetNodeIDs(b[2]) : b[1] = "group" => n \in Leaders}

ASSUME BarrierAssumption ==
    /\ IsFiniteSet(Node)
    /\ Role \in [Node -> Roles]
    /\ GroupSize \in Nat \ {0}
    /\ Leaders \subseteq Node
    /\ Barriers \subseteq {"instance", "group"} \X SUBSET Roles
    /\ MaxEntries \in Nat
    /\ Nowhere \notin Barriers

VARIABLES at,           \* at[n]: the barrier n is blocked in, or Nowhere
          entered,      \* entered[b][n]: how often n has called b
          barrier_done, \* barrier_done_[0][0] of each node
          requests,     \* requests on their way: <<sender, barrier>>
          barrier_count,            \* barrier_count_ of the scheduler
          group_barrier_requests,   \* group_barrier_requests_: the senders
          responses     \* responses[n]: answers on their way to n

vars == <<at, entered, barrier_done, requests, barrier_count,
          group_barrier_requests, responses>>

Init ==
    /\ at = [n \in Node |-> Nowhere]
    /\ entered = [b \in Barriers |-> [n \in Node |-> 0]]
    /\ barrier_done = [n \in Node |-> FALSE]
    /\ requests = {}
    /\ barrier_count = [b \in Barriers |-> 0]
    /\ group_barrier_requests = [b \in Barriers |-> << >>]
    /\ responses = [n \in Node |-> 0]

-----------------------------------------------------------------------------
(* Mutant of DoBarrier: barrier_done_ keeps the last barrier's value.      *)
DoBarrierNoReset(n, b) ==
    /\ n \in Callers(b)
    /\ at[n] = Nowhere
    /\ ~Trivial(b)
    /\ entered[b][n] < MaxEntries
    /\ at' = [at EXCEPT ![n] = b]
    /\ entered' = [entered EXCEPT ![b][n] = @ + 1]
    /\ requests' = requests \union {<<n, b>>}
    /\ UNCHANGED <<barrier_done, barrier_count, group_barrier_requests,
                   responses>>

(***************************************************************************)
(* Postoffice::DoBarrier up to the wait, in one step: barrier_mu_ is held  *)
(* from the reset of barrier_done_ until the wait releases it.             *)
(***************************************************************************)
DoBarrier(n, b) ==
    /\ n \in Callers(b)
    /\ at[n] = Nowhere
    /\ ~Trivial(b)
    /\ entered[b][n] < MaxEntries
    /\ at' = [at EXCEPT ![n] = b]
    /\ entered' = [entered EXCEPT ![b][n] = @ + 1]
    /\ barrier_done' = [barrier_done EXCEPT ![n] = FALSE]
    /\ requests' = requests \union {<<n, b>>}
    /\ UNCHANGED <<barrier_count, group_barrier_requests, responses>>

(* Mutant of ProcessInstanceBarrierCommand: the count is not reset.        *)
CountNotReset(n, b) ==
    /\ <<n, b>> \in requests
    /\ b[1] = "instance"
    /\ requests' = requests \ {<<n, b>>}
    /\ barrier_count' = [barrier_count EXCEPT ![b] = @ + 1]
    /\ responses' = [m \in Node |->
                       IF m \in GetNodeIDs(b[2])
                             /\ barrier_count[b] + 1 = Expected(b)
                       THEN responses[m] + 1 ELSE responses[m]]
    /\ UNCHANGED <<at, entered, barrier_done, group_barrier_requests>>

(***************************************************************************)
(* Van::ProcessInstanceBarrierCommand for a request, at the scheduler.     *)
(***************************************************************************)
ProcessInstanceBarrierCommand(n, b) ==
    /\ <<n, b>> \in requests
    /\ b[1] = "instance"
    /\ requests' = requests \ {<<n, b>>}
    /\ IF barrier_count[b] + 1 = Expected(b)
       THEN /\ barrier_count' = [barrier_count EXCEPT ![b] = 0]
            /\ responses' = [m \in Node |-> IF m \in GetNodeIDs(b[2])
                                            THEN responses[m] + 1
                                            ELSE responses[m]]
       ELSE /\ barrier_count' = [barrier_count EXCEPT ![b] = @ + 1]
            /\ UNCHANGED responses
    /\ UNCHANGED <<at, entered, barrier_done, group_barrier_requests>>

(***************************************************************************)
(* Van::ProcessBarrierCommand for a request, at the scheduler: only the    *)
(* requesters are answered, each as often as it asked.                     *)
(***************************************************************************)
ProcessBarrierCommand(n, b) ==
    LET senders == Append(group_barrier_requests[b], n)
    IN  /\ <<n, b>> \in requests
        /\ b[1] = "group"
        /\ requests' = requests \ {<<n, b>>}
        /\ IF Len(senders) = Expected(b)
           THEN /\ group_barrier_requests' =
                      [group_barrier_requests EXCEPT ![b] = << >>]
                /\ responses' =
                      [m \in Node |->
                         responses[m] + Cardinality({i \in 1 .. Len(senders) :
                                                        senders[i] = m})]
           ELSE /\ group_barrier_requests' =
                      [group_barrier_requests EXCEPT ![b] = senders]
                /\ UNCHANGED responses
        /\ UNCHANGED <<at, entered, barrier_done, barrier_count>>

(***************************************************************************)
(* Postoffice::Manage for an answer.                                       *)
(***************************************************************************)
Manage(n) ==
    /\ responses[n] > 0
    /\ responses' = [responses EXCEPT ![n] = @ - 1]
    /\ barrier_done' = [barrier_done EXCEPT ![n] = TRUE]
    /\ UNCHANGED <<at, entered, requests, barrier_count,
                   group_barrier_requests>>

(***************************************************************************)
(* The wait at the end of DoBarrier returns.                               *)
(***************************************************************************)
Return(n) ==
    /\ at[n] # Nowhere
    /\ barrier_done[n]
    /\ at' = [at EXCEPT ![n] = Nowhere]
    /\ UNCHANGED <<entered, barrier_done, requests, barrier_count,
                   group_barrier_requests, responses>>

Next ==
    \/ \E n \in Node, b \in Barriers : DoBarrier(n, b)
    \/ \E n \in Node, b \in Barriers : ProcessInstanceBarrierCommand(n, b)
    \/ \E n \in Node, b \in Barriers : ProcessBarrierCommand(n, b)
    \/ \E n \in Node : Manage(n)
    \/ \E n \in Node : Return(n)

(***************************************************************************)
(* The receiving threads process what arrives and a woken caller runs.     *)
(* Nobody is obliged to enter a barrier.                                   *)
(***************************************************************************)
Fairness ==
    /\ \A n \in Node, b \in Barriers :
          WF_vars(ProcessInstanceBarrierCommand(n, b)
                     \/ ProcessBarrierCommand(n, b))
    /\ \A n \in Node : WF_vars(Manage(n)) /\ WF_vars(Return(n))

Spec == Init /\ [][Next]_vars /\ Fairness

-----------------------------------------------------------------------------
(* Counters, requests, answers and flags of the barriers.                  *)
TypeOK ==
    /\ at \in [Node -> Barriers \union {Nowhere}]
    /\ entered \in [Barriers -> [Node -> Nat]]
    /\ barrier_done \in [Node -> BOOLEAN]
    /\ requests \subseteq Node \X Barriers
    /\ barrier_count \in [Barriers -> Nat]
    /\ group_barrier_requests \in [Barriers -> Seq(Node)]
    /\ responses \in [Node -> Nat]

(***************************************************************************)
(* How often n has left b.                                                 *)
(***************************************************************************)
Left(b, n) == entered[b][n] - (IF at[n] = b THEN 1 ELSE 0)

(***************************************************************************)
(* Nobody is through a barrier more often than every caller has entered    *)
(* it: DoBarrier never returns before everybody has come, whatever other   *)
(* barriers are in use at the same time and however far ahead a node is.   *)
(***************************************************************************)
NobodyLeavesEarly ==
    \A b \in Barriers : \A n, m \in Callers(b) : Left(b, n) <= entered[b][m]

(***************************************************************************)
(* An answer only ever meets the blocked call it was sent for: there is at *)
(* most one on the way to a node, and none when the node is not waiting.   *)
(* Since Manage cannot tell answers apart, a stray one would release the   *)
(* node's next barrier.                                                    *)
(***************************************************************************)
NoStrayResponse ==
    \A n \in Node :
        /\ responses[n] <= 1
        /\ responses[n] = 1 => at[n] # Nowhere /\ ~barrier_done[n]

(***************************************************************************)
(* The barrier of the code does what a barrier promises.                   *)
(***************************************************************************)
Abstract == INSTANCE BarrierSpec
IsBarrier == Abstract!Spec

(***************************************************************************)
(* When everybody has entered, everybody gets out: no request or answer is *)
(* forgotten and no caller sleeps through its wake-up.                     *)
(***************************************************************************)
EverybodyLeaves ==
    \A b \in Barriers : \A n \in Callers(b) :
        (/\ at[n] = b
         /\ \A m \in Callers(b) : entered[b][n] <= entered[b][m])
        ~> (at[n] # b)

=============================================================================
