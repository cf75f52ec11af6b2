------------------------------ MODULE VanProofs ------------------------------
(***************************************************************************)
(* The barrier of the scheduler, and the endpoints of the UCX van.         *)
(***************************************************************************)
EXTENDS Barrier, UCXVan, FiniteSetTheorems, TLAPS

-----------------------------------------------------------------------------
(***************************************************************************)
(* For every set of nodes, every group size and every set of barriers used *)
(* concurrently: nobody leaves a barrier early, and no answer goes astray, *)
(* provided each instance group sends one caller to a group barrier.       *)
(***************************************************************************)

(***************************************************************************)
(* How group barriers may be used: by as many nodes as the scheduler       *)
(* expects requests.                                                       *)
(***************************************************************************)
OneCallerPerGroup ==
    \A b \in Barriers : b[1] = "group" =>
        NumExpectedRequests(b[2]) = Cardinality(Callers(b))

(***************************************************************************)
(* n has entered b and the scheduler has not answered it yet; the          *)
(* scheduler has received its request.                                     *)
(***************************************************************************)
Pending(b, n) == at[n] = b /\ responses[n] = 0 /\ ~barrier_done[n]

Counted(b) == {n \in Node : Pending(b, n) /\ <<n, b>> \notin requests}

(***************************************************************************)
(* The completed rounds of b, as n sees them.                              *)
(***************************************************************************)
Rounds(b, n) == entered[b][n] - (IF Pending(b, n) THEN 1 ELSE 0)

(***************************************************************************)
(* The inductive invariant.  The scheduler's count and its list of         *)
(* requesters are exactly the callers that wait for an answer, and all     *)
(* callers of a barrier agree on how many rounds of it are complete.       *)
(***************************************************************************)
InBarrier ==
    /\ \A n \in Node : at[n] # Nowhere => n \in Callers(at[n])
    /\ \A n \in Node, b \in Barriers : <<n, b>> \in requests => Pending(b, n)

Lists(s, S) ==
    /\ Len(s) = Cardinality(S)
    /\ \A i \in 1 .. Len(s) : s[i] \in S
    /\ \A n \in S : \E i \in 1 .. Len(s) : s[i] = n
    /\ \A i, j \in 1 .. Len(s) : s[i] = s[j] => i = j

CountMatches(b) ==
    /\ b[1] = "instance" => barrier_count[b] = Cardinality(Counted(b))
    /\ b[1] = "group" => Lists(group_barrier_requests[b], Counted(b))

CountsMatch == \A b \in Barriers : CountMatches(b)

RoundsAgree ==
    \A b \in Barriers : \A n, m \in Callers(b) : Rounds(b, n) = Rounds(b, m)

Inv == TypeOK /\ InBarrier /\ NoStrayResponse /\ CountsMatch /\ RoundsAgree

-----------------------------------------------------------------------------
(***************************************************************************)
(* The counted nodes are callers, a caller whose request is on its way is  *)
(* not counted.                                                            *)
(***************************************************************************)
LEMMA CountedFinite ==
    ASSUME Inv, NEW b \in Barriers
    PROVE  /\ Counted(b) \subseteq Callers(b)
           /\ IsFiniteSet(Callers(b))
           /\ IsFiniteSet(Counted(b))
           /\ Cardinality(Counted(b)) \in Nat
  <1>1. Counted(b) \subseteq Callers(b)
    BY BarrierAssumption DEF Inv, InBarrier, Counted, Pending
  <1>2. Callers(b) \subseteq Node
    BY DEF Callers, GetNodeIDs
  <1>3. IsFiniteSet(Callers(b))
    BY <1>2, FS_Subset, BarrierAssumption
  <1>4. IsFiniteSet(Counted(b))
    BY <1>1, <1>3, FS_Subset
  <1> QED BY <1>1, <1>3, <1>4, FS_CardinalityType

(***************************************************************************)
(* The scheduler expects as many requests as there are callers.            *)
(***************************************************************************)
LEMMA ExpectedIsCallers ==
    ASSUME OneCallerPerGroup, NEW b \in Barriers
    PROVE  Expected(b) = Cardinality(Callers(b))
  <1>1. b[1] = "instance" \/ b[1] = "group"
    BY BarrierAssumption
  <1>2. CASE b[1] = "instance"
    BY <1>2 DEF Expected, Callers
  <1>3. CASE b[1] = "group"
    BY <1>3 DEF Expected, OneCallerPerGroup
  <1> QED BY <1>1, <1>2, <1>3

(***************************************************************************)
(* The request that brings the count to the expected number is the last:   *)
(* every caller of the barrier is waiting.                                 *)
(***************************************************************************)
LEMMA LastRequest ==
    ASSUME Inv, OneCallerPerGroup, NEW b \in Barriers, NEW n \in Node,
           <<n, b>> \in requests
    PROVE  /\ n \in Callers(b)
           /\ Cardinality(Counted(b) \union {n}) = Cardinality(Counted(b)) + 1
           /\ Cardinality(Counted(b)) + 1 = Expected(b)
                 => Callers(b) = Counted(b) \union {n}
  <1>1. n \in Callers(b) /\ n \notin Counted(b)
    BY BarrierAssumption DEF Inv, InBarrier, Counted, Pending
  <1>2. Cardinality(Counted(b) \union {n}) = Cardinality(Counted(b)) + 1
    BY <1>1, CountedFinite, FS_AddElement, Zenon
  <1>3. Counted(b) \union {n} \in SUBSET Callers(b)
    BY <1>1, CountedFinite
  <1>4. IsFiniteSet(Callers(b))
    BY CountedFinite
  <1>5. Cardinality(Callers(b)) = Cardinality(Counted(b) \union {n})
           => Callers(b) = Counted(b) \union {n}
    BY <1>3, <1>4, FS_Subset
  <1> QED BY <1>1, <1>2, <1>5, ExpectedIsCallers

(***************************************************************************)
(* The invariant holds before anybody enters a barrier.                    *)
(***************************************************************************)
LEMMA InitInv == Init => Inv
  <1> SUFFICES ASSUME Init PROVE Inv
    OBVIOUS
  <1>1. TypeOK
    BY DEF Init, TypeOK
  <1>2. InBarrier /\ NoStrayResponse
    BY DEF Init, InBarrier, NoStrayResponse
  <1>3. \A b \in Barriers : Counted(b) = {}
    BY BarrierAssumption DEF Init, Counted, Pending
  <1>4. CountsMatch
    <2> SUFFICES ASSUME NEW b \in Barriers
                 PROVE  /\ barrier_count[b] = 0
                        /\ group_barrier_requests[b] = << >>
      BY <1>3, FS_EmptySet DEF CountsMatch, CountMatches, Lists
    <2> QED BY DEF Init
  <1>5. \A b \in Barriers : Callers(b) \subseteq Node
    BY DEF Callers, GetNodeIDs
  <1>6. RoundsAgree
    BY <1>5, BarrierAssumption DEF Init, RoundsAgree, Rounds, Pending
  <1> QED BY <1>1, <1>2, <1>4, <1>6 DEF Inv

-----------------------------------------------------------------------------
(***************************************************************************)
(* Entering a barrier preserves the invariant.                             *)
(***************************************************************************)
LEMMA DoBarrierInv ==
    ASSUME Inv, NEW n \in Node, NEW b \in Barriers, DoBarrier(n, b)
    PROVE  Inv'
  <1>1. /\ at[n] = Nowhere
        /\ n \in Callers(b)
        /\ responses[n] = 0
        /\ \A c \in Barriers : <<n, c>> \notin requests
    BY BarrierAssumption
       DEF DoBarrier, Inv, TypeOK, InBarrier, NoStrayResponse, Pending
  <1>2. TypeOK'
    BY DEF DoBarrier, Inv, TypeOK
  <1>3. InBarrier'
    BY <1>1, Zenon DEF DoBarrier, Inv, TypeOK, InBarrier, Pending
  <1>4. NoStrayResponse'
    BY <1>1, BarrierAssumption DEF DoBarrier, Inv, TypeOK, NoStrayResponse
  <1>5. ASSUME NEW c \in Barriers
        PROVE  Counted(c)' = Counted(c)
    BY <1>1, BarrierAssumption DEF DoBarrier, Inv, TypeOK, Counted, Pending
  <1>6. CountsMatch'
    BY <1>5 DEF DoBarrier, Inv, CountsMatch, CountMatches
  <1>7. ASSUME NEW c \in Barriers, NEW m \in Callers(c)
        PROVE  Rounds(c, m)' = Rounds(c, m)
    <2>1. m \in Node
      BY DEF Callers, GetNodeIDs
    <2>2. CASE m = n /\ c = b
      BY <1>1, <2>2, BarrierAssumption
         DEF DoBarrier, Inv, TypeOK, Rounds, Pending
    <2>3. CASE m # n \/ c # b
      BY <1>1, <2>1, <2>3, BarrierAssumption, Zenon
         DEF DoBarrier, Inv, TypeOK, Rounds, Pending
    <2> QED BY <2>2, <2>3
  <1>8. RoundsAgree'
    BY <1>7 DEF Inv, RoundsAgree
  <1> QED BY <1>2, <1>3, <1>4, <1>6, <1>8 DEF Inv

(***************************************************************************)
(* Receiving an answer preserves the invariant.                            *)
(***************************************************************************)
LEMMA ManageInv ==
    ASSUME Inv, NEW n \in Node, Manage(n)
    PROVE  Inv'
  <1>1. responses[n] = 1 /\ at[n] # Nowhere
    BY DEF Manage, Inv, TypeOK, NoStrayResponse
  <1>2. TypeOK'
    BY <1>1 DEF Manage, Inv, TypeOK
  <1>3. InBarrier' /\ NoStrayResponse'
    BY <1>1 DEF Manage, Inv, TypeOK, InBarrier, NoStrayResponse, Pending
  <1>4. \A c \in Barriers, m \in Node : Pending(c, m)' <=> Pending(c, m)
    BY <1>1 DEF Manage, Inv, TypeOK, Pending
  <1>5. \A c \in Barriers : Counted(c)' = Counted(c)
    BY <1>4 DEF Manage, Counted
  <1>6. CountsMatch'
    BY <1>5 DEF Manage, Inv, CountsMatch, CountMatches
  <1>7. RoundsAgree'
    BY <1>4 DEF Manage, Inv, RoundsAgree, Rounds, Callers, GetNodeIDs
  <1> QED BY <1>2, <1>3, <1>6, <1>7 DEF Inv

(***************************************************************************)
(* Leaving a barrier preserves the invariant.                              *)
(***************************************************************************)
LEMMA ReturnInv ==
    ASSUME Inv, NEW n \in Node, Return(n)
    PROVE  Inv'
  <1>1. responses[n] = 0 /\ \A c \in Barriers : <<n, c>> \notin requests
    <2>1. barrier_done[n]
      BY DEF Return
    <2>2. responses[n] # 1 /\ \A c \in Barriers : <<n, c>> \notin requests
      BY <2>1 DEF Inv, InBarrier, NoStrayResponse, Pending
    <2>3. responses[n] \in Nat /\ responses[n] <= 1
      BY DEF Inv, TypeOK, NoStrayResponse
    <2> QED BY <2>2, <2>3
  <1>2. TypeOK'
    BY DEF Return, Inv, TypeOK
  <1>3. InBarrier' /\ NoStrayResponse'
    BY <1>1 DEF Return, Inv, TypeOK, InBarrier, NoStrayResponse, Pending
  <1>4. \A c \in Barriers, m \in Node : Pending(c, m)' <=> Pending(c, m)
    BY <1>1, BarrierAssumption DEF Return, Inv, TypeOK, Pending
  <1>5. \A c \in Barriers : Counted(c)' = Counted(c)
    BY <1>4 DEF Return, Counted
  <1>6. CountsMatch'
    BY <1>5 DEF Return, Inv, CountsMatch, CountMatches
  <1>7. RoundsAgree'
    BY <1>4 DEF Return, Inv, RoundsAgree, Rounds, Callers, GetNodeIDs
  <1> QED BY <1>2, <1>3, <1>6, <1>7 DEF Inv

(***************************************************************************)
(* The scheduler takes a request and answers nobody: what every node knows *)
(* stays as it is and the sender is counted.                               *)
(***************************************************************************)
LEMMA RequestCounted ==
    ASSUME Inv, NEW n \in Node, NEW b \in Barriers, <<n, b>> \in requests,
           requests' = requests \ {<<n, b>>},
           UNCHANGED <<at, entered, barrier_done, responses>>
    PROVE  /\ InBarrier' /\ NoStrayResponse' /\ RoundsAgree'
           /\ Counted(b)' = Counted(b) \union {n}
           /\ \A c \in Barriers \ {b} : Counted(c)' = Counted(c)
  <1>1. \A c \in Barriers, m \in Node : Pending(c, m)' <=> Pending(c, m)
    BY DEF Pending
  <1>2. InBarrier' /\ NoStrayResponse'
    BY <1>1 DEF Inv, InBarrier, NoStrayResponse
  <1>3. RoundsAgree'
    BY <1>1 DEF Inv, RoundsAgree, Rounds, Callers, GetNodeIDs
  <1>4. Pending(b, n)
    BY DEF Inv, InBarrier
  <1>5. Counted(b)' = Counted(b) \union {n}
    BY <1>1, <1>4 DEF Counted
  <1>6. ASSUME NEW c \in Barriers \ {b} PROVE Counted(c)' = Counted(c)
    BY <1>1 DEF Counted
  <1> QED BY <1>2, <1>3, <1>5, <1>6

(***************************************************************************)
(* The scheduler takes the last request and answers every caller: the      *)
(* round is complete for all of them at once, and none is left counted.    *)
(***************************************************************************)
LEMMA RoundCompleted ==
    ASSUME Inv, NEW n \in Node, NEW b \in Barriers, <<n, b>> \in requests,
           requests' = requests \ {<<n, b>>},
           Callers(b) = Counted(b) \union {n},
           responses' = [m \in Node |-> IF m \in Callers(b)
                                        THEN responses[m] + 1
                                        ELSE responses[m]],
           UNCHANGED <<at, entered, barrier_done>>
    PROVE  /\ InBarrier' /\ NoStrayResponse' /\ RoundsAgree'
           /\ Counted(b)' = {}
           /\ \A c \in Barriers \ {b} : Counted(c)' = Counted(c)
  <1>1. \A m \in Callers(b) : m \in Node /\ Pending(b, m)
    BY Zenon DEF Inv, InBarrier, Counted, Callers, GetNodeIDs
  <1>2. \A m \in Callers(b) : responses'[m] = 1 /\ ~Pending(b, m)'
    BY <1>1 DEF Pending
  <1>3. \A m \in Node \ Callers(b) : responses'[m] = responses[m]
    OBVIOUS
  <1>4. ASSUME NEW c \in Barriers \ {b}, NEW m \in Node
        PROVE  Pending(c, m)' <=> Pending(c, m)
    BY <1>1, <1>3 DEF Pending
  <1>5. ASSUME NEW m \in Node \ Callers(b)
        PROVE  ~Pending(b, m) /\ ~Pending(b, m)'
    BY BarrierAssumption DEF Inv, InBarrier, Pending
  <1>6. InBarrier'
    <2>1. ASSUME NEW m \in Node, NEW c \in Barriers, <<m, c>> \in requests'
          PROVE  Pending(c, m)'
      <3>1. <<m, c>> \in requests /\ Pending(c, m) /\ <<m, c>> # <<n, b>>
        BY <2>1 DEF Inv, InBarrier
      <3>2. c # b
        <4>1. SUFFICES ASSUME c = b PROVE FALSE
          OBVIOUS
        <4>2. at[m] = b /\ b # Nowhere
          BY <3>1, <4>1, BarrierAssumption DEF Pending
        <4>3. m \in Callers(b)
          BY <4>2 DEF Inv, InBarrier
        <4>4. m # n
          BY <3>1, <4>1
        <4> QED BY <3>1, <4>1, <4>3, <4>4 DEF Counted
      <3> QED BY <1>4, <3>1, <3>2
    <2> QED BY <2>1, Zenon DEF Inv, InBarrier
  <1>7. NoStrayResponse'
    <2>1. ASSUME NEW m \in Callers(b)
          PROVE  /\ responses'[m] <= 1
                 /\ at'[m] # Nowhere /\ ~barrier_done'[m]
      BY <1>1, <1>2, BarrierAssumption DEF Pending
    <2>2. ASSUME NEW m \in Node \ Callers(b)
          PROVE  /\ responses'[m] <= 1
                 /\ responses'[m] = 1 => at'[m] # Nowhere /\ ~barrier_done'[m]
      BY <1>3 DEF Inv, NoStrayResponse
    <2> QED BY <2>1, <2>2 DEF NoStrayResponse
  <1>8. Counted(b)' = {}
    BY <1>2, <1>5 DEF Counted
  <1>9. ASSUME NEW c \in Barriers \ {b} PROVE Counted(c)' = Counted(c)
    BY <1>4 DEF Counted
  <1>10. RoundsAgree'
    <2>1. ASSUME NEW c \in Barriers \ {b}, NEW m \in Callers(c)
          PROVE  Rounds(c, m)' = Rounds(c, m)
      BY <1>4 DEF Rounds, Callers, GetNodeIDs
    <2>2. ASSUME NEW m \in Callers(b)
          PROVE  Rounds(b, m)' = Rounds(b, m) + 1
      <3>1. entered[b][m] \in Nat /\ entered'[b][m] = entered[b][m]
        BY <1>1 DEF Inv, TypeOK
      <3>2. Rounds(b, m)' = entered'[b][m] - 0
        BY <1>2 DEF Rounds
      <3>3. Rounds(b, m) = entered[b][m] - 1
        BY <1>1 DEF Rounds
      <3> QED BY <3>1, <3>2, <3>3
    <2> QED BY <2>1, <2>2 DEF Inv, RoundsAgree
  <1> QED BY <1>6, <1>7, <1>8, <1>9, <1>10

(***************************************************************************)
(* The scheduler's handling of an instance barrier request preserves it.   *)
(***************************************************************************)
LEMMA ProcessInstanceInv ==
    ASSUME Inv, OneCallerPerGroup, NEW n \in Node, NEW b \in Barriers,
           ProcessInstanceBarrierCommand(n, b)
    PROVE  Inv'
  <1>1. /\ barrier_count[b] = Cardinality(Counted(b))
        /\ barrier_count[b] \in Nat
        /\ b[1] = "instance"
        /\ <<n, b>> \in requests
        /\ requests' = requests \ {<<n, b>>}
        /\ UNCHANGED <<at, entered, barrier_done, group_barrier_requests>>
    BY DEF ProcessInstanceBarrierCommand, Inv, TypeOK, CountsMatch,
           CountMatches
  <1>2. CASE barrier_count[b] + 1 = Expected(b)
    <2>1. /\ barrier_count' = [barrier_count EXCEPT ![b] = 0]
          /\ responses' = [m \in Node |-> IF m \in GetNodeIDs(b[2])
                                          THEN responses[m] + 1
                                          ELSE responses[m]]
      BY <1>2 DEF ProcessInstanceBarrierCommand
    <2>2. Callers(b) = Counted(b) \union {n} /\ Callers(b) = GetNodeIDs(b[2])
      BY <1>1, <1>2, LastRequest, Zenon DEF Callers
    <2>3. TypeOK'
      <3>1. responses \in [Node -> Nat] /\ barrier_count \in [Barriers -> Nat]
        BY Zenon DEF Inv, TypeOK
      <3>2. responses' \in [Node -> Nat] /\ barrier_count' \in [Barriers -> Nat]
        BY <2>1, <3>1
      <3> QED BY <1>1, <3>2, Zenon DEF Inv, TypeOK
    <2>4. /\ InBarrier' /\ NoStrayResponse' /\ RoundsAgree'
          /\ Counted(b)' = {}
          /\ \A c \in Barriers \ {b} : Counted(c)' = Counted(c)
      BY <1>1, <2>1, <2>2, RoundCompleted
    <2>5. CountMatches(b)'
      BY <1>1, <2>1, <2>4, FS_EmptySet, Zenon DEF Inv, TypeOK, CountMatches
    <2>6. ASSUME NEW c \in Barriers \ {b} PROVE CountMatches(c)'
      BY <1>1, <2>1, <2>4 DEF Inv, TypeOK, CountsMatch, CountMatches
    <2> QED BY <2>3, <2>4, <2>5, <2>6 DEF Inv, CountsMatch
  <1>3. CASE barrier_count[b] + 1 # Expected(b)
    <2>1. /\ barrier_count' = [barrier_count EXCEPT ![b] = @ + 1]
          /\ responses' = responses
      BY <1>3 DEF ProcessInstanceBarrierCommand
    <2>2. TypeOK'
      BY <1>1, <2>1 DEF Inv, TypeOK
    <2>3. /\ InBarrier' /\ NoStrayResponse' /\ RoundsAgree'
          /\ Counted(b)' = Counted(b) \union {n}
          /\ \A c \in Barriers \ {b} : Counted(c)' = Counted(c)
      BY <1>1, <2>1, RequestCounted
    <2>4. Cardinality(Counted(b)') = Cardinality(Counted(b)) + 1
      BY <1>1, <2>3, LastRequest
    <2>5. CountMatches(b)'
      BY <1>1, <2>1, <2>4 DEF Inv, TypeOK, CountMatches
    <2>6. ASSUME NEW c \in Barriers \ {b} PROVE CountMatches(c)'
      BY <1>1, <2>1, <2>3, Zenon DEF Inv, TypeOK, CountsMatch, CountMatches
    <2> QED BY <2>2, <2>3, <2>5, <2>6 DEF Inv, CountsMatch
  <1> QED BY <1>2, <1>3

(***************************************************************************)
(* Appending a sender that is not yet in the list keeps the list exact.    *)
(***************************************************************************)
LEMMA ListsAppend ==
    ASSUME NEW s \in Seq(Node), NEW S, NEW n \in Node \ S, Lists(s, S),
           Cardinality(S \union {n}) = Cardinality(S) + 1
    PROVE  Lists(Append(s, n), S \union {n})
  <1> DEFINE t == Append(s, n)
  <1>1. /\ Len(t) = Len(s) + 1
        /\ Len(s) \in Nat
        /\ t[Len(s) + 1] = n
        /\ \A i \in 1 .. Len(s) : t[i] = s[i]
    OBVIOUS
  <1> HIDE DEF t
  <1>2. \A i \in 1 .. Len(t) : i \in 1 .. Len(s) \/ i = Len(s) + 1
    BY <1>1
  <1>3. Len(t) = Cardinality(S \union {n})
    BY <1>1 DEF Lists
  <1>4. \A i \in 1 .. Len(t) : t[i] \in S \union {n}
    BY <1>1, <1>2 DEF Lists
  <1>5. \A m \in S \union {n} : \E i \in 1 .. Len(t) : t[i] = m
    BY <1>1 DEF Lists
  <1>6. \A i, j \in 1 .. Len(t) : t[i] = t[j] => i = j
    BY <1>1, <1>2 DEF Lists
  <1>7. Lists(t, S \union {n})
    BY <1>3, <1>4, <1>5, <1>6, Zenon DEF Lists
  <1> QED BY <1>7 DEF t

(***************************************************************************)
(* An exact list names each of its members once, so that the scheduler's   *)
(* loop over it answers each requester once.                               *)
(***************************************************************************)
LEMMA ListsOnce ==
    ASSUME NEW t \in Seq(Node), NEW S, Lists(t, S), NEW m
    PROVE  Cardinality({i \in 1 .. Len(t) : t[i] = m})
              = IF m \in S THEN 1 ELSE 0
  <1> DEFINE Occurrences == {i \in 1 .. Len(t) : t[i] = m}
  <1>1. CASE m \in S
    <2>1. PICK k \in 1 .. Len(t) : t[k] = m
      BY <1>1 DEF Lists
    <2>2. Occurrences = {k}
      BY <2>1 DEF Lists
    <2> HIDE DEF Occurrences
    <2>3. Cardinality(Occurrences) = 1
      BY <2>2, FS_Singleton, Zenon
    <2> QED BY <1>1, <2>3 DEF Occurrences
  <1>2. CASE m \notin S
    <2>1. Occurrences = {}
      BY <1>2 DEF Lists
    <2> HIDE DEF Occurrences
    <2>2. Cardinality(Occurrences) = 0
      BY <2>1, FS_EmptySet
    <2> QED BY <1>2, <2>2 DEF Occurrences
  <1> QED BY <1>1, <1>2

(***************************************************************************)
(* The scheduler's handling of a group barrier request preserves it.       *)
(***************************************************************************)
LEMMA ProcessBarrierInv ==
    ASSUME Inv, OneCallerPerGroup, NEW n \in Node, NEW b \in Barriers,
           ProcessBarrierCommand(n, b)
    PROVE  Inv'
  <1> DEFINE s == group_barrier_requests[b]
             t == Append(s, n)
  <1>1. /\ b[1] = "group"
        /\ <<n, b>> \in requests
        /\ requests' = requests \ {<<n, b>>}
        /\ UNCHANGED <<at, entered, barrier_done, barrier_count>>
        /\ s \in Seq(Node)
        /\ Lists(s, Counted(b))
    BY Zenon DEF ProcessBarrierCommand, Inv, TypeOK, CountsMatch, CountMatches
  <1>2. n \notin Counted(b)
    BY <1>1, Zenon DEF Counted
  <1>3. t \in Seq(Node) /\ Lists(t, Counted(b) \union {n})
    BY <1>1, <1>2, LastRequest, ListsAppend
  <1>4. Len(t) = Cardinality(Counted(b)) + 1
    BY <1>1, <1>3, LastRequest DEF Lists
  <1>5. CASE Len(t) = Expected(b)
    <2>1. /\ group_barrier_requests' = [group_barrier_requests EXCEPT ![b] = << >>]
          /\ responses' = [m \in Node |->
                             responses[m] + Cardinality({i \in 1 .. Len(t) :
                                                            t[i] = m})]
      BY <1>5 DEF ProcessBarrierCommand
    <2> HIDE DEF s, t
    <2>2. Callers(b) = Counted(b) \union {n}
      BY <1>1, <1>4, <1>5, LastRequest, Zenon
    <2>3. responses' = [m \in Node |-> IF m \in Callers(b)
                                       THEN responses[m] + 1
                                       ELSE responses[m]]
      <3>1. ASSUME NEW m \in Node
            PROVE  /\ Cardinality({i \in 1 .. Len(t) : t[i] = m})
                         = IF m \in Callers(b) THEN 1 ELSE 0
                   /\ responses[m] \in Nat
        BY <1>3, <2>2, ListsOnce, ZenonT(30) DEF Inv, TypeOK
      <3> QED BY <2>1, <3>1
    <2>4. TypeOK'
      <3>1. group_barrier_requests' \in [Barriers -> Seq(Node)]
        <4>1. << >> \in Seq(Node)
          OBVIOUS
        <4> QED BY <2>1, <4>1 DEF Inv, TypeOK
      <3>2. responses' \in [Node -> Nat]
        BY <2>3 DEF Inv, TypeOK
      <3> QED BY <1>1, <3>1, <3>2 DEF Inv, TypeOK
    <2>5. /\ InBarrier' /\ NoStrayResponse' /\ RoundsAgree'
          /\ Counted(b)' = {}
          /\ \A c \in Barriers \ {b} : Counted(c)' = Counted(c)
      BY <1>1, <2>2, <2>3, RoundCompleted
    <2>6. CountMatches(b)'
      <3>1. group_barrier_requests'[b] = << >>
        BY <2>1 DEF Inv, TypeOK
      <3>2. Lists(<< >>, {})
        BY FS_EmptySet DEF Lists
      <3>3. b[1] # "instance"
        BY <1>1
      <3> QED BY <2>5, <3>1, <3>2, <3>3, Zenon DEF CountMatches
    <2>7. ASSUME NEW c \in Barriers \ {b} PROVE CountMatches(c)'
      BY <1>1, <2>1, <2>5, Zenon DEF Inv, TypeOK, CountsMatch, CountMatches
    <2> QED BY <2>4, <2>5, <2>6, <2>7 DEF Inv, CountsMatch
  <1>6. CASE Len(t) # Expected(b)
    <2>1. /\ group_barrier_requests' = [group_barrier_requests EXCEPT ![b] = t]
          /\ responses' = responses
      BY <1>6 DEF ProcessBarrierCommand
    <2> HIDE DEF s, t
    <2>2. TypeOK'
      BY <1>1, <1>3, <2>1 DEF Inv, TypeOK
    <2>3. /\ InBarrier' /\ NoStrayResponse' /\ RoundsAgree'
          /\ Counted(b)' = Counted(b) \union {n}
          /\ \A c \in Barriers \ {b} : Counted(c)' = Counted(c)
      BY <1>1, <2>1, RequestCounted
    <2>4. CountMatches(b)'
      BY <1>1, <1>3, <2>1, <2>3 DEF Inv, TypeOK, CountMatches
    <2>5. ASSUME NEW c \in Barriers \ {b} PROVE CountMatches(c)'
      BY <1>1, <2>1, <2>3 DEF Inv, TypeOK, CountsMatch, CountMatches
    <2> QED BY <2>2, <2>3, <2>4, <2>5 DEF Inv, CountsMatch
  <1> QED BY <1>5, <1>6

-----------------------------------------------------------------------------
(***************************************************************************)
(* Every step of the barrier protocol keeps the invariant.                 *)
(***************************************************************************)
LEMMA NextInv ==
    ASSUME Inv, OneCallerPerGroup, [Next]_vars
    PROVE  Inv'
  <1>1. CASE UNCHANGED vars
    <2>1. TypeOK'
      BY <1>1, Zenon DEF vars, Inv, TypeOK
    <2>2. InBarrier' /\ NoStrayResponse'
      BY <1>1, Zenon DEF vars, Inv, InBarrier, NoStrayResponse, Pending
    <2>3. CountsMatch'
      BY <1>1, Zenon DEF vars, Inv, CountsMatch, CountMatches, Counted, Pending
    <2>4. RoundsAgree'
      <3>1. \A b, n : Rounds(b, n)' = Rounds(b, n)
        BY <1>1 DEF vars, Rounds, Pending
      <3> QED BY <3>1, Zenon DEF Inv, RoundsAgree
    <2> QED BY <2>1, <2>2, <2>3, <2>4, Zenon DEF Inv
  <1>2. CASE Next
    BY <1>2, DoBarrierInv, ProcessInstanceInv, ProcessBarrierInv, ManageInv,
       ReturnInv DEF Next
  <1> QED BY <1>1, <1>2

(***************************************************************************)
(* The invariant holds in every reachable state.                           *)
(***************************************************************************)
LEMMA Invariance ==
    ASSUME OneCallerPerGroup PROVE Spec => []Inv
  <1>1. Init => Inv
    BY InitInv
  <1>2. Inv /\ [Next]_vars => Inv'
    BY NextInv
  <1> QED BY <1>1, <1>2, PTL DEF Spec

(***************************************************************************)
(* The variables of Postoffice and Van keep their types.                   *)
(***************************************************************************)
THEOREM TypeCorrect ==
    ASSUME OneCallerPerGroup PROVE Spec => []TypeOK
  <1>1. Inv => TypeOK
    BY DEF Inv
  <1> QED BY <1>1, Invariance, PTL

(***************************************************************************)
(* No answer of the scheduler outlives the call it answers.                *)
(***************************************************************************)
THEOREM AnswersMeetTheirCall ==
    ASSUME OneCallerPerGroup PROVE Spec => []NoStrayResponse
  <1>1. Inv => NoStrayResponse
    BY DEF Inv
  <1> QED BY <1>1, Invariance, PTL

(***************************************************************************)
(* Who has left has seen a completed round, all agree on the completed     *)
(* rounds, and a completed round is one everybody has entered.             *)
(***************************************************************************)
LEMMA CompleteRounds ==
    ASSUME Inv, NEW b \in Barriers, NEW n \in Callers(b), NEW m \in Callers(b)
    PROVE  /\ Left(b, n) <= entered[b][m]
           /\ at[n] = b /\ barrier_done[n] => entered[b][n] <= entered[b][m]
  <1>1. n \in Node /\ m \in Node
    BY DEF Callers, GetNodeIDs
  <1>2. entered[b][n] \in Int /\ entered[b][m] \in Int
    BY <1>1 DEF Inv, TypeOK
  <1>3. Rounds(b, n) = Rounds(b, m)
    BY DEF Inv, RoundsAgree
  <1>4. Left(b, n) <= Rounds(b, n)
    BY <1>2 DEF Left, Rounds, Pending
  <1>5. Rounds(b, m) <= entered[b][m]
    BY <1>2 DEF Rounds
  <1>6. barrier_done[n] => Rounds(b, n) = entered[b][n]
    BY <1>2 DEF Rounds, Pending
  <1>7. /\ Left(b, n) \in Int
        /\ Rounds(b, n) \in Int
    BY <1>2 DEF Left, Rounds
  <1> QED BY <1>2, <1>3, <1>4, <1>5, <1>6, <1>7

(***************************************************************************)
(* Postoffice::Barrier is a barrier, for every number of nodes and rounds: *)
(* nobody returns from it before every caller has entered it.              *)
(***************************************************************************)
THEOREM BarrierSafety ==
    ASSUME OneCallerPerGroup PROVE Spec => []NobodyLeavesEarly
  <1>1. Inv => NobodyLeavesEarly
    BY CompleteRounds DEF NobodyLeavesEarly
  <1> QED BY <1>1, Invariance, PTL

(***************************************************************************)
(* The protocol of requests, counts and answers implements BarrierSpec:    *)
(* DoBarrier is Enter, the return from it is Leave, and what the receiving *)
(* threads do in between is invisible.                                     *)
(***************************************************************************)
THEOREM BarrierRefinement ==
    ASSUME OneCallerPerGroup PROVE Spec => IsBarrier
  <1>1. Init => Abstract!Init
    BY DEF Init, Abstract!Init
  <1>2. ASSUME Inv, [Next]_vars
        PROVE  [Abstract!Next]_<<at, entered>>
    <2>1. ASSUME NEW n \in Node, NEW b \in Barriers, DoBarrier(n, b)
          PROVE  Abstract!Next
      <3>1. n \in Callers(b) /\ Abstract!Enter(n, b)
        BY <2>1 DEF DoBarrier, Abstract!Enter
      <3> QED BY <3>1 DEF Abstract!Next
    <2>2. ASSUME NEW n \in Node, Return(n)
          PROVE  Abstract!Next
      <3>1. /\ at[n] \in Barriers
            /\ n \in Callers(at[n])
        BY <1>2, <2>2 DEF Return, Inv, TypeOK, InBarrier
      <3>2. \A m \in Callers(at[n]) : entered[at[n]][n] <= entered[at[n]][m]
        BY <1>2, <2>2, <3>1, CompleteRounds DEF Return
      <3>3. Abstract!Leave(n, at[n])
        BY <2>2, <3>1, <3>2 DEF Return, Abstract!Leave
      <3> QED BY <3>1, <3>3 DEF Abstract!Next
    <2>3. ASSUME NEW n \in Node, NEW b \in Barriers,
                 ProcessInstanceBarrierCommand(n, b)
                    \/ ProcessBarrierCommand(n, b)
          PROVE  UNCHANGED <<at, entered>>
      BY <2>3, Zenon DEF ProcessInstanceBarrierCommand, ProcessBarrierCommand
    <2>4. ASSUME NEW n \in Node, Manage(n)
          PROVE  UNCHANGED <<at, entered>>
      BY <2>4 DEF Manage
    <2> QED BY <1>2, <2>1, <2>2, <2>3, <2>4 DEF Next, vars
  <1> QED BY <1>1, <1>2, Invariance, PTL DEF Spec, IsBarrier, Abstract!Spec

-----------------------------------------------------------------------------
(***************************************************************************)
(* EndpointsKept for every bound on calls, failures and restarts.  The     *)
(* inductive invariant says, of the endpoint of n to p, what the state of  *)
(* its connection implies for the entry in client_eps_, for its flag and   *)
(* for Connect of n: an attempt is under way only while Create waits for   *)
(* it, and without an attempt or a connection Connect has p to do, will    *)
(* have it (the list of a restarted server), or the connection failed.     *)
(***************************************************************************)

Trying == {"requested", "accepted", "replied", "failed"}
States == Trying \union {"none", "up", "broken"}

EndpointTypes ==
    /\ client_eps \in [Nodes -> SUBSET Nodes]
    /\ connected \in [Pairs -> BOOLEAN]
    /\ conn \in [Pairs -> States]
    /\ todo \in [Nodes -> Seq(Nodes)]
    /\ waits \in [Nodes -> BOOLEAN]
    /\ lost \in [Pairs -> BOOLEAN]

InTodo(n, p) == \E i \in DOMAIN todo[n] : todo[n][i] = p

WaitsFor(n, p) == waits[n] /\ todo[n] # <<>> /\ Head(todo[n]) = p

Entry(n, p) ==
    /\ conn[<<n, p>>] \in Trying =>
           p \in client_eps[n] /\ ~connected[<<n, p>>] /\ WaitsFor(n, p)
    /\ conn[<<n, p>>] \in {"up", "broken"} => p \in client_eps[n] /\ connected[<<n, p>>]
    /\ conn[<<n, p>>] = "broken" => lost[<<n, p>>]
    /\ conn[<<n, p>>] = "none" =>
           /\ p \notin client_eps[n] /\ ~connected[<<n, p>>]
           /\ InTodo(n, p) \/ (n = "s" /\ n \in lists) \/ lost[<<n, p>>]

Entries ==
    /\ EndpointTypes
    /\ \A n \in Nodes : waits[n] => todo[n] # <<>>
    /\ \A n, p \in Nodes : Entry(n, p)

(* The head of a list is done first: the others stay in its tail.          *)
LEMMA TailKeeps ==
    ASSUME NEW S, NEW s \in Seq(S), s # <<>>, NEW x, x # Head(s),
           \E i \in DOMAIN s : s[i] = x
    PROVE  /\ Tail(s) \in Seq(S)
           /\ \E i \in DOMAIN Tail(s) : Tail(s)[i] = x
<1>1. PICK i \in 1 .. Len(s) : s[i] = x
  OBVIOUS
<1>2. i # 1 /\ Len(s) \in Nat /\ Tail(s) \in Seq(S) /\ Len(Tail(s)) = Len(s) - 1
  BY <1>1
<1>3. i - 1 \in DOMAIN Tail(s) /\ Tail(s)[i - 1] = s[i]
  BY <1>1, <1>2
<1> QED
  BY <1>1, <1>2, <1>3, Zenon

-----------------------------------------------------------------------------
(* No attempt is under way before Connect.                                 *)
LEMMA InitEntries == EndpointsInit => Entries
<1> SUFFICES ASSUME EndpointsInit PROVE Entries
  OBVIOUS
<1>1. PICK list \in {<<"w", "s">>, <<"s", "w">>} : todo = [n \in Nodes |-> list]
  BY DEF EndpointsInit
<1>2. list \in Seq(Nodes) /\ \A p \in Nodes : \E i \in DOMAIN list : list[i] = p
  <2>1. Nodes = {"w", "s"}
    BY EndpointsAssumption
  <2>2. CASE list = <<"w", "s">>
    <3>1. list \in Seq(Nodes) /\ DOMAIN list = 1 .. 2 /\ list[1] = "w" /\ list[2] = "s"
      BY <2>1, <2>2
    <3> QED
      BY <2>1, <3>1
  <2>3. CASE list = <<"s", "w">>
    <3>1. list \in Seq(Nodes) /\ DOMAIN list = 1 .. 2 /\ list[1] = "s" /\ list[2] = "w"
      BY <2>1, <2>3
    <3> QED
      BY <2>1, <3>1
  <2> QED
    BY <1>1, <2>2, <2>3
<1>3. EndpointTypes
  BY <1>1, <1>2 DEF EndpointsInit, EndpointTypes, States, Trying
<1>4. ASSUME NEW n \in Nodes, NEW p \in Nodes PROVE Entry(n, p)
  <2>1. InTodo(n, p)
    BY <1>1, <1>2 DEF InTodo
  <2>2. conn[<<n, p>>] = "none" /\ p \notin client_eps[n] /\ ~connected[<<n, p>>]
    BY DEF EndpointsInit, Pairs
  <2> QED
    BY <2>1, <2>2 DEF Entry, Trying
<1>5. \A n \in Nodes : ~waits[n]
  BY DEF EndpointsInit
<1> QED
  BY <1>3, <1>4, <1>5 DEF Entries

(* An action of the attempt of c that keeps it under way.                  *)
LEMMA TryingEntries ==
    ASSUME Entries, NEW n \in Nodes, NEW p \in Nodes, NEW st \in Trying,
           conn[<<n, p>>] \in Trying,
           conn' = [conn EXCEPT ![<<n, p>>] = st],
           UNCHANGED <<client_eps, connected, todo, waits, lists, lost>>
    PROVE  Entries'
<1>1. EndpointTypes'
  BY DEF Entries, EndpointTypes, States, Pairs
<1>2. ASSUME NEW m \in Nodes, NEW q \in Nodes PROVE Entry(m, q)'
  <2>1. Entry(m, q) /\ Entry(n, p)
    BY DEF Entries
  <2>2. <<m, q>> \in Pairs /\ <<n, p>> \in Pairs /\ conn \in [Pairs -> States]
    BY DEF Entries, EndpointTypes, Pairs
  <2>3. CASE m = n /\ q = p
    <3>1. conn'[<<m, q>>] \in Trying
      BY <2>2, <2>3
    <3> QED
      BY <2>1, <2>3, <3>1, Zenon DEF Entry, WaitsFor, Trying
  <2>4. CASE ~(m = n /\ q = p)
    <3>1. conn'[<<m, q>>] = conn[<<m, q>>]
      BY <2>2, <2>4
    <3> QED
      BY <2>1, <3>1, Zenon DEF Entry, InTodo, WaitsFor
  <2> QED
    BY <2>3, <2>4
<1> QED
  BY <1>1, <1>2, Zenon DEF Entries

(* Create adds the entry of the attempt that it starts and waits for.      *)
LEMMA CreateEntries == ASSUME Entries, NEW n \in Nodes, Create(n) PROVE Entries'
<1> DEFINE p == Head(todo[n])
<1>1. todo[n] \in Seq(Nodes) /\ todo[n] # <<>> /\ p \in Nodes /\ ~waits[n]
  BY DEF Create, Entries, EndpointTypes
<1>2. /\ p \notin client_eps[n]
      /\ client_eps' = [client_eps EXCEPT ![n] = @ \union {p}]
      /\ ~connected[<<n, p>>]
      /\ conn' = [conn EXCEPT ![<<n, p>>] = "requested"]
      /\ waits' = [waits EXCEPT ![n] = TRUE]
      /\ lost' = [lost EXCEPT ![<<n, p>>] = FALSE]
      /\ UNCHANGED <<connected, todo, lists>>
  BY Zenon DEF Create, CreateEp
<1>3. p = Head(todo[n])
  OBVIOUS
<1> HIDE DEF p
<1>4. EndpointTypes'
  BY <1>1, <1>2 DEF Entries, EndpointTypes, States, Trying, Pairs
<1>5. ASSUME NEW m \in Nodes, NEW q \in Nodes PROVE Entry(m, q)'
  <2>1. Entry(m, q)
    BY DEF Entries
  <2>2. /\ <<m, q>> \in Pairs /\ <<n, p>> \in Pairs /\ conn \in [Pairs -> States]
        /\ client_eps \in [Nodes -> SUBSET Nodes] /\ waits \in [Nodes -> BOOLEAN]
        /\ lost \in [Pairs -> BOOLEAN]
    BY <1>1 DEF Entries, EndpointTypes, Pairs
  <2>3. CASE m = n /\ q = p
    <3>1. conn'[<<m, q>>] = "requested" /\ q \in client_eps'[m] /\ ~connected'[<<m, q>>]
      BY <1>2, <2>2, <2>3
    <3>2. waits'[m] /\ todo'[m] # <<>> /\ Head(todo'[m]) = q
      BY <1>1, <1>2, <1>3, <2>2, <2>3
    <3> QED
      BY <3>1, <3>2, Zenon DEF Entry, WaitsFor, Trying
  <2>4. CASE ~(m = n /\ q = p)
    <3>1. /\ conn'[<<m, q>>] = conn[<<m, q>>] /\ (q \in client_eps'[m] <=> q \in client_eps[m])
          /\ lost'[<<m, q>>] = lost[<<m, q>>]
      BY <1>2, <2>2, <2>4, Zenon
    <3>2. conn[<<m, q>>] \in Trying => WaitsFor(m, q) /\ m # n
      BY <1>1, <2>1, Zenon DEF Entry, WaitsFor
    <3>3. m # n => waits'[m] = waits[m]
      BY <1>2, <2>2
    <3> QED
      BY <1>2, <2>1, <3>1, <3>2, <3>3, Zenon DEF Entry, InTodo, WaitsFor
  <2> QED
    BY <2>3, <2>4
<1>6. \A m \in Nodes : waits'[m] => todo'[m] # <<>>
  BY <1>1, <1>2 DEF Entries, EndpointTypes
<1> QED
  BY <1>4, <1>5, <1>6, Zenon DEF Entries

(* Create returns for a node whose entry is connected.                     *)
LEMMA ReturnsEntries ==
    ASSUME Entries, NEW n \in Nodes, todo[n] # <<>>,
           conn[<<n, Head(todo[n])>>] \in {"up", "broken"},
           \A q \in Nodes : conn[<<n, q>>] \notin Trying,
           todo' = [todo EXCEPT ![n] = Tail(@)],
           waits' = [waits EXCEPT ![n] = FALSE],
           UNCHANGED <<client_eps, connected, conn, lists, lost>>
    PROVE  Entries'
<1> DEFINE p == Head(todo[n])
<1>1. todo[n] \in Seq(Nodes) /\ p \in Nodes /\ Tail(todo[n]) \in Seq(Nodes)
  BY DEF Entries, EndpointTypes
<1>2. EndpointTypes'
  BY <1>1 DEF Entries, EndpointTypes
<1>3. ASSUME NEW m \in Nodes, NEW q \in Nodes PROVE Entry(m, q)'
  <2>1. Entry(m, q)
    BY DEF Entries
  <2>2. waits \in [Nodes -> BOOLEAN] /\ todo \in [Nodes -> Seq(Nodes)]
    BY DEF Entries, EndpointTypes
  <2>3. CASE m # n
    <3>1. waits'[m] = waits[m] /\ todo'[m] = todo[m]
      BY <2>2, <2>3
    <3> QED
      BY <2>1, <3>1, Zenon DEF Entry, InTodo, WaitsFor
  <2>4. CASE m = n /\ q # p
    <3>1. InTodo(m, q) => InTodo(m, q)'
      <4> SUFFICES ASSUME InTodo(n, q) PROVE \E i \in DOMAIN todo'[n] : todo'[n][i] = q
        BY <2>4, Zenon DEF InTodo
      <4>1. \E i \in DOMAIN Tail(todo[n]) : Tail(todo[n])[i] = q
        BY <1>1, <2>4, TailKeeps, ZenonT(30) DEF InTodo
      <4>2. todo'[n] = Tail(todo[n])
        BY <2>2
      <4> QED
        BY <4>1, <4>2
    <3>2. conn'[<<m, q>>] \notin Trying
      BY <2>4
    <3> QED
      BY <2>1, <3>1, <3>2, Zenon DEF Entry
  <2>5. CASE m = n /\ q = p
    <3>1. conn'[<<m, q>>] \in {"up", "broken"} /\ conn'[<<m, q>>] \notin Trying
      BY <2>5
    <3>2. conn'[<<m, q>>] # "none"
      BY <3>1
    <3> QED
      BY <2>1, <3>1, <3>2, Zenon DEF Entry
  <2> QED
    BY <2>3, <2>4, <2>5
<1>4. \A m \in Nodes : waits'[m] => todo'[m] # <<>>
  BY DEF Entries, EndpointTypes
<1> QED
  BY <1>2, <1>3, <1>4, Zenon DEF Entries

(* While Create does not wait no attempt is under way.                     *)
LEMMA CreateFindsEntries == ASSUME Entries, NEW n \in Nodes, CreateFinds(n) PROVE Entries'
<1> DEFINE p == Head(todo[n])
<1>1. todo[n] \in Seq(Nodes) /\ todo[n] # <<>> /\ p \in Nodes /\ p \in client_eps[n] /\ ~waits[n]
  BY DEF CreateFinds, Entries, EndpointTypes
<1>2. \A q \in Nodes : conn[<<n, q>>] \notin Trying
  BY <1>1, Zenon DEF Entries, Entry, WaitsFor
<1>3. conn[<<n, p>>] \in {"up", "broken"}
  <2>1. conn[<<n, p>>] # "none"
    BY <1>1, Zenon DEF Entries, Entry
  <2>2. conn[<<n, p>>] \in States
    BY <1>1 DEF Entries, EndpointTypes, Pairs
  <2> QED
    BY <1>1, <1>2, <2>1, <2>2 DEF States
<1>4. waits' = [waits EXCEPT ![n] = FALSE]
  BY <1>1 DEF CreateFinds, Entries, EndpointTypes
<1> QED
  BY <1>1, <1>2, <1>3, <1>4, ReturnsEntries, Zenon DEF CreateFinds

(* The attempt that Create waits for is the only one of its node.          *)
LEMMA CreateReturnsEntries == ASSUME Entries, NEW n \in Nodes, CreateReturns(n) PROVE Entries'
<1> DEFINE p == Head(todo[n])
<1>1. todo[n] \in Seq(Nodes) /\ todo[n] # <<>> /\ p \in Nodes /\ connected[<<n, p>>]
  BY DEF CreateReturns, Entries, EndpointTypes
<1>2. conn[<<n, p>>] \notin Trying /\ conn[<<n, p>>] # "none"
  BY <1>1, Zenon DEF Entries, Entry
<1>3. \A q \in Nodes : conn[<<n, q>>] \notin Trying
  BY <1>1, <1>2, Zenon DEF Entries, Entry, WaitsFor
<1>4. conn[<<n, p>>] \in {"up", "broken"}
  <2>1. conn[<<n, p>>] \in States
    BY <1>1 DEF Entries, EndpointTypes, Pairs
  <2> QED
    BY <1>2, <2>1 DEF States
<1> QED
  BY <1>1, <1>3, <1>4, ReturnsEntries, Zenon DEF CreateReturns

(* The error handler erases the entry of a peer that failed.               *)
LEMMA ErrorHandlerPeerEntries ==
    ASSUME Entries, NEW n \in Nodes, NEW p \in Nodes, ErrorHandlerPeer(<<n, p>>)
    PROVE  Entries'
<1>1. /\ conn[<<n, p>>] = "broken"
      /\ client_eps' = [client_eps EXCEPT ![n] = @ \ {p}]
      /\ connected' = [connected EXCEPT ![<<n, p>>] = FALSE]
      /\ conn' = [conn EXCEPT ![<<n, p>>] = "none"]
      /\ UNCHANGED <<todo, waits, lists, lost>>
  BY DEF ErrorHandlerPeer
<1>2. EndpointTypes'
  BY <1>1 DEF Entries, EndpointTypes, States, Pairs
<1>3. ASSUME NEW m \in Nodes, NEW q \in Nodes PROVE Entry(m, q)'
  <2>1. Entry(m, q)
    BY DEF Entries
  <2>2. /\ <<m, q>> \in Pairs /\ <<n, p>> \in Pairs /\ conn \in [Pairs -> States]
        /\ client_eps \in [Nodes -> SUBSET Nodes] /\ connected \in [Pairs -> BOOLEAN]
    BY DEF Entries, EndpointTypes, Pairs
  <2>3. CASE m = n /\ q = p
    <3>1. conn'[<<m, q>>] = "none" /\ q \notin client_eps'[m] /\ ~connected'[<<m, q>>]
      BY <1>1, <2>2, <2>3
    <3>2. lost'[<<m, q>>]
      BY <1>1, <2>1, <2>3, Zenon DEF Entry
    <3> QED
      BY <3>1, <3>2, Zenon DEF Entry, Trying
  <2>4. CASE ~(m = n /\ q = p)
    <3>1. /\ conn'[<<m, q>>] = conn[<<m, q>>] /\ connected'[<<m, q>>] = connected[<<m, q>>]
          /\ (q \in client_eps'[m] <=> q \in client_eps[m])
      BY <1>1, <2>2, <2>4, Zenon
    <3> QED
      BY <1>1, <2>1, <3>1, Zenon DEF Entry, InTodo, WaitsFor
  <2> QED
    BY <2>3, <2>4
<1> QED
  BY <1>1, <1>2, <1>3, Zenon DEF Entries

(* A reply connects the entry that waits for it.                           *)
LEMMA ReplyEntries ==
    ASSUME Entries, NEW n \in Nodes, NEW p \in Nodes, AmRxNodeInfoReply(<<n, p>>)
    PROVE  Entries'
<1>1. /\ conn[<<n, p>>] = "replied"
      /\ connected' = [connected EXCEPT ![<<n, p>>] = TRUE]
      /\ conn' = [conn EXCEPT ![<<n, p>>] = "up"]
      /\ UNCHANGED <<client_eps, todo, waits, lists, lost>>
  BY DEF AmRxNodeInfoReply
<1>2. EndpointTypes'
  BY <1>1 DEF Entries, EndpointTypes, States, Pairs
<1>3. ASSUME NEW m \in Nodes, NEW q \in Nodes PROVE Entry(m, q)'
  <2>1. Entry(m, q)
    BY DEF Entries
  <2>2. /\ <<m, q>> \in Pairs /\ <<n, p>> \in Pairs /\ conn \in [Pairs -> States]
        /\ connected \in [Pairs -> BOOLEAN]
    BY DEF Entries, EndpointTypes, Pairs
  <2>3. CASE m = n /\ q = p
    <3>1. conn'[<<m, q>>] = "up" /\ connected'[<<m, q>>] /\ q \in client_eps'[m]
      BY <1>1, <2>1, <2>2, <2>3, Zenon DEF Entry, Trying
    <3> QED
      BY <3>1, Zenon DEF Entry, Trying
  <2>4. CASE ~(m = n /\ q = p)
    <3>1. conn'[<<m, q>>] = conn[<<m, q>>] /\ connected'[<<m, q>>] = connected[<<m, q>>]
      BY <1>1, <2>2, <2>4, Zenon
    <3> QED
      BY <1>1, <2>1, <3>1, Zenon DEF Entry, InTodo, WaitsFor
  <2> QED
    BY <2>3, <2>4
<1> QED
  BY <1>1, <1>2, <1>3, Zenon DEF Entries

(* A connection that breaks is lost, with its entry still there.           *)
LEMMA BreakEntries ==
    ASSUME Entries, NEW n \in Nodes, NEW p \in Nodes, Break(<<n, p>>)
    PROVE  Entries'
<1>1. /\ conn[<<n, p>>] = "up"
      /\ conn' = [conn EXCEPT ![<<n, p>>] = "broken"]
      /\ lost' = [lost EXCEPT ![<<n, p>>] = TRUE]
      /\ UNCHANGED <<client_eps, connected, todo, waits, lists>>
  BY DEF Break
<1>2. EndpointTypes'
  BY <1>1 DEF Entries, EndpointTypes, States, Pairs
<1>3. ASSUME NEW m \in Nodes, NEW q \in Nodes PROVE Entry(m, q)'
  <2>1. Entry(m, q)
    BY DEF Entries
  <2>2. /\ <<m, q>> \in Pairs /\ <<n, p>> \in Pairs /\ conn \in [Pairs -> States]
        /\ lost \in [Pairs -> BOOLEAN]
    BY DEF Entries, EndpointTypes, Pairs
  <2>3. CASE m = n /\ q = p
    <3>1. conn'[<<m, q>>] = "broken" /\ lost'[<<m, q>>]
      BY <1>1, <2>2, <2>3
    <3>2. q \in client_eps'[m] /\ connected'[<<m, q>>]
      BY <1>1, <2>1, <2>3, Zenon DEF Entry
    <3> QED
      BY <3>1, <3>2, Zenon DEF Entry, Trying
  <2>4. CASE ~(m = n /\ q = p)
    <3>1. conn'[<<m, q>>] = conn[<<m, q>>] /\ lost'[<<m, q>>] = lost[<<m, q>>]
      BY <1>1, <2>2, <2>4, Zenon
    <3> QED
      BY <1>1, <2>1, <3>1, Zenon DEF Entry, InTodo, WaitsFor
  <2> QED
    BY <2>3, <2>4
<1> QED
  BY <1>1, <1>2, <1>3, Zenon DEF Entries

(* A restart breaks what was connected; the process will get a list.       *)
LEMMA RestartEntries == ASSUME Entries, Restart PROVE Entries'
<1>1. /\ \A n \in Nodes : todo[n] = <<>>
      /\ client_eps' = [client_eps EXCEPT !["s"] = {}]
      /\ connected' = [c \in Pairs |-> c[1] = "w" /\ connected[c]]
      /\ conn' = [c \in Pairs |-> IF c[1] = "s" THEN "none"
                                  ELSE IF c[2] = "s" /\ conn[c] = "up" THEN "broken"
                                  ELSE conn[c]]
      /\ lost' = [c \in Pairs |-> c[1] = "w" /\ (lost[c] \/ c[2] = "s")]
      /\ lists' = Nodes
      /\ UNCHANGED <<todo, waits>>
  BY Zenon DEF Restart
<1>2. Nodes = {"w", "s"}
  BY EndpointsAssumption
<1>3. EndpointTypes'
  <2>1. conn' \in [Pairs -> States]
    BY <1>1 DEF Entries, EndpointTypes, States
  <2>2. connected' \in [Pairs -> BOOLEAN]
    BY <1>1
  <2>3. lost' \in [Pairs -> BOOLEAN]
    BY <1>1
  <2>4. client_eps' \in [Nodes -> SUBSET Nodes]
    BY <1>1, Zenon DEF Entries, EndpointTypes
  <2> QED
    BY <1>1, <2>1, <2>2, <2>3, <2>4, Zenon DEF Entries, EndpointTypes
<1>4. ASSUME NEW m \in Nodes, NEW q \in Nodes PROVE Entry(m, q)'
  <2>1. Entry(m, q) /\ conn[<<m, q>>] \in States
    BY DEF Entries, EndpointTypes, Pairs
  <2>2. <<m, q>> \in Pairs /\ client_eps \in [Nodes -> SUBSET Nodes]
    BY DEF Entries, EndpointTypes, Pairs
  <2>3. CASE m = "s"
    <3>1. conn'[<<m, q>>] = "none" /\ q \notin client_eps'[m] /\ ~connected'[<<m, q>>]
      BY <1>1, <2>2, <2>3, Zenon
    <3>2. m \in lists'
      BY <1>1
    <3> QED
      BY <2>3, <3>1, <3>2, Zenon DEF Entry, Trying
  <2>4. CASE m = "w"
    <3>1. client_eps'[m] = client_eps[m] /\ connected'[<<m, q>>] = connected[<<m, q>>]
      BY <1>1, <2>2, <2>4 DEF Entries, EndpointTypes
    <3>2. conn'[<<m, q>>] = IF q = "s" /\ conn[<<m, q>>] = "up" THEN "broken"
                            ELSE conn[<<m, q>>]
      BY <1>1, <2>2, <2>4, Zenon
    <3>3. lost'[<<m, q>>] = (lost[<<m, q>>] \/ q = "s")
      BY <1>1, <2>2, <2>4, Zenon
    <3>4. conn[<<m, q>>] \notin Trying /\ ~InTodo(m, q)
      <4>1. conn[<<m, q>>] \notin Trying
        BY <1>1, <2>1, Zenon DEF Entry, WaitsFor
      <4>2. ~InTodo(m, q)
        BY <1>1 DEF InTodo
      <4> QED
        BY <4>1, <4>2
    <3>5. CASE q = "s" /\ conn[<<m, q>>] = "up"
      BY <2>1, <3>1, <3>2, <3>3, <3>5, Zenon DEF Entry, Trying
    <3>6. CASE ~(q = "s" /\ conn[<<m, q>>] = "up")
      <4>1. conn'[<<m, q>>] = conn[<<m, q>>] /\ (lost[<<m, q>>] => lost'[<<m, q>>])
        BY <3>2, <3>3, <3>6, Zenon
      <4> QED
        BY <2>1, <2>4, <3>1, <3>4, <4>1, Zenon DEF Entry, Trying
    <3> QED
      BY <3>5, <3>6
  <2> QED
    BY <1>2, <2>3, <2>4
<1>5. \A n \in Nodes : ~waits'[n]
  BY <1>1, Zenon DEF Entries
<1> QED
  BY <1>3, <1>4, <1>5, Zenon DEF Entries

(* The list of a restarted server has all that it lost.                    *)
LEMMA GetListEntries == ASSUME Entries, NEW n \in Nodes, GetList(n) PROVE Entries'
<1>1. /\ todo[n] = <<>>
      /\ lists' = lists \ {n}
      /\ todo' = [todo EXCEPT ![n] = IF n = "s" THEN <<"w", "s">> ELSE <<"s">>]
      /\ UNCHANGED <<client_eps, connected, conn, waits, lost>>
  BY Zenon DEF GetList
<1>2. Nodes = {"w", "s"} /\ todo \in [Nodes -> Seq(Nodes)]
  BY EndpointsAssumption DEF Entries, EndpointTypes
<1>3. ~waits[n] /\ \A q \in Nodes : conn[<<n, q>>] \notin Trying /\ ~InTodo(n, q)
  <2>1. ~waits[n] /\ \A q \in Nodes : conn[<<n, q>>] \notin Trying
    BY <1>1, Zenon DEF Entries, Entry, WaitsFor
  <2>2. \A q \in Nodes : ~InTodo(n, q)
    BY <1>1 DEF InTodo
  <2> QED
    BY <2>1, <2>2
<1>4. EndpointTypes'
  <2>1. <<"w", "s">> \in Seq(Nodes) /\ <<"s">> \in Seq(Nodes)
    BY <1>2
  <2>2. todo' \in [Nodes -> Seq(Nodes)]
    BY <1>1, <1>2, <2>1, Zenon
  <2> QED
    BY <1>1, <2>2, Zenon DEF Entries, EndpointTypes
<1>5. ASSUME NEW m \in Nodes, NEW q \in Nodes PROVE Entry(m, q)'
  <2>1. Entry(m, q)
    BY DEF Entries
  <2>2. CASE m # n
    <3>1. todo'[m] = todo[m] /\ (m \in lists' <=> m \in lists)
      BY <1>1, <1>2, <2>2
    <3> QED
      BY <1>1, <2>1, <3>1, Zenon DEF Entry, InTodo, WaitsFor
  <2>3. CASE m = n /\ m = "s"
    <3>1. todo'[m] = <<"w", "s">>
      BY <1>1, <1>2, <2>3
    <3>2. DOMAIN todo'[m] = 1 .. 2 /\ todo'[m][1] = "w" /\ todo'[m][2] = "s"
      BY <3>1
    <3>3. InTodo(m, q)'
      BY <1>2, <3>2 DEF InTodo
    <3> QED
      BY <1>1, <1>3, <2>1, <2>3, <3>3, Zenon DEF Entry
  <2>4. CASE m = n /\ m = "w"
    <3>1. m # "s" /\ conn'[<<m, q>>] \notin Trying /\ ~InTodo(m, q)
      BY <1>1, <1>3, <2>4
    <3> QED
      BY <1>1, <2>1, <3>1, Zenon DEF Entry
  <2> QED
    BY <1>2, <2>2, <2>3, <2>4
<1>6. \A m \in Nodes : waits'[m] => todo'[m] # <<>>
  <2>1. \A m \in Nodes : m # n => todo'[m] = todo[m]
    BY <1>1, <1>2
  <2> QED
    BY <1>1, <1>3, <2>1, Zenon DEF Entries
<1> QED
  BY <1>4, <1>5, <1>6, Zenon DEF Entries

-----------------------------------------------------------------------------
(* The variables that Entries is about.                                    *)
LEMMA SameEntries ==
    ASSUME Entries, UNCHANGED <<client_eps, connected, conn, todo, waits, lists, lost>>
    PROVE  Entries'
<1>1. EndpointTypes'
  BY DEF Entries, EndpointTypes
<1>2. ASSUME NEW n \in Nodes, NEW p \in Nodes PROVE Entry(n, p)'
  BY Zenon DEF Entries, Entry, InTodo, WaitsFor
<1> QED
  BY <1>1, <1>2, Zenon DEF Entries

(* Every step of the endpoints keeps Entries.                              *)
LEMMA EndpointsStepEntries == ASSUME Entries, EndpointsStep PROVE Entries'
<1>1. ASSUME NEW n \in Nodes,
             \/ Create(n) \/ CreateFinds(n) \/ CreateReturns(n) \/ GetList(n)
             \/ \E x \in server_errs[n] : ErrorHandlerServer(n, x)
      PROVE  Entries'
  <2>1. ASSUME NEW x \in server_errs[n], ErrorHandlerServer(n, x) PROVE Entries'
    BY <2>1, SameEntries DEF ErrorHandlerServer
  <2> QED
    BY <1>1, <2>1, CreateEntries, CreateFindsEntries, CreateReturnsEntries, GetListEntries
<1>2. ASSUME NEW c \in Pairs,
             \/ CreateByRequest(c) \/ AmRxNodeInfoReq(c) \/ AmRxNodeInfoReply(c)
             \/ ErrorHandlerRetry(c) \/ ErrorHandlerPeer(c)
      PROVE  Entries'
  <2>1. PICK n \in Nodes, p \in Nodes : c = <<n, p>>
    BY DEF Pairs
  <2>2. CASE CreateByRequest(c)
    BY <2>1, <2>2, TryingEntries, Zenon DEF CreateByRequest, Trying
  <2>3. CASE AmRxNodeInfoReq(c)
    BY <2>1, <2>3, TryingEntries, Zenon DEF AmRxNodeInfoReq, Trying
  <2>4. CASE AmRxNodeInfoReply(c)
    BY <2>1, <2>4, ReplyEntries, Zenon
  <2>5. CASE ErrorHandlerRetry(c)
    BY <2>1, <2>5, TryingEntries, Zenon DEF ErrorHandlerRetry, CreateEp, Trying
  <2>6. CASE ErrorHandlerPeer(c)
    BY <2>1, <2>6, ErrorHandlerPeerEntries, Zenon
  <2> QED
    BY <1>2, <2>2, <2>3, <2>4, <2>5, <2>6
<1> QED
  BY <1>1, <1>2, Zenon DEF EndpointsStep

(* Failures and restarts keep the entries consistent.                      *)
LEMMA FaultEntries == ASSUME Entries, Fault PROVE Entries'
<1>1. ASSUME NEW c \in Pairs, FailAttempt(c) PROVE Entries'
  <2>1. PICK n \in Nodes, p \in Nodes : c = <<n, p>>
    BY DEF Pairs
  <2> QED
    BY <1>1, <2>1, TryingEntries, Zenon DEF FailAttempt, Trying
<1>2. ASSUME NEW c \in Pairs, BreakUCX(c) PROVE Entries'
  <2>1. PICK n \in Nodes, p \in Nodes : c = <<n, p>>
    BY DEF Pairs
  <2> QED
    BY <1>2, <2>1, BreakEntries, Zenon DEF BreakUCX
<1> QED
  BY <1>1, <1>2, RestartEntries, Zenon DEF Fault, RestartUCX

(* What the other actions change is not in the way.                        *)
LEMMA OtherSteps == ASSUME Entries, UNCHANGED endpointVars PROVE Entries'
  BY SameEntries DEF endpointVars

(* Every step keeps the invariant.                                         *)
LEMMA NextEntries == Entries /\ [UCXNext]_ucxVars => Entries'
<1> SUFFICES ASSUME Entries, [UCXNext]_ucxVars PROVE Entries'
  OBVIOUS
<1>1. CASE EndpointsStep
  BY <1>1, EndpointsStepEntries
<1>2. CASE Fault
  BY <1>2, FaultEntries
<1>3. ASSUME NEW c \in Threads, BeginPush(c) \/ SendMeta(c) \/ SendData(c) PROVE Entries'
  BY <1>3, OtherSteps, Zenon DEF BeginPush, SendMeta, SendData
<1>4. ASSUME NEW n \in Nodes,
             \/ PollTxQueueUCX(n) \/ ReorderMsg(n) \/ RecvMsg(n)
             \/ StopThreads(n) \/ StopReturns(n) \/ Stop(n)
      PROVE  Entries'
  BY <1>4, OtherSteps, Zenon
  DEF PollTxQueueUCX, ReorderMsg, RecvMsg, StopThreads, StopReturns, Stop
<1>5. ASSUME NEW n \in Nodes, NEW m \in metas[n], RxMetaCompletedCb(n, m) PROVE Entries'
  BY <1>5, OtherSteps, Zenon DEF RxMetaCompletedCb
<1>6. ASSUME NEW n \in Nodes, NEW p \in Nodes, PollRx(n, p) PROVE Entries'
  BY <1>6, OtherSteps, Zenon DEF PollRx
<1>7. ASSUME NEW n \in Nodes, NEW p \in Nodes, NEW r \in posted[n], RxDataCompletedCb(n, p, r)
      PROVE  Entries'
  BY <1>7, OtherSteps, Zenon DEF RxDataCompletedCb
<1>8. ASSUME NEW kind \in Kinds, NEW k \in Keys, NEW size \in Sizes, SendMsg(kind, k, size)
      PROVE  Entries'
  BY <1>8, OtherSteps, Zenon DEF SendMsg
<1>9. CASE UNCHANGED ucxVars
  BY <1>9, OtherSteps, Zenon DEF ucxVars
<1> QED
  BY <1>1, <1>2, <1>3, <1>4, <1>5, <1>6, <1>7, <1>8, <1>9, Zenon DEF UCXNext, Step

(* What the invariant says of the endpoints.                               *)
LEMMA EntriesKept == Entries => EndpointsKept
<1> SUFFICES ASSUME Entries PROVE EndpointsKept
  OBVIOUS
<1>1. ASSUME NEW c \in Pairs, conn[c] = "replied" PROVE c[2] \in client_eps[c[1]]
  <2>1. PICK n \in Nodes, p \in Nodes : c = <<n, p>>
    BY DEF Pairs
  <2>2. p \in client_eps[n]
    BY <1>1, <2>1, Zenon DEF Entries, Entry, Trying
  <2> QED
    BY <2>1, <2>2
<1>2. ASSUME NEW n \in Nodes, todo[n] = <<>>, n \notin lists, NEW p \in Nodes, ~lost[<<n, p>>]
      PROVE  Find(n, p) /\ conn[<<n, p>>] = "up"
  <2>1. ~InTodo(n, p) /\ ~WaitsFor(n, p)
    BY <1>2 DEF InTodo, WaitsFor
  <2>2. conn[<<n, p>>] \in States /\ Entry(n, p)
    BY DEF Entries, EndpointTypes, Pairs
  <2>3. conn[<<n, p>>] = "up"
    BY <1>2, <2>1, <2>2 DEF Entry, States
  <2> QED
    BY <2>2, <2>3, Zenon DEF Entry, Find
<1> QED
  BY <1>1, <1>2, Zenon DEF EndpointsKept

(***************************************************************************)
(* In UCXVan a node that handled its lists has a connected endpoint to     *)
(* every peer, except where a connection failed after Create had made it,  *)
(* however many attempts and connections fail, at any time, and servers    *)
(* restart; and no reply finds its entry erased.                           *)
(***************************************************************************)
THEOREM EndpointsKeptHolds == UCXSpec => []EndpointsKept
<1>1. UCXInit => Entries
  BY InitEntries DEF UCXInit
<1>2. UCXSpec => []Entries
  BY <1>1, NextEntries, PTL DEF UCXSpec
<1> QED
  BY <1>2, EntriesKept, PTL

=============================================================================
