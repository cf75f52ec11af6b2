----------------------------- MODULE KVAppProofs -----------------------------
(***************************************************************************)
(* The invariant of AFTensorAppInv, first part: the tracker of Customer    *)
(* and the messages that both applications share, every step of KVWorker   *)
(* and KVServer, and what AFTensorWorker and AFTensorServer have in        *)
(* common: their numbers and messages, what a step leaves of the invariant *)
(* when it leaves variables alone, and the pools of events.                *)
(***************************************************************************)
EXTENDS AFTensorAppInv, FiniteSetTheorems, TLAPS

-----------------------------------------------------------------------------
(* The numbers of the configuration.                                       *)
LEMMA Numbers ==
    ASSUME Types
    PROVE  /\ num_servers \in Nat \ {0}
           /\ MaxRequests[num_servers] \in Nat
           /\ Len(tracker) \in Nat
           /\ app \in {"kv", "af"}
BY KVAssumption DEF Types

(* An entry of tracker_.                                                   *)
LEMMA Entries ==
    ASSUME Types, NEW ts \in Timestamps
    PROVE  /\ ts \in Nat /\ ts + 1 \in DOMAIN tracker /\ ts \in DOMAIN recv_kvs
           /\ tracker[ts + 1].count = num_servers
           /\ tracker[ts + 1].response_count \in Nat
<1>1. /\ tracker \in Seq(Counter) /\ Len(tracker) \in Nat
      /\ MaxRequests[num_servers] \in Nat
  BY Numbers DEF Types
<1>2. ts \in Nat /\ ts + 1 \in DOMAIN tracker
  BY <1>1 DEF Timestamps
<1>3. tracker[ts + 1] \in Counter
  BY <1>1, <1>2
<1>4. tracker[ts + 1].count = num_servers
  BY DEF Types
<1>5. ts \in DOMAIN recv_kvs
  BY <1>1 DEF Types, Timestamps
<1> QED
  BY <1>2, <1>3, <1>4, <1>5 DEF Counter

(* Which servers have not answered ts is a finite matter.                  *)
LEMMA UnansweredFinite ==
    ASSUME Types, NEW ts
    PROVE  /\ Unanswered(ts) \subseteq Servers
           /\ IsFiniteSet(Unanswered(ts))
           /\ Cardinality(Unanswered(ts)) \in Nat
           /\ IsFiniteSet(Servers) /\ Cardinality(Servers) = num_servers
<1>1. num_servers \in Nat \ {0}
  BY Numbers
<1>2. IsFiniteSet(Servers) /\ Cardinality(Servers) = num_servers
  BY <1>1, FS_Interval DEF Servers
<1>3. Unanswered(ts) \in SUBSET Servers
  BY DEF Unanswered
<1> QED
  BY <1>2, <1>3, FS_Subset, FS_CardinalityType

(* A request that a server has still to answer is not finished, and so no  *)
(* Wait for it has returned.                                               *)
LEMMA NotFinished ==
    ASSUME Types, Counted, WaitedFinished, NEW ts \in Timestamps,
           Unanswered(ts) # {} \/ Taken(ts) = 1
    PROVE  ~Finished(ts) /\ ts \notin waited
<1>1. num_servers \in Nat \ {0} /\ Len(tracker) \in Nat
  BY Numbers
<1>2. /\ tracker[ts + 1].count = num_servers
      /\ tracker[ts + 1].response_count \in Nat
  BY Entries
<1>3. Cardinality(Unanswered(ts)) \in Nat
  BY UnansweredFinite
<1>4. Unanswered(ts) # {} => Cardinality(Unanswered(ts)) # 0
  BY UnansweredFinite, FS_EmptySet
<1>5. Taken(ts) \in {0, 1}
  BY DEF Taken
<1>6. tracker[ts + 1].response_count # num_servers
  BY <1>1, <1>2, <1>3, <1>4, <1>5 DEF Counted
<1> QED
  BY <1>2, <1>6 DEF Finished, WaitedFinished

(* A finished request has been answered by every server.                   *)
LEMMA FinishedAnswered ==
    ASSUME Types, Counted, NEW ts \in Timestamps, Finished(ts)
    PROVE  Unanswered(ts) = {} /\ Taken(ts) = 0
<1>1. num_servers \in Nat \ {0} /\ Len(tracker) \in Nat
  BY Numbers
<1>2. tracker[ts + 1].response_count = num_servers
  BY Entries DEF Finished
<1>3. Cardinality(Unanswered(ts)) \in Nat
  BY UnansweredFinite
<1>4. Taken(ts) \in {0, 1}
  BY DEF Taken
<1>5. Cardinality(Unanswered(ts)) = 0 /\ Taken(ts) = 0
  BY <1>1, <1>2, <1>3, <1>4 DEF Counted
<1> QED
  BY <1>5, UnansweredFinite, FS_EmptySet

-----------------------------------------------------------------------------
(* Steps that move no response: what the servers owe stays the same.       *)
LEMMA NothingMoves ==
    ASSUME Shared, Types',
           UNCHANGED <<num_servers, tracker, to_worker, rcv>>,
           ~raced' \/ UNCHANGED <<raced, waited>>,
           \A ts \in waited' : Finished(ts),
           \A s \in Servers, ts \in Timestamps : Owes(s, ts)' <=> Owes(s, ts)
    PROVE  Shared'
<1> USE DEF Shared
<1>1. Servers' = Servers /\ Timestamps' = Timestamps
  BY DEF Servers, Timestamps
<1>2. \A s \in Servers, ts \in Timestamps : Out(s, ts)' <=> Out(s, ts)
  BY DEF Out
<1>3. \A ts \in Timestamps : Unanswered(ts)' = Unanswered(ts)
  BY <1>1, <1>2 DEF Unanswered
<1>4. \A ts : Taken(ts)' = Taken(ts)
  BY DEF Taken
<1>5. Counted'
  BY <1>1, <1>3, <1>4 DEF Counted
<1>6. Once'
  <2> SUFFICES ASSUME NEW s \in Servers
               PROVE  /\ \A i \in DOMAIN to_worker[s] :
                            /\ to_worker[s][i].ts \in Timestamps
                            /\ ~Owes(s, to_worker[s][i].ts)'
                      /\ \A i, j \in DOMAIN to_worker[s] :
                            to_worker[s][i].ts = to_worker[s][j].ts => i = j
    BY <1>1 DEF Once
  <2> QED
    BY DEF Once
<1>7. WaitedFinished' /\ RaceNeedsOverlap'
  BY DEF WaitedFinished, Finished, RaceNeedsOverlap
<1> QED
  BY <1>5, <1>6, <1>7

(* A server answers m: it owed the answer, and now the answer is under way. *)
LEMMA AnswerLeaves ==
    ASSUME Shared, Types',
           UNCHANGED <<num_servers, tracker, waited, rcv>>, ~raced',
           NEW s \in Servers, NEW m,
           to_worker' = [to_worker EXCEPT ![s] = Append(@, m)],
           m.ts \in Timestamps, Owes(s, m.ts), ~Owes(s, m.ts)',
           \A t \in Servers, ts \in Timestamps :
               t # s \/ ts # m.ts => (Owes(t, ts)' <=> Owes(t, ts))
    PROVE  Shared'
<1> USE DEF Shared
<1>1. Servers' = Servers /\ Timestamps' = Timestamps
  BY DEF Servers, Timestamps
<1>2. to_worker \in [Servers -> Seq(KVReply \union Reply)]
  BY DEF Types
<1>3. /\ to_worker'[s] = Append(to_worker[s], m)
      /\ \A t \in Servers : t # s => to_worker'[t] = to_worker[t]
  BY <1>2
<1>4. /\ DOMAIN to_worker'[s] = DOMAIN to_worker[s] \union {Len(to_worker[s]) + 1}
      /\ Len(to_worker[s]) + 1 \notin DOMAIN to_worker[s]
      /\ to_worker'[s][Len(to_worker[s]) + 1] = m
      /\ \A i \in DOMAIN to_worker[s] : to_worker'[s][i] = to_worker[s][i]
  BY <1>2, <1>3
<1>5. \A t \in Servers, ts \in Timestamps :
         (Owes(t, ts) \/ Out(t, ts))' <=> Owes(t, ts) \/ Out(t, ts)
  BY <1>3, <1>4 DEF Out
<1>6. \A ts \in Timestamps : Unanswered(ts)' = Unanswered(ts)
  BY <1>1, <1>5 DEF Unanswered
<1>7. \A ts : Taken(ts)' = Taken(ts)
  BY DEF Taken
<1>8. Counted'
  BY <1>1, <1>6, <1>7 DEF Counted
<1>9. Once'
  <2> SUFFICES ASSUME NEW t \in Servers
               PROVE  /\ \A i \in DOMAIN to_worker'[t] :
                            /\ to_worker'[t][i].ts \in Timestamps
                            /\ ~Owes(t, to_worker[t][i].ts)'
                      /\ \A i, j \in DOMAIN to_worker'[t] :
                            to_worker'[t][i].ts = to_worker'[t][j].ts => i = j
    BY <1>1 DEF Once
  <2>1. /\ \A i \in DOMAIN to_worker[t] :
              to_worker[t][i].ts \in Timestamps /\ ~Owes(t, to_worker[t][i].ts)
        /\ \A i, j \in DOMAIN to_worker[t] :
              to_worker[t][i].ts = to_worker[t][j].ts => i = j
    BY DEF Once
  <2>2. \A i \in DOMAIN to_worker'[t] :
            to_worker'[t][i].ts \in Timestamps /\ ~Owes(t, to_worker[t][i].ts)'
    <3>1. CASE t # s
      BY <3>1, <2>1, <1>3
    <3>2. CASE t = s
      BY <3>2, <2>1, <1>4
    <3> QED
      BY <3>1, <3>2
  <2>3. \A i, j \in DOMAIN to_worker'[t] :
            to_worker'[t][i].ts = to_worker'[t][j].ts => i = j
    <3>1. CASE t # s
      BY <3>1, <2>1, <1>3
    <3>2. CASE t = s
      BY <3>2, <2>1, <1>4
    <3> QED
      BY <3>1, <3>2, Zenon
  <2> QED
    BY <2>2, <2>3, Zenon
<1>10. WaitedFinished' /\ RaceNeedsOverlap'
  BY DEF WaitedFinished, Finished, RaceNeedsOverlap
<1> QED
  BY <1>8, <1>9, <1>10

(* The receiving thread takes the next answer of server s.                 *)
LEMMA AnswerTaken ==
    ASSUME Shared, NEW s \in Servers, ProcessResponse(s)
    PROVE  LET m == Head(to_worker[s])
           IN  /\ m = to_worker[s][1] /\ m \in KVReply \union Reply
               /\ m.ts \in Timestamps /\ m # Null
               /\ m.op \in Ops /\ m.val \in SUBSET Nat
               /\ \A t \in Servers : t # s => to_worker'[t] = to_worker[t]
               /\ to_worker'[s] = Tail(to_worker[s])
               /\ \A i \in DOMAIN to_worker'[s] :
                     /\ i + 1 \in DOMAIN to_worker[s]
                     /\ to_worker'[s][i] = to_worker[s][i + 1]
               /\ \A i \in DOMAIN to_worker[s] : i # 1 =>
                     /\ i - 1 \in DOMAIN to_worker'[s]
                     /\ to_worker'[s][i - 1] = to_worker[s][i]
               /\ \A ts : Out(s, ts)' <=> Out(s, ts) /\ ts # m.ts
               /\ Out(s, m.ts)
               /\ \A t \in Servers : \A ts : t # s => (Out(t, ts)' <=> Out(t, ts))
               /\ recv_kvs' = IF m.op = "pull"
                              THEN [recv_kvs EXCEPT ![m.ts] =
                                      Append(@, [server |-> s, val |-> m.val])]
                              ELSE recv_kvs
               /\ UNCHANGED <<callbacks, filled>>
<1> DEFINE m == Head(to_worker[s])
<1> USE DEF Shared
<1>1. to_worker \in [Servers -> Seq(KVReply \union Reply)] /\ to_worker[s] # <<>>
  BY Zenon DEF Types, ProcessResponse
<1>2. /\ m = to_worker[s][1] /\ 1 \in DOMAIN to_worker[s]
      /\ m \in KVReply \union Reply
  BY <1>1
<1>3. m.ts \in Timestamps
  BY <1>2 DEF Once
<1>4. m # Null
  BY <1>2, KVAssumption, AFAssumption
<1>5. m.op \in Ops /\ m.val \in SUBSET Nat
  BY <1>2 DEF KVReply, Reply, Ops
<1>6. to_worker' = [to_worker EXCEPT ![s] = Tail(@)]
  BY Zenon DEF ProcessResponse
<1>7. /\ \A t \in Servers : t # s => to_worker'[t] = to_worker[t]
      /\ to_worker'[s] = Tail(to_worker[s])
  BY <1>1, <1>6
<1>8. /\ \A i \in DOMAIN to_worker'[s] :
            /\ i + 1 \in DOMAIN to_worker[s]
            /\ to_worker'[s][i] = to_worker[s][i + 1]
      /\ \A i \in DOMAIN to_worker[s] : i # 1 =>
            /\ i - 1 \in DOMAIN to_worker'[s]
            /\ to_worker'[s][i - 1] = to_worker[s][i]
  BY <1>1, <1>7
<1>9. \A i, j \in DOMAIN to_worker[s] : to_worker[s][i].ts = to_worker[s][j].ts => i = j
  BY DEF Once
<1>10. \A ts : Out(s, ts)' <=> Out(s, ts) /\ ts # m.ts
  <2> SUFFICES ASSUME NEW ts
               PROVE  Out(s, ts)' <=> Out(s, ts) /\ ts # m.ts
    OBVIOUS
  <2>1. ASSUME NEW i \in DOMAIN to_worker'[s], to_worker'[s][i].ts = ts
        PROVE  Out(s, ts) /\ ts # m.ts
    <3>1. i + 1 \in DOMAIN to_worker[s] /\ i + 1 # 1
      BY <1>1, <1>7, <1>8
    <3> QED
      BY <3>1, <2>1, <1>2, <1>8, <1>9 DEF Out
  <2>2. ASSUME NEW i \in DOMAIN to_worker[s], to_worker[s][i].ts = ts, ts # m.ts
        PROVE  Out(s, ts)'
    BY <2>2, <1>2, <1>8 DEF Out
  <2> QED
    BY <2>1, <2>2 DEF Out
<1>11. Out(s, m.ts)
  BY <1>2 DEF Out
<1>12. \A t \in Servers : \A ts : t # s => (Out(t, ts)' <=> Out(t, ts))
  BY <1>7 DEF Out
<1>13. NumResponse(m.ts) # num_servers - 1
  BY <1>3, Entries, Numbers DEF NumResponse
<1>14. /\ recv_kvs' = IF m.op = "pull"
                      THEN [recv_kvs EXCEPT ![m.ts] =
                              Append(@, [server |-> s, val |-> m.val])]
                      ELSE recv_kvs
       /\ UNCHANGED <<callbacks, filled>>
  BY <1>13, Zenon DEF ProcessResponse
<1> QED
  BY <1>2, <1>3, <1>4, <1>5, <1>7, <1>8, <1>10, <1>11, <1>12, <1>14, Zenon

(* What a server owes does not depend on the receiving thread.             *)
LEMMA OwesSame ==
    ASSUME UNCHANGED <<app, pc, cur, to_server, pending, response_queue, batch_data,
                       pushpull_queue, sender>>,
           Len(tracker)' = Len(tracker)
    PROVE  \A s, ts : Owes(s, ts)' <=> Owes(s, ts)
BY DEF Owes, KVOwes, AFOwes, Handled, Sent, QueueFirst, Enqueued, PendingTs

(* DirectProcess, up to the count.                                         *)
LEMMA SharedProcessResponse ==
    ASSUME Shared, NEW s \in Servers, ProcessResponse(s), UNCHANGED afVars
    PROVE  Shared'
<1>a. PICK m : m = Head(to_worker[s])
  OBVIOUS
<1>0. /\ UNCHANGED <<app, num_servers, tracker, waited, pc, cur, to_server, pending,
                     response_queue, batch_data, pushpull_queue, sender>>
      /\ rcv = Null /\ rcv' = m /\ raced' = growing
  BY <1>a, Zenon DEF ProcessResponse, confVars, tableVars, programVars, afVars, workerVars,
              serverVars, senderVars
<1>1. Servers' = Servers /\ Timestamps' = Timestamps
  BY <1>0 DEF Servers, Timestamps
<1>2. /\ m \in KVReply \union Reply /\ m.ts \in Timestamps /\ m # Null
      /\ m.val \in SUBSET Nat
  BY <1>a, AnswerTaken, Zenon
<1>3. Types /\ Counted /\ Once /\ WaitedFinished
  BY DEF Shared
<1>4. Types'
  <2>1. to_worker' \in [Servers -> Seq(KVReply \union Reply)]
    BY <1>3 DEF ProcessResponse, Types
  <2>2. /\ recv_kvs' \in [0 .. MaxRequests[num_servers] - 1 -> Seq(Part)]
        /\ \A ts \in DOMAIN recv_kvs' : ts >= Len(tracker) => recv_kvs'[ts] = <<>>
    <3>1. [server |-> s, val |-> m.val] \in Part
      BY <1>2, <1>3, Numbers DEF Part, Servers
    <3>2. m.ts \in DOMAIN recv_kvs /\ ~ (m.ts >= Len(tracker))
      BY <1>2, <1>3, Entries, Numbers DEF Timestamps
    <3>3. /\ recv_kvs \in [0 .. MaxRequests[num_servers] - 1 -> Seq(Part)]
          /\ \A ts \in DOMAIN recv_kvs : ts >= Len(tracker) => recv_kvs[ts] = <<>>
      BY <1>3 DEF Types
    <3>4. \/ recv_kvs' = recv_kvs
          \/ recv_kvs' = [recv_kvs EXCEPT ![m.ts] =
                            Append(@, [server |-> s, val |-> m.val])]
      BY <1>a, AnswerTaken, Zenon
    <3>5. Append(recv_kvs[m.ts], [server |-> s, val |-> m.val]) \in Seq(Part)
      BY <3>1, <3>2, <3>3
    <3>6. CASE recv_kvs' = [recv_kvs EXCEPT ![m.ts] =
                              Append(@, [server |-> s, val |-> m.val])]
      BY <3>2, <3>3, <3>5, <3>6
    <3> QED
      BY <3>3, <3>4, <3>6, Zenon
  <2>3. rcv' \in KVReply \union Reply \union {Null}
    BY <1>0, <1>2
  <2>4. /\ app \in Apps /\ num_servers \in ServerCounts
        /\ tracker \in Seq(Counter)
        /\ Len(tracker) <= MaxRequests[num_servers]
        /\ \A ts \in Timestamps : tracker[ts + 1].count = num_servers
        /\ waited \subseteq Timestamps
    BY <1>3 DEF Types
  <2> QED
    BY <1>0, <1>1, <1>2, <2>1, <2>2, <2>3, <2>4 DEF Types
<1>5. \A t, ts : Owes(t, ts)' <=> Owes(t, ts)
  BY <1>0, OwesSame
<1>6. ~Owes(s, m.ts)
  BY <1>a, <1>3, AnswerTaken, ZenonT(30) DEF Once, Out
<1>7. s \in Unanswered(m.ts)
  BY <1>a, AnswerTaken, Zenon DEF Unanswered
<1>8. /\ Unanswered(m.ts)' = Unanswered(m.ts) \ {s}
      /\ \A ts \in Timestamps : ts # m.ts => Unanswered(ts)' = Unanswered(ts)
  <2>1. /\ \A ts : Out(s, ts)' <=> Out(s, ts) /\ ts # m.ts
        /\ \A t \in Servers : \A ts : t # s => (Out(t, ts)' <=> Out(t, ts))
    BY <1>a, AnswerTaken, Zenon
  <2>2. \A ts : Unanswered(ts)' = {t \in Servers : Owes(t, ts) \/ Out(t, ts)'}
    BY <1>1, <1>5, Zenon DEF Unanswered
  <2> QED
    BY <2>1, <2>2, <1>6 DEF Unanswered
<1>9. Cardinality(Unanswered(m.ts)') = Cardinality(Unanswered(m.ts)) - 1
  BY <1>3, <1>7, <1>8, UnansweredFinite, FS_RemoveElement, Zenon
<1>10. \A ts : Taken(ts) = 0 /\ Taken(ts)' = IF ts = m.ts THEN 1 ELSE 0
  BY <1>0, <1>2 DEF Taken
<1>11. Counted'
  <2> SUFFICES ASSUME NEW ts \in Timestamps
               PROVE  tracker[ts + 1].response_count + Cardinality(Unanswered(ts)')
                        + Taken(ts)' = num_servers
    BY <1>0, <1>1 DEF Counted
  <2>1. tracker[ts + 1].response_count + Cardinality(Unanswered(ts)) + Taken(ts)
          = num_servers
    BY <1>3 DEF Counted
  <2>2. /\ tracker[ts + 1].response_count \in Nat
        /\ Cardinality(Unanswered(ts)) \in Nat
    BY <1>3, Entries, UnansweredFinite
  <2>3. CASE ts = m.ts
    BY <2>1, <2>2, <2>3, <1>9, <1>10
  <2>4. CASE ts # m.ts
    BY <2>1, <2>2, <2>4, <1>8, <1>10
  <2> QED
    BY <2>3, <2>4
<1>12. Once'
  <2> SUFFICES ASSUME NEW t \in Servers
               PROVE  /\ \A i \in DOMAIN to_worker'[t] :
                            /\ to_worker'[t][i].ts \in Timestamps
                            /\ ~Owes(t, to_worker'[t][i].ts)
                      /\ \A i, j \in DOMAIN to_worker'[t] :
                            to_worker'[t][i].ts = to_worker'[t][j].ts => i = j
    BY <1>1, <1>5, Zenon DEF Once
  <2>1. /\ \A i \in DOMAIN to_worker[t] :
              to_worker[t][i].ts \in Timestamps /\ ~Owes(t, to_worker[t][i].ts)
        /\ \A i, j \in DOMAIN to_worker[t] :
              to_worker[t][i].ts = to_worker[t][j].ts => i = j
    BY <1>3, Zenon DEF Once
  <2>2. CASE t # s
    BY <2>1, <2>2, AnswerTaken, ZenonT(30)
  <2>3. CASE t = s
    <3>1. \A i \in DOMAIN to_worker'[s] : /\ i + 1 \in DOMAIN to_worker[s]
                                          /\ to_worker'[s][i] = to_worker[s][i + 1]
      BY AnswerTaken, Zenon
    <3>2. DOMAIN to_worker'[s] \subseteq Int
      <4>1. to_worker'[s] \in Seq(KVReply \union Reply)
        BY <1>1, <1>4, Zenon DEF Types
      <4> QED
        BY <4>1
    <3>3. \A i, j \in Int : i + 1 = j + 1 => i = j
      OBVIOUS
    <3> QED
      BY <2>1, <2>3, <3>1, <3>2, <3>3
  <2> QED
    BY <2>2, <2>3, Zenon
<1>13. WaitedFinished'
  BY <1>0, <1>3, Zenon DEF WaitedFinished, Finished
<1>14. RaceNeedsOverlap'
  <2>1. m.ts \notin waited
    BY <1>2, <1>3, <1>7, NotFinished, Zenon
  <2>2. m.ts + 1 \in DOMAIN tracker /\ (m.ts + 1) - 1 = m.ts
    BY <1>2, <1>3, Entries
  <2> QED
    BY <1>0, <2>1, <2>2 DEF RaceNeedsOverlap
<1> QED
  BY <1>4, <1>11, <1>12, <1>13, <1>14 DEF Shared

(* The count of DirectProcess.                                             *)
LEMMA SharedCountResponse ==
    ASSUME Shared, CountResponse, UNCHANGED afVars
    PROVE  /\ Shared'
           /\ rcv.ts \in Timestamps /\ Len(tracker') = Len(tracker)
           /\ \A ts \in Timestamps : tracker'[ts + 1].response_count =
                 tracker[ts + 1].response_count + Taken(ts)
           /\ \A ts \in Timestamps : Finished(ts) => Finished(ts)'
<1>1. Types /\ Counted /\ Once /\ WaitedFinished
  BY DEF Shared
<1>2. /\ UNCHANGED <<app, num_servers, waited, recv_kvs, to_worker, pc, cur, to_server,
                     pending, response_queue, batch_data, pushpull_queue, sender>>
      /\ rcv # Null /\ rcv' = Null /\ raced' = growing
      /\ tracker' = [tracker EXCEPT ![rcv.ts + 1].response_count = @ + 1]
  BY DEF CountResponse, confVars, pullVars, netVars, programVars, afVars, workerVars,
         serverVars, senderVars
<1>3. rcv.ts \in Timestamps /\ tracker \in Seq(Counter)
  BY <1>1, <1>2 DEF Types
<1>4. rcv.ts \in Nat /\ rcv.ts + 1 \in DOMAIN tracker
  BY <1>1, <1>3, Entries
<1>5. /\ tracker' \in Seq(Counter) /\ Len(tracker') = Len(tracker)
      /\ DOMAIN tracker' = DOMAIN tracker
      /\ \A i \in DOMAIN tracker :
            /\ tracker'[i].count = tracker[i].count
            /\ tracker'[i].response_count =
                  IF i = rcv.ts + 1 THEN tracker[i].response_count + 1
                                    ELSE tracker[i].response_count
  <2>1. /\ DOMAIN tracker = 1 .. Len(tracker) /\ Len(tracker) \in Nat
        /\ \A i \in DOMAIN tracker : tracker[i] \in Counter
    BY <1>3
  <2>2. DOMAIN tracker' = DOMAIN tracker
    BY <1>2
  <2>3. \A i \in DOMAIN tracker :
           tracker'[i] = IF i = rcv.ts + 1
                         THEN [tracker[i] EXCEPT !.response_count = @ + 1]
                         ELSE tracker[i]
    BY <1>2, <1>4, <2>1, Zenon
  <2>4. \A i \in DOMAIN tracker :
            /\ tracker'[i] \in Counter
            /\ tracker'[i].count = tracker[i].count
            /\ tracker'[i].response_count =
                  IF i = rcv.ts + 1 THEN tracker[i].response_count + 1
                                    ELSE tracker[i].response_count
    <3>1. \A c \in Counter : LET d == [c EXCEPT !.response_count = @ + 1]
                            IN  /\ d \in Counter /\ d.count = c.count
                                /\ d.response_count = c.response_count + 1
      BY DEF Counter
    <3> QED
      BY <2>1, <2>3, <3>1, Zenon
  <2>5. tracker' = [i \in 1 .. Len(tracker) |-> tracker'[i]]
    BY <1>2, <2>1, <2>2, Zenon
  <2>6. tracker' \in Seq(Counter) /\ Len(tracker') = Len(tracker)
    BY <2>1, <2>4, <2>5
  <2> QED
    BY <2>2, <2>4, <2>6
<1>6. Servers' = Servers /\ Timestamps' = Timestamps
  BY <1>2, <1>5 DEF Servers, Timestamps
<1>7. \A ts \in Timestamps : /\ ts \in Nat /\ ts + 1 \in DOMAIN tracker
                             /\ tracker[ts + 1].count = num_servers
                             /\ tracker[ts + 1].response_count \in Nat
  BY <1>1, Entries
<1>8. \A ts \in Timestamps :
         /\ tracker'[ts + 1].count = num_servers
         /\ Taken(ts) = (IF rcv.ts = ts THEN 1 ELSE 0) /\ Taken(ts)' = 0
         /\ tracker'[ts + 1].response_count = tracker[ts + 1].response_count + Taken(ts)
  BY <1>2, <1>4, <1>5, <1>7 DEF Taken
<1>9. Types'
  <2>1. /\ app \in Apps /\ num_servers \in ServerCounts
        /\ Len(tracker) <= MaxRequests[num_servers]
        /\ waited \subseteq Timestamps
        /\ recv_kvs \in [0 .. MaxRequests[num_servers] - 1 -> Seq(Part)]
        /\ \A ts \in DOMAIN recv_kvs : ts >= Len(tracker) => recv_kvs[ts] = <<>>
        /\ to_worker \in [Servers -> Seq(KVReply \union Reply)]
    BY <1>1, Zenon DEF Types
  <2> QED
    BY <1>2, <1>5, <1>6, <1>8, <2>1, Zenon DEF Types
<1>10. \A t, ts : Owes(t, ts)' <=> Owes(t, ts)
  BY <1>2, <1>5, OwesSame
<1>11. \A ts \in Timestamps : Unanswered(ts)' = Unanswered(ts)
  BY <1>2, <1>6, <1>10 DEF Unanswered, Out
<1>12. Counted'
  <2> SUFFICES ASSUME NEW ts \in Timestamps
               PROVE  tracker'[ts + 1].response_count + Cardinality(Unanswered(ts))
                        + Taken(ts)' = num_servers
    BY <1>2, <1>6, <1>11, Zenon DEF Counted
  <2>1. tracker[ts + 1].response_count + Cardinality(Unanswered(ts)) + Taken(ts)
          = num_servers
    BY <1>1 DEF Counted
  <2>2. Cardinality(Unanswered(ts)) \in Nat
    BY <1>1, UnansweredFinite
  <2> QED
    BY <2>1, <2>2, <1>7, <1>8
<1>13. Once'
  BY <1>1, <1>2, <1>6, <1>10 DEF Once
<1>14. \A ts \in Timestamps : Finished(ts) => Finished(ts)'
  <2> SUFFICES ASSUME NEW ts \in Timestamps, Finished(ts)
               PROVE  Finished(ts)'
    OBVIOUS
  <2>1. Taken(ts) = 0
    BY <1>1, FinishedAnswered
  <2> QED
    BY <2>1, <1>7, <1>8 DEF Finished
<1>15. WaitedFinished'
  BY <1>1, <1>2, <1>14, Zenon DEF WaitedFinished, Types
<1>16. RaceNeedsOverlap'
  <2>1. rcv.ts \notin waited
    BY <1>1, <1>2, <1>3, <1>8, NotFinished, Zenon
  <2>2. rcv.ts + 1 \in DOMAIN tracker' /\ (rcv.ts + 1) - 1 = rcv.ts
    BY <1>3, <1>4, <1>5
  <2> QED
    BY <1>2, <2>1, <2>2 DEF RaceNeedsOverlap
<1> QED
  BY <1>3, <1>5, <1>8, <1>9, <1>12, <1>13, <1>14, <1>15, <1>16, Zenon DEF Shared

(* NewRequest: a timestamp that every server owes.                         *)
LEMMA SharedNewRequest ==
    ASSUME Shared, Len(tracker) < MaxRequests[num_servers],
           tracker' = Append(tracker, [count |-> num_servers, response_count |-> 0]),
           UNCHANGED <<app, num_servers, waited, recv_kvs, to_worker, rcv>>, ~raced',
           \A s \in Servers, ts \in Timestamps : Owes(s, ts)' <=> Owes(s, ts),
           \A s \in Servers : \A ts : ts = Len(tracker) => Owes(s, ts)'
    PROVE  Shared' /\ Timestamps' = Timestamps \union {Len(tracker)}
<1>1. Types /\ Counted /\ Once /\ WaitedFinished
  BY DEF Shared
<1>2. num_servers \in Nat \ {0} /\ Len(tracker) \in Nat /\ tracker \in Seq(Counter)
  BY <1>1, Numbers DEF Types
<1>3. /\ Len(tracker') = Len(tracker) + 1 /\ tracker' \in Seq(Counter)
      /\ tracker'[Len(tracker) + 1] = [count |-> num_servers, response_count |-> 0]
      /\ \A i \in 1 .. Len(tracker) : tracker'[i] = tracker[i]
  BY <1>2 DEF Counter
<1>4. Timestamps' = Timestamps \union {Len(tracker)} /\ Len(tracker) \notin Timestamps
  BY <1>2, <1>3 DEF Timestamps
<1>5. Servers' = Servers
  BY DEF Servers
<1>6. \A ts \in Timestamps : ts + 1 \in 1 .. Len(tracker)
  BY <1>2 DEF Timestamps
<1>7. Types'
  <2>1. /\ app \in Apps /\ num_servers \in ServerCounts
        /\ \A ts \in Timestamps : tracker[ts + 1].count = num_servers
        /\ waited \subseteq Timestamps
        /\ recv_kvs \in [0 .. MaxRequests[num_servers] - 1 -> Seq(Part)]
        /\ \A ts \in DOMAIN recv_kvs : ts >= Len(tracker) => recv_kvs[ts] = <<>>
        /\ to_worker \in [Servers -> Seq(KVReply \union Reply)]
        /\ rcv \in KVReply \union Reply \union {Null}
        /\ rcv # Null => rcv.ts \in Timestamps
    BY <1>1 DEF Types
  <2>2. \A ts \in Timestamps' : tracker'[ts + 1].count = num_servers
    BY <1>3, <1>4, <1>6, <2>1
  <2>3. Len(tracker') <= MaxRequests[num_servers]
    BY <1>1, <1>2, <1>3, Numbers
  <2>4. \A ts \in DOMAIN recv_kvs : ts >= Len(tracker') => recv_kvs[ts] = <<>>
    BY <1>2, <1>3, <2>1
  <2> QED
    BY <1>3, <1>4, <1>5, <2>1, <2>2, <2>3, <2>4, Zenon DEF Types
<1>8. \A s \in Servers : \A ts : Out(s, ts)' <=> Out(s, ts)
  BY DEF Out
<1>9. /\ \A ts \in Timestamps : Unanswered(ts)' = Unanswered(ts)
      /\ \A ts : ts = Len(tracker) => Unanswered(ts)' = Servers
  BY <1>5, <1>8 DEF Unanswered
<1>10. /\ \A ts : Taken(ts)' = Taken(ts)
       /\ \A ts : ts = Len(tracker) => Taken(ts) = 0
  BY <1>1, <1>4 DEF Taken, Types
<1>11. Counted'
  <2> SUFFICES ASSUME NEW ts \in Timestamps'
               PROVE  tracker'[ts + 1].response_count + Cardinality(Unanswered(ts)')
                        + Taken(ts)' = num_servers
    BY Zenon DEF Counted
  <2>1. CASE ts \in Timestamps
    BY <2>1, <1>1, <1>3, <1>6, <1>9, <1>10 DEF Counted
  <2>2. CASE ts = Len(tracker)
    <3>1. Cardinality(Servers) = num_servers
      BY <1>1, UnansweredFinite
    <3> QED
      BY <2>2, <3>1, <1>2, <1>3, <1>9, <1>10
  <2> QED
    BY <2>1, <2>2, <1>4, Zenon
<1>12. Once'
  <2> SUFFICES ASSUME NEW s \in Servers
               PROVE  /\ \A i \in DOMAIN to_worker[s] :
                            /\ to_worker[s][i].ts \in Timestamps
                            /\ ~Owes(s, to_worker[s][i].ts)'
                      /\ \A i, j \in DOMAIN to_worker[s] :
                            to_worker[s][i].ts = to_worker[s][j].ts => i = j
    BY <1>4, <1>5 DEF Once
  <2> QED
    BY <1>1 DEF Once
<1>13. WaitedFinished'
  <2> SUFFICES ASSUME NEW ts \in waited
               PROVE  Finished(ts)'
    BY DEF WaitedFinished
  <2>1. ts \in Timestamps /\ Finished(ts)
    BY <1>1 DEF Types, WaitedFinished
  <2> QED
    BY <2>1, <1>3, <1>6 DEF Finished
<1> QED
  BY <1>4, <1>7, <1>11, <1>12, <1>13 DEF Shared, RaceNeedsOverlap

-----------------------------------------------------------------------------
(* KVWorker and KVServer: one lemma for each kind of step.                 *)
(* What a server owes, with KVWorker.                                      *)
LEMMA KVOwesIs ==
    ASSUME app = "kv"
    PROVE  \A s, ts : Owes(s, ts) <=> KVOwes(s, ts)
BY DEF Owes

(* Steps of the program that no message takes part in.                     *)
LEMMA KVProgramSteps ==
    ASSUME Shared, KVInv, app = "kv", UNCHANGED kvProofVars,
           ~raced' \/ UNCHANGED <<raced, waited>>,
           pc' = pc \/ (pc # "send" /\ pc' # "send"),
           waited' \subseteq Timestamps, \A ts \in waited' : Finished(ts),
           pc' \in {"idle", "alloc", "send", "wait"},
           pc' \in {"alloc", "send"} => cur' \in [op : Ops, slice : SUBSET Servers],
           pc' = "alloc" => Len(tracker) < MaxRequests[num_servers],
           pc' = "send" => cur' = cur,
           pc' = "wait" => cur'.ts \in Timestamps
    PROVE  Shared' /\ KVInv'
<1>1. /\ UNCHANGED <<app, num_servers, tracker, requests, to_server, to_worker, rcv,
                     recv_kvs, filled, store, pushpull_queue, sender, pending,
                     response_queue>>
      /\ Servers' = Servers /\ Timestamps' = Timestamps
  BY DEF kvProofVars, Servers, Timestamps
<1>2. \A s, ts : KVOwes(s, ts)' <=> KVOwes(s, ts)
  BY <1>1 DEF KVOwes
<1>3. \A s, ts : Owes(s, ts)' <=> Owes(s, ts)
  BY <1>1, <1>2, KVOwesIs DEF Owes
<1>4. Types'
  BY <1>1 DEF Shared, Types
<1>5. Shared'
  BY <1>1, <1>3, <1>4, NothingMoves
<1>6. KVAlone'
  BY <1>1 DEF KVInv, KVAlone
<1>7. KVTypes'
  BY <1>1 DEF KVInv, KVTypes
<1>8. /\ \A ts, s : Mine(ts, s)' = Mine(ts, s)
      /\ \A s, m : ForServer(s, m)' <=> ForServer(s, m)
  BY <1>1, Zenon DEF Mine, ForServer
<1>9. KVMessages'
  <2> SUFFICES ASSUME NEW s \in Servers, NEW i \in DOMAIN to_server[s], pc' = "send"
               PROVE  to_server[s][i].ts # Len(tracker) - 1
    BY <1>1, <1>8, ZenonT(30) DEF KVInv, KVMessages
  <2> QED
    BY DEF KVInv, KVMessages
<1>10. KVSeen'
  BY <1>1, <1>8 DEF KVInv, KVSeen
<1>11. KVGot'
  <2>1. \A ts, s : (Got(ts, s)' = Got(ts, s)) /\ (Out(s, ts)' <=> Out(s, ts))
    BY <1>1 DEF Got, Out
  <2> QED
    BY <1>1, <1>2, <1>8, <2>1, ZenonT(30) DEF KVInv, KVGot
<1> QED
  BY <1>5, <1>6, <1>7, <1>9, <1>10, <1>11 DEF KVInv

(* ZPush and Pull_ get their timestamp.  The pushes that the program has   *)
(* waited for are at their servers.                                        *)
LEMMA KVCallNewRequest ==
    ASSUME Shared, KVInv, CallNewRequest, UNCHANGED afVars
    PROVE  Shared' /\ KVInv'
<1>0. /\ UNCHANGED <<app, num_servers, waited, cur, recv_kvs, filled, to_server,
                     to_worker, rcv, store, pushpull_queue, sender, pending,
                     response_queue>>
      /\ app = "kv" /\ pc = "alloc" /\ pc' = "send" /\ ~raced'
      /\ tracker' = Append(tracker, [count |-> num_servers, response_count |-> 0])
      /\ requests' = Append(requests, [op |-> cur.op, slice |-> cur.slice,
                                       seen |-> waited])
  BY DEF CallNewRequest, NewRequest, Running, confVars, endVars, netVars, peerVars,
         afVars, workerVars, senderVars, serverVars
<1>1. Types /\ Counted /\ Once /\ WaitedFinished
  BY DEF Shared
<1>2. KVAlone /\ KVTypes /\ KVMessages /\ KVSeen /\ KVGot
  BY DEF KVInv
<1>3. /\ Len(tracker) \in Nat /\ Len(requests) = Len(tracker)
      /\ tracker \in Seq(Counter)
      /\ requests \in Seq(KVRequest)
      /\ cur \in [op : Ops, slice : SUBSET Servers]
      /\ Len(tracker) < MaxRequests[num_servers]
  BY <1>0, <1>1, <1>2, Numbers, Zenon DEF KVTypes, Types
<1>4. /\ Len(tracker') = Len(tracker) + 1 /\ Len(requests') = Len(tracker) + 1
      /\ requests'[Len(tracker) + 1] = [op |-> cur.op, slice |-> cur.slice,
                                        seen |-> waited]
      /\ \A i \in 1 .. Len(tracker) : requests'[i] = requests[i]
  BY <1>0, <1>3
<1>5. Servers' = Servers /\ waited \subseteq Timestamps /\ waited \subseteq Nat
  BY <1>0, <1>1, <1>3 DEF Servers, Types, Timestamps
<1>6. \A ts \in Timestamps : ts \in Nat /\ ts + 1 \in 1 .. Len(tracker) /\ ts # Len(tracker)
  BY <1>3 DEF Timestamps
<1>7. \A s \in Servers : \A i \in DOMAIN to_server[s] : to_server[s][i].ts \in Timestamps
  BY <1>2, Zenon DEF KVMessages, ForServer
<1>8. /\ \A s, ts : KVOwes(s, ts)' <=> KVOwes(s, ts) \/ ts = Len(tracker)
      /\ \A s : \A ts \in Timestamps : KVOwes(s, ts)' <=> KVOwes(s, ts)
  BY <1>0, <1>3, <1>4, <1>6 DEF KVOwes
<1>9. Shared' /\ Timestamps' = Timestamps \union {Len(tracker)}
  <2>1. /\ \A s \in Servers, ts \in Timestamps : Owes(s, ts)' <=> Owes(s, ts)
        /\ \A s \in Servers : \A ts : ts = Len(tracker) => Owes(s, ts)'
    BY <1>0, <1>8, KVOwesIs DEF Owes
  <2> QED
    BY <2>1, <1>0, <1>3, SharedNewRequest
<1>10. KVTypes'
  <2>1. requests' \in Seq(KVRequest)
    <3>1. [op |-> cur.op, slice |-> cur.slice, seen |-> waited] \in KVRequest
      BY <1>1, <1>3, <1>5, Numbers DEF KVRequest, Servers
    <3> QED
      BY <1>0, <1>3, <3>1
  <2>2. \A ts \in Timestamps' : /\ requests'[ts + 1].seen \subseteq Timestamps'
                                /\ requests'[ts + 1].slice \subseteq Servers
    <3>1. \A ts \in Timestamps : /\ requests[ts + 1].seen \subseteq Timestamps
                                 /\ requests[ts + 1].slice \subseteq Servers
                                 /\ requests'[ts + 1] = requests[ts + 1]
      BY <1>2, <1>4, <1>6, Zenon DEF KVTypes
    <3>2. /\ requests'[Len(tracker) + 1].seen = waited
          /\ requests'[Len(tracker) + 1].slice \subseteq Servers
      BY <1>3, <1>4
    <3> QED
      BY <1>5, <1>9, <3>1, <3>2, Zenon
  <2>3. tracker' # <<>>
    BY <1>0, <1>3
  <2>4. /\ to_server \in [Servers -> Seq(KVMessage)]
        /\ store \in [Servers -> SUBSET Nat]
    BY <1>2 DEF KVTypes
  <2>5. /\ requests'[Len(tracker')].op = cur'.op
        /\ requests'[Len(tracker')].slice = cur'.slice
    BY <1>0, <1>4
  <2> QED
    BY <1>0, <1>3, <1>4, <1>5, <2>1, <2>2, <2>3, <2>4, <2>5, Zenon DEF KVTypes
<1>11. \A ts \in Timestamps : \A s : Mine(ts, s)' = Mine(ts, s)
  <2>1. \A ts \in Timestamps : /\ requests'[ts + 1] = requests[ts + 1]
                               /\ requests[ts + 1].seen \subseteq Timestamps
    BY <1>2, <1>4, <1>6 DEF KVTypes
  <2> QED
    BY <2>1 DEF Mine
<1>12. KVMessages'
  <2> SUFFICES ASSUME NEW s \in Servers
               PROVE  /\ \A i \in DOMAIN to_server[s] :
                            /\ ForServer(s, to_server[s][i])'
                            /\ to_server[s][i].ts # Len(tracker') - 1
                      /\ \A i, j \in DOMAIN to_server[s] :
                            to_server[s][i].ts = to_server[s][j].ts => i = j
                      /\ \A i \in DOMAIN to_worker[s] :
                            LET m == to_worker[s][i]
                            IN  /\ ForServer(s, m)'
                                /\ m.op = "push" => m.ts \in store[s]
                                /\ m.op = "pull" => Mine(m.ts, s)' \subseteq m.val
    BY <1>0, <1>5, ZenonT(30) DEF KVMessages
  <2>1. \A m : ForServer(s, m) => ForServer(s, m)'
    BY <1>4, <1>6, <1>9, Zenon DEF ForServer
  <2>2. \A i \in DOMAIN to_server[s] : to_server[s][i].ts # Len(tracker') - 1
    BY <1>3, <1>4, <1>6, <1>7
  <2>3. \A i \in DOMAIN to_worker[s] : to_worker[s][i].ts \in Timestamps
    BY <1>1 DEF Once
  <2>4. /\ \A i \in DOMAIN to_server[s] : ForServer(s, to_server[s][i])
        /\ \A i, j \in DOMAIN to_server[s] :
              to_server[s][i].ts = to_server[s][j].ts => i = j
        /\ \A i \in DOMAIN to_worker[s] :
              LET m == to_worker[s][i]
              IN  /\ ForServer(s, m)
                  /\ m.op = "push" => m.ts \in store[s]
                  /\ m.op = "pull" => Mine(m.ts, s) \subseteq m.val
    BY <1>2, Zenon DEF KVMessages
  <2>5. ASSUME NEW i \in DOMAIN to_worker[s]
        PROVE  LET m == to_worker[s][i]
               IN  /\ ForServer(s, m)'
                   /\ m.op = "push" => m.ts \in store[s]
                   /\ m.op = "pull" => Mine(m.ts, s)' \subseteq m.val
    BY <1>0, <1>11, <2>1, <2>3, <2>4, Zenon
  <2> QED
    BY <1>0, <2>1, <2>2, <2>4, <2>5, Zenon
<1>13. KVSeen'
  <2> SUFFICES ASSUME NEW ts \in Timestamps', NEW s \in Servers
               PROVE  Mine(ts, s)' \subseteq store[s]
    BY <1>0, <1>5 DEF KVSeen
  <2>1. CASE ts \in Timestamps
    BY <2>1, <1>2, <1>11 DEF KVSeen
  <2>2. CASE ts = Len(tracker)
    <3> SUFFICES ASSUME NEW p \in waited, requests'[p + 1].op = "push",
                        s \in requests'[p + 1].slice
                 PROVE  p \in store[s]
      BY <2>2, <1>4 DEF Mine
    <3>1. /\ p \in Timestamps /\ requests[p + 1].op = "push"
          /\ s \in requests[p + 1].slice
      BY <1>4, <1>5, <1>6
    <3>2. Unanswered(p) = {}
      BY <1>1, <3>1, FinishedAnswered DEF WaitedFinished
    <3>3. ~KVOwes(s, p)
      BY <1>0, <3>2, KVOwesIs, Zenon DEF Unanswered
    <3> QED
      BY <1>2, <3>1, <3>3 DEF KVGot
  <2> QED
    BY <2>1, <2>2, <1>9
<1>14. KVGot'
  <2> SUFFICES ASSUME NEW ts \in Timestamps', NEW s \in requests'[ts + 1].slice
               PROVE  /\ requests'[ts + 1].op = "push" /\ ~KVOwes(s, ts)' => ts \in store[s]
                      /\ requests'[ts + 1].op = "pull" =>
                           IF KVOwes(s, ts)' \/ Out(s, ts)' THEN Got(ts, s)' = {}
                           ELSE ts \notin filled =>
                                  /\ Cardinality(Got(ts, s)') = 1
                                  /\ \A i \in Got(ts, s)' :
                                        Mine(ts, s)' \subseteq recv_kvs[ts][i].val
    BY <1>0, Zenon DEF KVGot
  <2>1. Got(ts, s)' = Got(ts, s) /\ (Out(s, ts)' <=> Out(s, ts))
    BY <1>0, Zenon DEF Got, Out
  <2>2. CASE ts \in Timestamps
    <3>1. requests'[ts + 1] = requests[ts + 1]
      BY <2>2, <1>4, <1>6, Zenon
    <3>2. /\ requests[ts + 1].op = "push" /\ ~KVOwes(s, ts) => ts \in store[s]
          /\ requests[ts + 1].op = "pull" =>
               IF KVOwes(s, ts) \/ Out(s, ts) THEN Got(ts, s) = {}
               ELSE ts \notin filled =>
                      /\ Cardinality(Got(ts, s)) = 1
                      /\ \A i \in Got(ts, s) : Mine(ts, s) \subseteq recv_kvs[ts][i].val
      BY <2>2, <3>1, <1>2, Zenon DEF KVGot
    <3> QED
      BY <2>1, <2>2, <3>1, <3>2, <1>8, <1>11, Zenon
  <2>3. CASE ts = Len(tracker)
    <3>1. KVOwes(s, ts)'
      BY <2>3, <1>8, Zenon
    <3>2. ts \in DOMAIN recv_kvs /\ recv_kvs[ts] = <<>>
      BY <2>3, <1>1, <1>3, Numbers DEF Types
    <3> QED
      BY <2>1, <3>1, <3>2 DEF Got
  <2> QED
    BY <2>2, <2>3, <1>9, Zenon
<1>15. KVAlone'
  BY <1>0, <1>2, <1>5, Zenon DEF KVAlone
<1> QED
  BY <1>9, <1>10, <1>12, <1>13, <1>14, <1>15 DEF KVInv

(* Send: servers without keys count at once, the others get the request.   *)
LEMMA KVSend ==
    ASSUME Shared, KVInv, app = "kv", Send, UNCHANGED afVars
    PROVE  Shared' /\ KVInv'
<1>a. PICK last : last = Len(tracker) - 1
  OBVIOUS
<1>b. PICK slice : slice = cur.slice
  OBVIOUS
<1>0. /\ UNCHANGED <<app, num_servers, requests, waited, cur, to_worker, rcv, store,
                     pushpull_queue, sender, pending, response_queue>>
      /\ pc = "send" /\ pc' = "idle" /\ ~raced'
      /\ tracker' = [tracker EXCEPT ![last + 1].response_count = @ + Skipped(slice)]
      /\ to_server' = [s \in Servers |->
                          IF s \in slice
                          THEN Append(to_server[s], [op |-> cur.op, ts |-> last, cmd |-> 0])
                          ELSE to_server[s]]
  BY <1>a, <1>b DEF Send, Running, confVars, endVars, peerVars, afVars, workerVars,
                    senderVars, serverVars
<1>1. Types /\ Counted /\ Once /\ WaitedFinished
  BY DEF Shared
<1>2. KVAlone /\ KVTypes /\ KVMessages /\ KVSeen /\ KVGot
  BY DEF KVInv
<1>3. /\ num_servers \in Nat \ {0} /\ Len(tracker) \in Nat /\ tracker \in Seq(Counter)
      /\ Len(requests) = Len(tracker) /\ Len(tracker) # 0
      /\ cur \in [op : Ops, slice : SUBSET Servers]
      /\ requests[last + 1].op = cur.op /\ requests[last + 1].slice = slice
      /\ to_server \in [Servers -> Seq(KVMessage)]
  <2>1. /\ num_servers \in Nat \ {0} /\ Len(tracker) \in Nat /\ tracker \in Seq(Counter)
    BY <1>1, Numbers DEF Types
  <2>2. last + 1 = Len(tracker)
    BY <1>a, <2>1
  <2>3. Len(tracker) # 0
    BY <1>0, <1>2, <2>1 DEF KVTypes
  <2> QED
    BY <1>0, <1>b, <1>2, <2>1, <2>2, <2>3 DEF KVTypes
<1>4. last \in Timestamps /\ last \in Nat /\ slice \in SUBSET Servers
  BY <1>a, <1>b, <1>3 DEF Timestamps
<1>5. /\ IsFiniteSet(Servers) /\ Cardinality(Servers) = num_servers
      /\ IsFiniteSet(slice) /\ Cardinality(slice) \in 0 .. num_servers
  <2>1. IsFiniteSet(Servers) /\ Cardinality(Servers) = num_servers
    BY <1>1, UnansweredFinite
  <2>2. IsFiniteSet(slice) /\ Cardinality(slice) <= num_servers
    BY <1>4, <2>1, FS_Subset
  <2>3. Cardinality(slice) \in Nat
    BY <2>2, FS_CardinalityType
  <2> QED
    BY <1>3, <2>1, <2>2, <2>3
<1>6. Servers' = Servers
  BY <1>0 DEF Servers
<1>7. \A s \in Servers : \A ts :
         /\ KVOwes(s, ts)' <=> IF ts = last THEN s \in slice ELSE KVOwes(s, ts)
         /\ ts = last => KVOwes(s, ts)
  <2>0. \A s, ts : ts = last => KVOwes(s, ts)
    BY <1>0, <1>a DEF KVOwes
  <2> SUFFICES ASSUME NEW s \in Servers, NEW ts
               PROVE  KVOwes(s, ts)' <=> IF ts = last THEN s \in slice ELSE KVOwes(s, ts)
    BY <2>0
  <2>1. \A i \in DOMAIN to_server[s] : to_server[s][i].ts # last
    BY <1>0, <1>2, <1>a, Zenon DEF KVMessages
  <2>2. CASE s \notin slice
    BY <2>1, <2>2, <1>0, <1>6, <1>a DEF KVOwes
  <2>3. CASE s \in slice
    <3>1. to_server'[s] = Append(to_server[s], [op |-> cur.op, ts |-> last, cmd |-> 0])
      BY <2>3, <1>0
    <3>2. /\ DOMAIN to_server'[s] = DOMAIN to_server[s] \union {Len(to_server[s]) + 1}
          /\ to_server'[s][Len(to_server[s]) + 1].ts = last
          /\ \A i \in DOMAIN to_server[s] : to_server'[s][i] = to_server[s][i]
      BY <3>1, <1>3
    <3> QED
      BY <2>1, <2>3, <3>2, <1>0, <1>a, Zenon DEF KVOwes
  <2> QED
    BY <2>2, <2>3
<1>8. /\ \A ts \in Timestamps : ts # last =>
            Unanswered(ts)' = Unanswered(ts)
      /\ Unanswered(last) = Servers /\ Unanswered(last)' = slice
  <2>1. \A s \in Servers : ~Out(s, last)
    BY <1>1, <1>7, KVOwesIs DEF Once, Out
  <2>2. \A s, ts : Out(s, ts)' <=> Out(s, ts)
    BY <1>0 DEF Out
  <2>3. \A s, ts : Owes(s, ts)' <=> KVOwes(s, ts)'
    BY <1>0, KVOwesIs DEF Owes
  <2> QED
    BY <1>4, <1>6, <1>7, <2>1, <2>2, <2>3, KVOwesIs DEF Unanswered
<1>9. /\ tracker' \in Seq(Counter) /\ Len(tracker') = Len(tracker)
      /\ \A i \in DOMAIN tracker :
            /\ tracker'[i].count = tracker[i].count
            /\ tracker'[i].response_count =
                  IF i = last + 1 THEN tracker[i].response_count + Skipped(slice)
                                  ELSE tracker[i].response_count
  <2>1. /\ DOMAIN tracker = 1 .. Len(tracker)
        /\ \A i \in DOMAIN tracker : tracker[i] \in Counter
    BY <1>3
  <2>2. \A i \in DOMAIN tracker :
           tracker'[i] = IF i = last + 1
                         THEN [tracker[i] EXCEPT !.response_count = @ + Skipped(slice)]
                         ELSE tracker[i]
    BY <1>0, <1>4, <2>1
  <2>3. \A c \in Counter : LET d == [c EXCEPT !.response_count = @ + Skipped(slice)]
                           IN  /\ d \in Counter /\ d.count = c.count
                               /\ d.response_count = c.response_count + Skipped(slice)
    <3>1. Skipped(slice) \in Nat
      BY <1>3, <1>5 DEF Skipped
    <3> QED
      BY <3>1 DEF Counter
  <2>4. tracker' = [i \in 1 .. Len(tracker) |-> tracker'[i]]
    BY <1>0, <2>1, Zenon
  <2>5. \A i \in 1 .. Len(tracker) : tracker'[i] \in Counter
    BY <2>1, <2>2, <2>3, Zenon
  <2>6. tracker' \in Seq(Counter) /\ Len(tracker') = Len(tracker)
    <3>1. Len(tracker) \in Nat
      BY <1>3
    <3> QED
      BY <2>4, <2>5, <3>1
  <2> QED
    BY <2>1, <2>2, <2>3, <2>6, Zenon
<1>10. Timestamps' = Timestamps
  BY <1>9 DEF Timestamps
<1>11. /\ \A ts \in Timestamps : ts # last => recv_kvs'[ts] = recv_kvs[ts]
       /\ recv_kvs'[last] \in {recv_kvs[last], <<>>}
       /\ filled \subseteq filled'
       /\ recv_kvs' \in [0 .. MaxRequests[num_servers] - 1 -> Seq(Part)]
       /\ \A ts \in DOMAIN recv_kvs' : ts >= Len(tracker) => recv_kvs'[ts] = <<>>
  <2>1. /\ recv_kvs \in [0 .. MaxRequests[num_servers] - 1 -> Seq(Part)]
        /\ \A ts \in DOMAIN recv_kvs : ts >= Len(tracker) => recv_kvs[ts] = <<>>
    BY <1>1 DEF Types
  <2>2. \/ UNCHANGED <<recv_kvs, filled>>
        \/ /\ recv_kvs' = [recv_kvs EXCEPT ![last] = <<>>]
           /\ filled' = filled \union {last}
    BY <1>a DEF Send, RunCallback, pullVars
  <2>3. \A ts \in Timestamps : ts \in DOMAIN recv_kvs
    BY <1>1, Entries
  <2>4. CASE /\ recv_kvs' = [recv_kvs EXCEPT ![last] = <<>>]
             /\ filled' = filled \union {last}
    <3>1. /\ \A ts \in DOMAIN recv_kvs : ts # last => recv_kvs'[ts] = recv_kvs[ts]
          /\ DOMAIN recv_kvs' = DOMAIN recv_kvs /\ recv_kvs'[last] = <<>>
      BY <1>4, <2>1, <2>3, <2>4
    <3>2. recv_kvs' \in [0 .. MaxRequests[num_servers] - 1 -> Seq(Part)]
      <4>1. <<>> \in Seq(Part)
        OBVIOUS
      <4> QED
        BY <2>1, <2>4, <4>1, Zenon
    <3> QED
      BY <2>1, <2>3, <2>4, <3>1, <3>2
  <2>5. CASE UNCHANGED <<recv_kvs, filled>>
    BY <2>1, <2>5
  <2> QED
    BY <2>2, <2>4, <2>5
<1>12. Types'
  <2>1. \A ts \in Timestamps : tracker'[ts + 1].count = num_servers
    BY <1>1, <1>9, Entries, Zenon
  <2>2. /\ app \in Apps /\ num_servers \in ServerCounts
        /\ Len(tracker) <= MaxRequests[num_servers]
        /\ waited \subseteq Timestamps
        /\ to_worker \in [Servers -> Seq(KVReply \union Reply)]
        /\ rcv \in KVReply \union Reply \union {Null}
        /\ rcv # Null => rcv.ts \in Timestamps
    BY <1>1 DEF Types
  <2> QED
    BY <1>0, <1>6, <1>9, <1>10, <1>11, <2>1, <2>2, Zenon DEF Types
<1>13. Counted'
  <2> SUFFICES ASSUME NEW ts \in Timestamps
               PROVE  tracker'[ts + 1].response_count + Cardinality(Unanswered(ts)')
                        + Taken(ts) = num_servers
    BY <1>0, <1>10 DEF Counted, Taken
  <2>1. tracker[ts + 1].response_count + Cardinality(Unanswered(ts)) + Taken(ts)
          = num_servers
    BY <1>1, Zenon DEF Counted
  <2>2. ts + 1 \in DOMAIN tracker /\ tracker[ts + 1].response_count \in Nat /\ ts \in Nat
    BY <1>1, Entries, Zenon
  <2>3. Taken(ts) \in {0, 1}
    BY DEF Taken
  <2>4. CASE ts # last
    <3>1. tracker'[ts + 1].response_count = tracker[ts + 1].response_count
      BY <1>4, <1>9, <2>2, <2>4
    <3> QED
      BY <2>1, <2>4, <3>1, <1>8, Zenon
  <2>5. CASE ts = last
    <3>1. Cardinality(Unanswered(ts)) = num_servers
      BY <1>5, <1>8, <2>5
    <3>2. tracker'[ts + 1].response_count = tracker[ts + 1].response_count + Skipped(slice)
      BY <1>9, <2>2, <2>5, Zenon
    <3>3. Cardinality(Unanswered(ts)') = Cardinality(slice)
      BY <1>8, <2>5
    <3> QED
      BY <2>1, <2>2, <2>3, <3>1, <3>2, <3>3, <1>3, <1>5 DEF Skipped
  <2> QED
    BY <2>4, <2>5, Zenon
<1>14. Once'
  <2> SUFFICES ASSUME NEW s \in Servers
               PROVE  /\ \A i \in DOMAIN to_worker[s] :
                            /\ to_worker[s][i].ts \in Timestamps
                            /\ ~Owes(s, to_worker[s][i].ts)'
                      /\ \A i, j \in DOMAIN to_worker[s] :
                            to_worker[s][i].ts = to_worker[s][j].ts => i = j
    BY <1>0, <1>6, <1>10 DEF Once
  <2>1. \A ts : Owes(s, ts)' => Owes(s, ts)
    BY <1>0, <1>7, KVOwesIs DEF Owes
  <2> QED
    BY <1>0, <1>1, <2>1, Zenon DEF Once
<1>15. WaitedFinished'
  <2> SUFFICES ASSUME NEW ts \in waited
               PROVE  Finished(ts)'
    BY <1>0 DEF WaitedFinished
  <2>1. ts \in Timestamps /\ Finished(ts)
    BY <1>1, Zenon DEF WaitedFinished, Types
  <2>2. Unanswered(last) # {}
    <3>1. 1 \in Servers
      BY <1>3 DEF Servers
    <3> QED
      BY <1>8, <3>1
  <2>3. ts # last
    BY <1>1, <1>4, <2>2, NotFinished
  <2>4. ts \in Nat /\ ts + 1 \in DOMAIN tracker /\ ts + 1 # last + 1
    BY <1>1, <1>4, <2>1, <2>3, Entries
  <2> QED
    BY <1>9, <2>1, <2>4, Zenon DEF Finished
<1>16. KVTypes'
  <2>1. to_server' \in [Servers -> Seq(KVMessage)]
    <3>1. [op |-> cur.op, ts |-> last, cmd |-> 0] \in KVMessage
      BY <1>3, <1>4, Zenon DEF KVMessage
    <3>2. \A s \in Servers : to_server'[s] \in Seq(KVMessage)
      BY <1>0, <1>3, <3>1
    <3> QED
      BY <1>0, <3>2
  <2> QED
    BY <1>0, <1>2, <1>6, <1>9, <1>10, <2>1, Zenon DEF KVTypes
<1>17. \A ts, s : Mine(ts, s)' = Mine(ts, s)
  BY <1>0 DEF Mine
<1>18. KVMessages'
  <2> SUFFICES ASSUME NEW s \in Servers
               PROVE  /\ \A i \in DOMAIN to_server'[s] : ForServer(s, to_server'[s][i])
                      /\ \A i, j \in DOMAIN to_server'[s] :
                            to_server'[s][i].ts = to_server'[s][j].ts => i = j
    BY <1>0, <1>2, <1>6, <1>10, <1>17 DEF KVMessages, ForServer
  <2>1. /\ \A i \in DOMAIN to_server[s] :
              ForServer(s, to_server[s][i]) /\ to_server[s][i].ts # last
        /\ \A i, j \in DOMAIN to_server[s] :
              to_server[s][i].ts = to_server[s][j].ts => i = j
    BY <1>0, <1>2, <1>a, Zenon DEF KVMessages
  <2>2. CASE s \notin slice
    BY <2>1, <2>2, <1>0
  <2>3. CASE s \in slice
    <3>1. to_server'[s] = Append(to_server[s], [op |-> cur.op, ts |-> last, cmd |-> 0])
      BY <2>3, <1>0
    <3>2. /\ DOMAIN to_server'[s] = DOMAIN to_server[s] \union {Len(to_server[s]) + 1}
          /\ to_server'[s][Len(to_server[s]) + 1]
                = [op |-> cur.op, ts |-> last, cmd |-> 0]
          /\ \A i \in DOMAIN to_server[s] : to_server'[s][i] = to_server[s][i]
      BY <3>1, <1>3
    <3>3. ForServer(s, [op |-> cur.op, ts |-> last, cmd |-> 0])
      BY <1>3, <1>4, <2>3, Zenon DEF ForServer
    <3> QED
      BY <2>1, <3>2, <3>3
  <2> QED
    BY <2>2, <2>3, Zenon
<1>19. KVSeen'
  BY <1>0, <1>2, <1>6, <1>10, <1>17 DEF KVSeen
<1>20. KVGot'
  <2> SUFFICES ASSUME NEW ts \in Timestamps, NEW s \in requests[ts + 1].slice
               PROVE  /\ requests[ts + 1].op = "push" /\ ~KVOwes(s, ts)' => ts \in store[s]
                      /\ requests[ts + 1].op = "pull" =>
                           IF KVOwes(s, ts)' \/ Out(s, ts) THEN Got(ts, s)' = {}
                           ELSE ts \notin filled' =>
                                  /\ Cardinality(Got(ts, s)') = 1
                                  /\ \A i \in Got(ts, s)' :
                                        Mine(ts, s) \subseteq recv_kvs'[ts][i].val
    BY <1>0, <1>10, <1>17 DEF KVGot, Out
  <2>1. /\ requests[ts + 1].op = "push" /\ ~KVOwes(s, ts) => ts \in store[s]
        /\ requests[ts + 1].op = "pull" =>
             IF KVOwes(s, ts) \/ Out(s, ts) THEN Got(ts, s) = {}
             ELSE ts \notin filled =>
                    /\ Cardinality(Got(ts, s)) = 1
                    /\ \A i \in Got(ts, s) : Mine(ts, s) \subseteq recv_kvs[ts][i].val
    BY <1>2, Zenon DEF KVGot
  <2>2. s \in Servers
    BY <1>2, Zenon DEF KVTypes
  <2>3. CASE ts # last
    BY <2>1, <2>2, <2>3, <1>7, <1>11, Zenon DEF Got
  <2>4. CASE ts = last
    <3>1. KVOwes(s, ts) /\ KVOwes(s, ts)'
      BY <2>2, <2>4, <1>3, <1>7, Zenon
    <3>2. Got(ts, s) = {} => Got(ts, s)' = {}
      BY <2>4, <1>11 DEF Got
    <3> QED
      BY <2>1, <3>1, <3>2, Zenon
  <2> QED
    BY <2>3, <2>4, Zenon
<1>21. KVAlone'
  BY <1>0, <1>2, <1>6 DEF KVAlone
<1> QED
  BY <1>0, <1>12, <1>13, <1>14, <1>15, <1>16, <1>18, <1>19, <1>20, <1>21
     DEF Shared, KVInv, RaceNeedsOverlap

(* KVServer::Process: the value that it sends contains what was pushed.    *)
LEMMA KVProcess ==
    ASSUME Shared, KVInv, NEW s \in Servers, Process(s), UNCHANGED afVars
    PROVE  Shared' /\ KVInv'
<1>a. PICK m : m = Head(to_server[s])
  OBVIOUS
<1>b. PICK a : a = [op |-> m.op, ts |-> m.ts, val |-> store'[s]]
  BY Zenon
<1>0. /\ UNCHANGED <<app, num_servers, tracker, requests, pc, cur, waited, recv_kvs,
                     filled, rcv, pushpull_queue, sender, pending, response_queue>>
      /\ app = "kv" /\ to_server[s] # <<>> /\ ~raced'
      /\ to_server' = [to_server EXCEPT ![s] = Tail(@)]
      /\ to_worker' = [to_worker EXCEPT ![s] = Append(@, a)]
      /\ store' = IF m.op = "push" THEN [store EXCEPT ![s] = @ \union {m.ts}] ELSE store
  BY <1>a, <1>b, Zenon DEF Process, KVServerDefaultHandle, Response, Running, confVars,
         tableVars, endVars, programVars, pullVars, afVars, workerVars, senderVars,
         serverVars
<1>1. Types /\ Once
  BY DEF Shared
<1>2. KVAlone /\ KVTypes /\ KVMessages /\ KVSeen /\ KVGot
  BY DEF KVInv
<1>3. /\ to_server \in [Servers -> Seq(KVMessage)]
      /\ to_worker \in [Servers -> Seq(KVReply \union Reply)]
      /\ store \in [Servers -> SUBSET Nat]
  BY <1>1, <1>2, Zenon DEF KVTypes, Types
<1>4. /\ m = to_server[s][1] /\ 1 \in DOMAIN to_server[s] /\ m \in KVMessage
      /\ DOMAIN to_server[s] \subseteq Nat
  BY <1>0, <1>a, <1>3
<1>5. /\ ForServer(s, m) /\ (pc = "send" => m.ts # Len(tracker) - 1)
      /\ \A i, j \in DOMAIN to_server[s] : to_server[s][i].ts = to_server[s][j].ts => i = j
  BY <1>2, <1>4, Zenon DEF KVMessages
<1>6. /\ to_server'[s] = Tail(to_server[s])
      /\ \A t \in Servers : t # s => to_server'[t] = to_server[t]
      /\ \A i \in DOMAIN to_server'[s] :
            /\ i \in Nat \ {0} /\ i + 1 \in DOMAIN to_server[s]
            /\ to_server'[s][i] = to_server[s][i + 1]
      /\ \A i \in DOMAIN to_server[s] : i # 1 =>
            i - 1 \in DOMAIN to_server'[s] /\ to_server'[s][i - 1] = to_server[s][i]
  BY <1>0, <1>3
<1>7. /\ Servers' = Servers /\ Timestamps' = Timestamps
      /\ store' \in [Servers -> SUBSET Nat]
      /\ \A t \in Servers : store[t] \subseteq store'[t]
      /\ m.op = "push" => m.ts \in store'[s]
  BY <1>0, <1>3, <1>4, Zenon DEF Servers, Timestamps, KVMessage
<1>8. a \in KVReply /\ a.ts = m.ts /\ a.op = m.op /\ a.val = store'[s]
  BY <1>b, <1>4, <1>7 DEF KVReply, KVMessage, Ops
<1>9. /\ to_worker'[s] = Append(to_worker[s], a)
      /\ \A t \in Servers : t # s => to_worker'[t] = to_worker[t]
      /\ DOMAIN to_worker'[s] = DOMAIN to_worker[s] \union {Len(to_worker[s]) + 1}
      /\ to_worker'[s][Len(to_worker[s]) + 1] = a
      /\ \A i \in DOMAIN to_worker[s] : to_worker'[s][i] = to_worker[s][i]
  BY <1>0, <1>3
<1>10. \A t \in Servers : \A ts :
          KVOwes(t, ts)' <=> KVOwes(t, ts) /\ ~(t = s /\ ts = m.ts)
  <2> SUFFICES ASSUME NEW t \in Servers, NEW ts
               PROVE  KVOwes(t, ts)' <=> KVOwes(t, ts) /\ ~(t = s /\ ts = m.ts)
    OBVIOUS
  <2>1. CASE t # s
    BY <2>1, <1>0, <1>6 DEF KVOwes
  <2>2. CASE t = s
    <3>1. (\E i \in DOMAIN to_server'[s] : to_server'[s][i].ts = ts)
            <=> ts # m.ts /\ \E i \in DOMAIN to_server[s] : to_server[s][i].ts = ts
      <4>1. ASSUME NEW i \in DOMAIN to_server'[s], to_server'[s][i].ts = ts
            PROVE  ts # m.ts /\ \E j \in DOMAIN to_server[s] : to_server[s][j].ts = ts
        <5>1. i + 1 \in DOMAIN to_server[s] /\ i + 1 # 1
          BY <1>6
        <5> QED
          BY <4>1, <5>1, <1>4, <1>5, <1>6, Zenon
      <4>2. ASSUME NEW i \in DOMAIN to_server[s], to_server[s][i].ts = ts, ts # m.ts
            PROVE  \E j \in DOMAIN to_server'[s] : to_server'[s][j].ts = ts
        BY <4>2, <1>4, <1>6, Zenon
      <4> QED
        BY <4>1, <4>2
    <3> QED
      BY <2>2, <3>1, <1>0, <1>5 DEF KVOwes
  <2> QED
    BY <2>1, <2>2
<1>11. Types'
  <2>1. to_worker' \in [Servers -> Seq(KVReply \union Reply)]
    BY <1>0, <1>3, <1>8
  <2> QED
    BY <1>0, <1>1, <1>7, <2>1, Zenon DEF Types
<1>12. KVOwes(s, a.ts) /\ a.ts \in Timestamps
  BY <1>4, <1>5, <1>8, Zenon DEF KVOwes, ForServer
<1>13. Shared'
  <2>1. \A t, ts : Owes(t, ts)' <=> KVOwes(t, ts)'
    BY <1>0, KVOwesIs DEF Owes
  <2>2. /\ Owes(s, a.ts) /\ ~Owes(s, a.ts)'
        /\ \A t \in Servers, ts \in Timestamps :
              t # s \/ ts # a.ts => (Owes(t, ts)' <=> Owes(t, ts))
    BY <1>0, <1>8, <1>10, <1>12, <2>1, KVOwesIs, Zenon
  <2> QED
    BY <1>0, <1>11, <1>12, <2>2, AnswerLeaves, Zenon
<1>14. KVTypes'
  <2>1. to_server' \in [Servers -> Seq(KVMessage)]
    BY <1>0, <1>3
  <2> QED
    BY <1>0, <1>2, <1>7, <2>1, Zenon DEF KVTypes
<1>15. \A ts, t : Mine(ts, t)' = Mine(ts, t)
  BY <1>0 DEF Mine
<1>16. \A t, x : ForServer(t, x)' <=> ForServer(t, x)
  BY <1>0, <1>7, Zenon DEF ForServer
<1>17. KVMessages'
  <2> SUFFICES ASSUME NEW t \in Servers
               PROVE  /\ \A i \in DOMAIN to_server'[t] :
                            /\ ForServer(t, to_server'[t][i])
                            /\ pc = "send" => to_server'[t][i].ts # Len(tracker) - 1
                      /\ \A i, j \in DOMAIN to_server'[t] :
                            to_server'[t][i].ts = to_server'[t][j].ts => i = j
                      /\ \A i \in DOMAIN to_worker'[t] :
                            LET x == to_worker'[t][i]
                            IN  /\ ForServer(t, x)
                                /\ x.op = "push" => x.ts \in store'[t]
                                /\ x.op = "pull" => Mine(x.ts, t) \subseteq x.val
    BY <1>0, <1>7, <1>15, <1>16, Zenon DEF KVMessages
  <2>1. /\ \A i \in DOMAIN to_server[t] :
              /\ ForServer(t, to_server[t][i])
              /\ pc = "send" => to_server[t][i].ts # Len(tracker) - 1
        /\ \A i, j \in DOMAIN to_server[t] :
              to_server[t][i].ts = to_server[t][j].ts => i = j
        /\ \A i \in DOMAIN to_worker[t] :
              LET x == to_worker[t][i]
              IN  /\ ForServer(t, x)
                  /\ x.op = "push" => x.ts \in store[t]
                  /\ x.op = "pull" => Mine(x.ts, t) \subseteq x.val
    BY <1>2, Zenon DEF KVMessages
  <2>2. /\ \A i \in DOMAIN to_server'[t] :
              /\ ForServer(t, to_server'[t][i])
              /\ pc = "send" => to_server'[t][i].ts # Len(tracker) - 1
        /\ \A i, j \in DOMAIN to_server'[t] :
              to_server'[t][i].ts = to_server'[t][j].ts => i = j
    <3>1. CASE t # s
      BY <3>1, <2>1, <1>6, Zenon
    <3>2. CASE t = s
      <4>1. \A i, j \in Nat : i + 1 = j + 1 => i = j
        OBVIOUS
      <4> QED
        BY <3>2, <4>1, <2>1, <1>6
    <3> QED
      BY <3>1, <3>2, Zenon
  <2>3. \A i \in DOMAIN to_worker[t] :
           LET x == to_worker[t][i]
           IN  /\ ForServer(t, x)
               /\ x.op = "push" => x.ts \in store'[t]
               /\ x.op = "pull" => Mine(x.ts, t) \subseteq x.val
    BY <2>1, <1>7, Zenon
  <2>4. /\ ForServer(s, a) /\ (a.op = "push" => a.ts \in store'[s])
        /\ a.op = "pull" => Mine(a.ts, s) \subseteq a.val
    <3>1. ForServer(s, a)
      BY <1>5, <1>8, Zenon DEF ForServer
    <3>2. Mine(a.ts, s) \subseteq store[s]
      BY <1>2, <1>12 DEF KVSeen
    <3> QED
      BY <3>1, <3>2, <1>7, <1>8
  <2> QED
    BY <2>2, <2>3, <2>4, <1>9, ZenonT(30)
<1>18. KVSeen'
  BY <1>2, <1>7, <1>15 DEF KVSeen
<1>19. KVGot'
  <2>0. \A ts, t : Got(ts, t)' = Got(ts, t)
    BY <1>0 DEF Got
  <2> SUFFICES ASSUME NEW ts \in Timestamps, NEW t \in requests[ts + 1].slice
               PROVE  /\ requests[ts + 1].op = "push" /\ ~KVOwes(t, ts)' => ts \in store'[t]
                      /\ requests[ts + 1].op = "pull" =>
                           IF KVOwes(t, ts)' \/ Out(t, ts)' THEN Got(ts, t) = {}
                           ELSE ts \notin filled =>
                                  /\ Cardinality(Got(ts, t)) = 1
                                  /\ \A i \in Got(ts, t) :
                                        Mine(ts, t) \subseteq recv_kvs[ts][i].val
    BY <2>0, <1>0, <1>7, <1>15, Zenon DEF KVGot
  <2>1. /\ requests[ts + 1].op = "push" /\ ~KVOwes(t, ts) => ts \in store[t]
        /\ requests[ts + 1].op = "pull" =>
             IF KVOwes(t, ts) \/ Out(t, ts) THEN Got(ts, t) = {}
             ELSE ts \notin filled =>
                    /\ Cardinality(Got(ts, t)) = 1
                    /\ \A i \in Got(ts, t) : Mine(ts, t) \subseteq recv_kvs[ts][i].val
    BY <1>2, Zenon DEF KVGot
  <2>2. t \in Servers
    BY <1>2, Zenon DEF KVTypes
  <2>3. KVOwes(t, ts)' \/ Out(t, ts)' <=> KVOwes(t, ts) \/ Out(t, ts)
    <3>1. Out(t, ts)' <=> Out(t, ts) \/ (t = s /\ ts = m.ts)
      BY <2>2, <1>8, <1>9, Zenon DEF Out
    <3>2. t = s /\ ts = m.ts => KVOwes(t, ts)
      BY <1>8, <1>12, Zenon
    <3> QED
      BY <2>2, <3>1, <3>2, <1>10, Zenon
  <2>4. requests[ts + 1].op = "push" /\ ~KVOwes(t, ts)' => ts \in store'[t]
    <3>1. CASE t = s /\ ts = m.ts
      BY <3>1, <1>5, <1>7, Zenon DEF ForServer
    <3>2. CASE ~(t = s /\ ts = m.ts)
      BY <3>2, <2>1, <2>2, <1>7, <1>10, Zenon
    <3> QED
      BY <3>1, <3>2, Zenon
  <2> QED
    BY <2>1, <2>3, <2>4, Zenon
<1>20. KVAlone'
  BY <1>0, <1>2, <1>7, Zenon DEF KVAlone
<1> QED
  BY <1>13, <1>14, <1>17, <1>18, <1>19, <1>20 DEF KVInv

(* KVWorker::Process keeps the part of a pull; the count follows.          *)
LEMMA KVProcessResponse ==
    ASSUME Shared, KVInv, app = "kv", NEW s \in Servers, ProcessResponse(s),
           UNCHANGED afVars
    PROVE  Shared' /\ KVInv'
<1>a. PICK m : m = Head(to_worker[s])
  OBVIOUS
<1>0. UNCHANGED <<app, num_servers, tracker, requests, pc, cur, waited, to_server,
                  store, pushpull_queue, sender, pending, response_queue>>
  BY Zenon DEF ProcessResponse, confVars, tableVars, programVars, peerVars, afVars,
         workerVars, senderVars, serverVars
<1>1. Shared'
  BY SharedProcessResponse
<1>2. KVAlone /\ KVTypes /\ KVMessages /\ KVSeen /\ KVGot /\ Types /\ Once
  BY DEF KVInv, Shared
<1>3. Servers' = Servers /\ Timestamps' = Timestamps
  BY <1>0 DEF Servers, Timestamps
<1>4. /\ m = to_worker[s][1] /\ m.ts \in Timestamps /\ filled' = filled
      /\ recv_kvs' = IF m.op = "pull"
                     THEN [recv_kvs EXCEPT ![m.ts] =
                             Append(@, [server |-> s, val |-> m.val])]
                     ELSE recv_kvs
      /\ \A ts : Out(s, ts)' <=> Out(s, ts) /\ ts # m.ts
      /\ \A t \in Servers : \A ts : t # s => (Out(t, ts)' <=> Out(t, ts))
      /\ Out(s, m.ts) /\ 1 \in DOMAIN to_worker[s]
  <2>1. to_worker \in [Servers -> Seq(KVReply \union Reply)] /\ to_worker[s] # <<>>
    BY <1>2, Zenon DEF Types, ProcessResponse
  <2>2. 1 \in DOMAIN to_worker[s]
    BY <2>1
  <2> QED
    BY <1>a, <2>2, AnswerTaken, Zenon
<1>5. /\ ForServer(s, m) /\ (m.op = "pull" => Mine(m.ts, s) \subseteq m.val)
      /\ ~KVOwes(s, m.ts)
  BY <1>2, <1>4, KVOwesIs, Zenon DEF KVMessages, Once
<1>6. KVTypes' /\ KVAlone'
  BY <1>0, <1>2, <1>3, Zenon DEF KVTypes, KVAlone
<1>7. \A ts, t : (Mine(ts, t)' = Mine(ts, t)) /\ (KVOwes(t, ts)' <=> KVOwes(t, ts))
  BY <1>0 DEF Mine, KVOwes
<1>8. KVMessages'
  <2>1. ASSUME NEW t \in Servers, NEW i \in DOMAIN to_worker'[t]
        PROVE  \E j \in DOMAIN to_worker[t] : to_worker'[t][i] = to_worker[t][j]
    <3>1. CASE t # s
      BY <3>1, AnswerTaken, Zenon
    <3>2. CASE t = s
      <4>1. \A k \in DOMAIN to_worker'[s] : /\ k + 1 \in DOMAIN to_worker[s]
                                            /\ to_worker'[s][k] = to_worker[s][k + 1]
        BY AnswerTaken, Zenon
      <4> QED
        BY <3>2, <4>1, Zenon
    <3> QED
      BY <3>1, <3>2, Zenon
  <2>2. \A t, n : ForServer(t, n)' <=> ForServer(t, n)
    BY <1>0, <1>3, Zenon DEF ForServer
  <2>3. ASSUME NEW t \in Servers, NEW i \in DOMAIN to_worker'[t]
        PROVE  LET n == to_worker[t][i]
               IN  (/\ ForServer(t, n)
                    /\ n.op = "push" => n.ts \in store[t]
                    /\ n.op = "pull" => Mine(n.ts, t) \subseteq n.val)'
    <3>1. PICK j \in DOMAIN to_worker[t] : to_worker'[t][i] = to_worker[t][j]
      BY <2>1, Zenon
    <3>2. LET n == to_worker[t][j]
          IN  /\ ForServer(t, n)
              /\ n.op = "push" => n.ts \in store[t]
              /\ n.op = "pull" => Mine(n.ts, t) \subseteq n.val
      BY <1>2, Zenon DEF KVMessages
    <3> QED
      BY <1>0, <1>7, <2>2, <3>1, <3>2, Zenon
  <2> QED
    <3>1. \A t \in Servers :
             /\ \A i \in DOMAIN to_server[t] :
                   /\ ForServer(t, to_server[t][i])
                   /\ pc = "send" => to_server[t][i].ts # Len(tracker) - 1
             /\ \A i, j \in DOMAIN to_server[t] :
                   to_server[t][i].ts = to_server[t][j].ts => i = j
      BY <1>2, Zenon DEF KVMessages
    <3>2. \A t \in Servers :
             (/\ \A i \in DOMAIN to_server[t] :
                    /\ ForServer(t, to_server[t][i])
                    /\ pc = "send" => to_server[t][i].ts # Len(tracker) - 1
              /\ \A i, j \in DOMAIN to_server[t] :
                    to_server[t][i].ts = to_server[t][j].ts => i = j)'
      BY <1>0, <2>2, <3>1, Zenon
    <3> QED
      BY <1>3, <2>3, <3>2, Zenon DEF KVMessages
<1>9. KVSeen'
  BY <1>0, <1>2, <1>3, <1>7, Zenon DEF KVSeen
<1>10. KVGot'
  <2> SUFFICES ASSUME NEW ts \in Timestamps, NEW t \in requests[ts + 1].slice,
                      requests[ts + 1].op = "pull"
               PROVE  IF KVOwes(t, ts) \/ Out(t, ts)' THEN Got(ts, t)' = {}
                      ELSE ts \notin filled =>
                             /\ Cardinality(Got(ts, t)') = 1
                             /\ \A i \in Got(ts, t)' :
                                   Mine(ts, t) \subseteq recv_kvs'[ts][i].val
    BY <1>0, <1>2, <1>3, <1>4, <1>7, ZenonT(30) DEF KVGot
  <2>1. IF KVOwes(t, ts) \/ Out(t, ts) THEN Got(ts, t) = {}
        ELSE ts \notin filled =>
               /\ Cardinality(Got(ts, t)) = 1
               /\ \A i \in Got(ts, t) : Mine(ts, t) \subseteq recv_kvs[ts][i].val
    BY <1>2, Zenon DEF KVGot
  <2>2. t \in Servers
    BY <1>2, Zenon DEF KVTypes
  <2>3. recv_kvs[ts] \in Seq(Part) /\ ts \in DOMAIN recv_kvs
    BY <1>2, Entries, Zenon DEF Types
  <2>4. CASE ts # m.ts
    <3>1. recv_kvs'[ts] = recv_kvs[ts]
      BY <2>3, <2>4, <1>4, Zenon
    <3>2. Out(t, ts)' <=> Out(t, ts)
      BY <2>2, <2>4, <1>4, Zenon
    <3> QED
      BY <2>1, <3>1, <3>2, Zenon DEF Got
  <2>5. CASE ts = m.ts
    <3>1. recv_kvs'[ts] = Append(recv_kvs[ts], [server |-> s, val |-> m.val])
      BY <2>3, <2>5, <1>4, <1>5, Zenon DEF ForServer
    <3>2. PICK n : n = Len(recv_kvs[ts]) + 1
      OBVIOUS
    <3>3. /\ DOMAIN recv_kvs'[ts] = DOMAIN recv_kvs[ts] \union {n}
          /\ n \notin DOMAIN recv_kvs[ts]
          /\ recv_kvs'[ts][n] = [server |-> s, val |-> m.val]
          /\ \A i \in DOMAIN recv_kvs[ts] : recv_kvs'[ts][i] = recv_kvs[ts][i]
      BY <2>3, <3>1, <3>2
    <3>4. CASE t # s
      <4>1. Got(ts, t)' = Got(ts, t)
        BY <3>3, <3>4 DEF Got
      <4>2. \A i \in Got(ts, t) : recv_kvs'[ts][i] = recv_kvs[ts][i]
        BY <3>3, Zenon DEF Got
      <4>3. Out(t, ts)' <=> Out(t, ts)
        BY <2>2, <3>4, <1>4, Zenon
      <4> QED
        BY <2>1, <4>1, <4>2, <4>3, Zenon
    <3>5. CASE t = s
      <4>1. Got(ts, t) = {}
        BY <2>1, <2>5, <3>5, <1>4, Zenon
      <4>a. \A i \in DOMAIN recv_kvs[ts] : recv_kvs'[ts][i].server # t
        BY <3>3, <4>1, Zenon DEF Got
      <4>b. recv_kvs'[ts][n].server = t /\ recv_kvs'[ts][n].val = m.val
        <5>1. recv_kvs'[ts][n] = [server |-> s, val |-> m.val]
          BY <3>3, Zenon
        <5> QED
          BY <3>5, <5>1
      <4>2. Got(ts, t)' = {n}
        BY <3>3, <4>a, <4>b, Zenon DEF Got
      <4>3. Cardinality({n}) = 1
        BY FS_Singleton, Zenon
      <4>4. ~KVOwes(t, ts) /\ ~Out(t, ts)'
        BY <2>5, <3>5, <1>4, <1>5, Zenon
      <4>5. Mine(ts, t) \subseteq m.val
        BY <2>5, <3>5, <1>5, Zenon DEF ForServer
      <4> QED
        BY <4>b, <4>2, <4>3, <4>4, <4>5, Zenon
    <3> QED
      BY <3>4, <3>5, Zenon
  <2> QED
    BY <2>4, <2>5, Zenon
<1> QED
  BY <1>1, <1>6, <1>8, <1>9, <1>10 DEF KVInv

(* DirectProcess counts a response after its handler has run.              *)
LEMMA KVCountResponse ==
    ASSUME Shared, KVInv, app = "kv", CountResponse, UNCHANGED afVars
    PROVE  Shared' /\ KVInv'
<1>0. UNCHANGED <<app, num_servers, requests, pc, cur, waited, recv_kvs, filled,
                  to_server, to_worker, store, pushpull_queue, sender, pending,
                  response_queue>>
  BY DEF CountResponse, confVars, programVars, pullVars, netVars, peerVars, afVars,
         workerVars, senderVars, serverVars
<1>1. Shared' /\ Len(tracker') = Len(tracker)
  BY SharedCountResponse
<1>2. KVAlone /\ KVTypes /\ KVMessages /\ KVSeen /\ KVGot
  BY DEF KVInv
<1>3. Servers' = Servers /\ Timestamps' = Timestamps
  BY <1>0, <1>1 DEF Servers, Timestamps
<1>4. /\ \A ts, t : Mine(ts, t)' = Mine(ts, t)
      /\ \A ts, t : KVOwes(t, ts)' <=> KVOwes(t, ts)
      /\ \A ts, t : Out(t, ts)' <=> Out(t, ts)
      /\ \A ts, t : Got(ts, t)' = Got(ts, t)
      /\ \A t, m : ForServer(t, m)' <=> ForServer(t, m)
  BY <1>0, <1>1, <1>3, Zenon DEF Mine, KVOwes, Out, Got, ForServer
<1>5. KVTypes' /\ KVAlone'
  <2>1. tracker # <<>> => tracker' # <<>>
    BY <1>1 DEF Shared, Types
  <2> QED
    BY <1>0, <1>1, <1>2, <1>3, <2>1, Zenon DEF KVTypes, KVAlone
<1>6. KVMessages'
  BY <1>0, <1>1, <1>2, <1>3, <1>4, ZenonT(30) DEF KVMessages
<1>7. KVSeen'
  BY <1>0, <1>2, <1>3, <1>4, Zenon DEF KVSeen
<1>8. KVGot'
  BY <1>0, <1>2, <1>3, <1>4, Zenon DEF KVGot
<1> QED
  BY <1>1, <1>5, <1>6, <1>7, <1>8 DEF KVInv

(* Every step with KVWorker and KVServer.                                  *)
LEMMA KVNext ==
    ASSUME Shared, KVInv, app = "kv", Next
    PROVE  Shared' /\ KVInv'
<1> USE DEF kvProofVars, confVars, tableVars, endVars, programVars, pullVars, netVars,
            peerVars, kvVars, afVars, workerVars, senderVars, serverVars, responderVars
<1>0. /\ waited \subseteq Timestamps /\ (\A ts \in waited : Finished(ts))
      /\ KVTypes /\ KVAlone
  BY DEF Shared, Types, WaitedFinished, KVInv
<1>1. ASSUME NEW op \in Ops, NEW slice \in SUBSET Servers, Call(op, slice), UNCHANGED afVars
      PROVE  Shared' /\ KVInv'
  <2>1. cur' \in [op : Ops, slice : SUBSET Servers]
    BY <1>1 DEF Call
  <2> QED
    BY <2>1, <1>0, <1>1, KVProgramSteps DEF Call, Running
<1>2. ASSUME NEW ts \in Timestamps, Wait(ts), UNCHANGED afVars
      PROVE  Shared' /\ KVInv'
  BY <1>0, <1>2, KVProgramSteps, Zenon DEF Wait, WaitRequest, Running
<1>3. CASE Grow /\ UNCHANGED afVars
  BY <1>0, <1>3, KVProgramSteps, Zenon DEF Grow, Running, KVTypes
<1>4. CASE CallNewRequest /\ UNCHANGED afVars
  BY <1>4, KVCallNewRequest
<1>5. CASE Send /\ UNCHANGED afVars
  BY <1>5, KVSend
<1>6. CASE WaitReturns /\ UNCHANGED afVars
  <2>1. cur.ts \in Timestamps /\ Finished(cur.ts)
    BY <1>0, <1>6, Zenon DEF WaitReturns, KVTypes
  <2> QED
    BY <2>1, <1>0, <1>6, KVProgramSteps DEF WaitReturns, Running
<1>7. CASE WaitAborts /\ UNCHANGED afVars
  BY <1>0, <1>7, KVProgramSteps, Zenon DEF WaitAborts, Running, KVTypes
<1>8. CASE CountResponse /\ UNCHANGED afVars
  BY <1>8, KVCountResponse
<1>9. ASSUME NEW s \in Servers, Process(s) \/ ProcessResponse(s), UNCHANGED afVars
      PROVE  Shared' /\ KVInv'
  BY <1>9, KVProcess, KVProcessResponse
<1>10. CASE GPUStep
  BY <1>0, <1>10, KVProgramSteps, Zenon DEF GPUStep, Running, KVTypes
<1>11. CASE Fault
  <2>1. ASSUME Timeout, UNCHANGED afVars
        PROVE  Shared' /\ KVInv'
    BY <2>1, <1>0, KVProgramSteps, Zenon DEF Timeout, Running, KVTypes
  <2>2. ASSUME NEW s \in Servers, Crash(s), UNCHANGED afVars
        PROVE  Shared' /\ KVInv'
    BY <2>2, <1>0, KVProgramSteps, Zenon DEF Crash, Running, KVTypes
  <2> QED
    BY <1>11, <2>1, <2>2 DEF Fault
<1>12. CASE Program
  BY <1>1, <1>2, <1>12, Zenon DEF Program, KVProgram, CallBatch, WaitBatch, DestroyWorker,
                           DestroyServer, Ops
<1>13. CASE Step
  <2>1. ~AllocTimestamp /\ ~Enqueue /\ ~Emplace /\ ~WaitNext
    BY <1>0, Zenon DEF AllocTimestamp, Enqueue, Emplace, WaitNext, KVTypes
  <2>2. ~CheckStop /\ ~PopRequest /\ ~SendBatch
    BY <1>0 DEF CheckStop, PopRequest, SendBatch, KVAlone
  <2>3. \A s \in Servers : /\ ~KVHandler(s) /\ ~RespondSingle(s)
                           /\ ~CheckResponseStop(s) /\ ~PopResponse(s)
    BY <1>0, Zenon DEF KVHandler, RespondSingle, CheckResponseStop, PopResponse, KVAlone
  <2>4. \A s \in Servers : ~ \E k \in DOMAIN pending[s] : RespondVec(s, k)
    BY <1>0 DEF KVAlone
  <2>5. KVStep /\ UNCHANGED afVars
    BY <2>1, <2>2, <2>3, <2>4, <1>13 DEF Step
  <2> QED
    BY <2>5, <1>3, <1>4, <1>5, <1>6, <1>7, <1>8, <1>9, Zenon DEF KVStep
<1> QED
  BY <1>10, <1>11, <1>12, <1>13 DEF Next

-----------------------------------------------------------------------------
(* AFTensorWorker and AFTensorServer: numbers and messages.                *)
LEMMA AFOwesIs ==
    ASSUME app = "af"
    PROVE  \A s, ts : Owes(s, ts) <=> AFOwes(s, ts)
BY DEF Owes

(* Sizes of a call.                                                        *)
LEMMA BatchSizes ==
    ASSUME NEW b, b \in Batch
    PROVE  /\ b.first \in Nat /\ b.push \in Nat /\ b.pull \in Nat
           /\ Size(b) \in Nat /\ LastOf(b) \in Int /\ LastOf(b) + 1 = b.first + Size(b)
           /\ TimestampsOf(b) = b.first .. LastOf(b)
           /\ b # Null
           /\ GoodBatch(b) => /\ Size(b) > 0 /\ LastOf(b) \in Nat /\ LastOf(b) >= b.first
                              /\ b.first \in TimestampsOf(b)
                              /\ LastOf(b) \in TimestampsOf(b)
<1>1. /\ b.first \in Nat /\ b.push \in Nat /\ b.pull \in Nat
  BY DEF Batch
<1>2. b # Null
  BY AFAssumption
<1>3. /\ Size(b) \in Nat /\ LastOf(b) \in Int /\ LastOf(b) + 1 = b.first + Size(b)
      /\ LastOf(b) = b.first + Size(b) - 1
  BY <1>1 DEF Size, LastOf
<1>4. TimestampsOf(b) = b.first .. LastOf(b)
  BY DEF TimestampsOf, LastOf
<1>5. GoodBatch(b) => Size(b) > 0
  BY <1>1 DEF GoodBatch, Size
<1>6. Size(b) > 0 => LastOf(b) \in Nat /\ LastOf(b) >= b.first
  BY <1>1, <1>3
<1> QED
  BY <1>1, <1>2, <1>3, <1>4, <1>5, <1>6

(* The entry of a timestamp, and what the calls of the program are.        *)
LEMMA CallAt ==
    ASSUME Types, ProgramTypes, Calls, NEW ts \in Timestamps
    PROVE  /\ ts \in Nat /\ ts + 1 \in DOMAIN requests /\ ts < Len(tracker)
           /\ requests[ts + 1].op \in Ops
           /\ BatchAt(ts) \in Batch /\ GoodBatch(BatchAt(ts))
           /\ BatchAt(ts).first \in Nat /\ LastOf(BatchAt(ts)) \in Nat
           /\ BatchAt(ts).first <= ts /\ ts <= LastOf(BatchAt(ts))
           /\ \A t \in Timestamps : t \in BatchAt(ts).first .. LastOf(BatchAt(ts))
                                       => BatchAt(t) = BatchAt(ts)
           /\ requests[ts + 1].op =
                 IF ts < BatchAt(ts).first + BatchAt(ts).push THEN "push" ELSE "pull"
<1>1. ts \in Nat /\ Len(tracker) \in Nat /\ ts < Len(tracker)
  BY Entries, Numbers DEF Timestamps
<1>2. ts + 1 \in DOMAIN requests
  BY <1>1 DEF ProgramTypes
<1>3. /\ GoodBatch(BatchAt(ts)) /\ ts \in TimestampsOf(BatchAt(ts))
      /\ \A t \in TimestampsOf(BatchAt(ts)) \intersect Timestamps :
            BatchAt(t) = BatchAt(ts)
      /\ requests[ts + 1].op =
            IF ts < BatchAt(ts).first + BatchAt(ts).push THEN "push" ELSE "pull"
  BY DEF Calls
<1>4. BatchAt(ts) \in Batch
  BY <1>3 DEF GoodBatch
<1>5. /\ TimestampsOf(BatchAt(ts)) = BatchAt(ts).first .. LastOf(BatchAt(ts))
      /\ BatchAt(ts).first \in Nat /\ LastOf(BatchAt(ts)) \in Nat
  BY <1>3, <1>4, BatchSizes, Zenon
<1>6. BatchAt(ts).first <= ts /\ ts <= LastOf(BatchAt(ts))
  BY <1>1, <1>3, <1>5
<1> QED
  BY <1>1, <1>2, <1>3, <1>4, <1>5, <1>6, Zenon DEF Ops

(* How far the sending thread and the servers are.                         *)
LEMMA Progress ==
    ASSUME Types, AFInv
    PROVE  /\ Enqueued \in Nat /\ Enqueued <= Len(tracker) /\ Len(tracker) \in Nat
           /\ \A i : QueueFirst(i) \in Nat /\ QueueFirst(i) <= Enqueued
           /\ Sent \in Nat /\ Sent <= Enqueued
           /\ \A s \in Servers :
                 /\ Len(to_server[s]) \in Nat /\ Len(batch_data[s]) \in Nat
                 /\ Handled(s) \in Nat /\ Handled(s) + Len(to_server[s]) = Sent
                 /\ Begun(s) \in Nat /\ Begun(s) + Len(batch_data[s]) = Handled(s)
<1>1. Len(tracker) \in Nat
  BY Numbers
<1>2. Enqueued \in Nat /\ Enqueued <= Len(tracker)
  <2>1. CASE pc \in {"alloc", "enqueue"}
    <3>1. GoodBatch(cur) /\ (Len(tracker) \in cur.first .. LastOf(cur)
                               \/ Len(tracker) = LastOf(cur) + 1)
      BY <2>1 DEF AFInv, ProgramTypes
    <3>2. cur \in Batch
      BY <3>1 DEF GoodBatch
    <3> QED
      BY <1>1, <2>1, <3>1, <3>2, BatchSizes DEF Enqueued
  <2>2. CASE pc \notin {"alloc", "enqueue"}
    BY <2>2, <1>1 DEF Enqueued
  <2> QED
    BY <2>1, <2>2
<1>3. \A i \in DOMAIN pushpull_queue : pushpull_queue[i] # Empty =>
         /\ pushpull_queue[i].batch.first \in Nat
         /\ pushpull_queue[i].batch.first < Enqueued
  BY DEF AFInv, Chain, Batch
<1>4. \A i : QueueFirst(i) \in Nat /\ QueueFirst(i) <= Enqueued
  BY <1>2, <1>3 DEF QueueFirst
<1>5. sender.at = "send" => sender.next \in Nat /\ sender.next < Enqueued
  <2> SUFFICES ASSUME sender.at = "send"
               PROVE  sender.next \in Nat /\ sender.next < Enqueued
    OBVIOUS
  <2>1. /\ sender.req.batch \in Batch /\ sender.next \in TimestampsOf(sender.req.batch)
        /\ LastOf(sender.req.batch) + 1 = QueueFirst(1)
    BY DEF AFInv, Chain
  <2> QED
    BY <2>1, <1>2, <1>4, BatchSizes
<1>6. Sent \in Nat /\ Sent <= Enqueued
  BY <1>2, <1>4, <1>5 DEF Sent
<1>7. ASSUME NEW s \in Servers
      PROVE  /\ Len(to_server[s]) \in Nat /\ Len(batch_data[s]) \in Nat
             /\ Handled(s) \in Nat /\ Handled(s) + Len(to_server[s]) = Sent
             /\ Begun(s) \in Nat /\ Begun(s) + Len(batch_data[s]) = Handled(s)
  <2>1. Len(to_server[s]) \in Nat /\ Len(batch_data[s]) \in Nat
    BY DEF AFInv, ServerTypes
  <2>2. Begun(s) >= 0
    BY DEF AFInv, InOrder
  <2>3. Handled(s) = Sent - Len(to_server[s])
    BY DEF Handled
  <2>4. Begun(s) = Handled(s) - Len(batch_data[s])
    BY DEF Begun
  <2>5. Handled(s) \in Int /\ Handled(s) + Len(to_server[s]) = Sent
    BY <2>1, <2>3, <1>6
  <2>6. Begun(s) \in Int /\ Begun(s) + Len(batch_data[s]) = Handled(s)
    BY <2>1, <2>4, <2>5
  <2>7. Begun(s) \in Nat
    BY <2>2, <2>6
  <2>8. Handled(s) \in Nat
    BY <2>1, <2>5, <2>6, <2>7
  <2> QED
    BY <2>1, <2>5, <2>6, <2>7, <2>8
<1> QED
  BY <1>1, <1>2, <1>4, <1>6, <1>7

(* A timestamp that was sent is one, and so is one that a server has.      *)
LEMMA SentTimestamps ==
    ASSUME Types, AFInv
    PROVE  /\ 0 .. Enqueued - 1 \subseteq Timestamps
           /\ 0 .. Sent - 1 \subseteq Timestamps
           /\ \A s \in Servers :
                 /\ 0 .. Handled(s) - 1 \subseteq Timestamps
                 /\ 0 .. Begun(s) - 1 \subseteq Timestamps
                 /\ \A i \in DOMAIN to_server[s] : Handled(s) + i - 1 \in 0 .. Sent - 1
                 /\ \A i \in DOMAIN batch_data[s] :
                       Begun(s) + i - 1 \in 0 .. Handled(s) - 1
<1>1. /\ Enqueued \in Nat /\ Enqueued <= Len(tracker) /\ Len(tracker) \in Nat
      /\ Sent \in Nat /\ Sent <= Enqueued
      /\ \A s \in Servers :
            /\ Len(to_server[s]) \in Nat /\ Len(batch_data[s]) \in Nat
            /\ Handled(s) \in Nat /\ Handled(s) + Len(to_server[s]) = Sent
            /\ Begun(s) \in Nat /\ Begun(s) + Len(batch_data[s]) = Handled(s)
  BY Progress
<1>2. \A s \in Servers : /\ DOMAIN to_server[s] = 1 .. Len(to_server[s])
                         /\ DOMAIN batch_data[s] = 1 .. Len(batch_data[s])
  BY DEF AFInv, ServerTypes
<1>3. 0 .. Enqueued - 1 \subseteq Timestamps /\ 0 .. Sent - 1 \subseteq Timestamps
  BY <1>1 DEF Timestamps
<1>4. ASSUME NEW s \in Servers
      PROVE  /\ 0 .. Handled(s) - 1 \subseteq Timestamps
             /\ 0 .. Begun(s) - 1 \subseteq Timestamps
             /\ \A i \in DOMAIN to_server[s] : Handled(s) + i - 1 \in 0 .. Sent - 1
             /\ \A i \in DOMAIN batch_data[s] : Begun(s) + i - 1 \in 0 .. Handled(s) - 1
  <2>1. /\ Len(to_server[s]) \in Nat /\ Len(batch_data[s]) \in Nat
        /\ Handled(s) \in Nat /\ Handled(s) + Len(to_server[s]) = Sent
        /\ Begun(s) \in Nat /\ Begun(s) + Len(batch_data[s]) = Handled(s)
        /\ DOMAIN to_server[s] = 1 .. Len(to_server[s])
        /\ DOMAIN batch_data[s] = 1 .. Len(batch_data[s])
    BY <1>1, <1>2
  <2>2. Handled(s) <= Len(tracker) /\ Begun(s) <= Len(tracker)
    BY <1>1, <2>1
  <2>3. 0 .. Handled(s) - 1 \subseteq Timestamps /\ 0 .. Begun(s) - 1 \subseteq Timestamps
    <3>1. \A n \in Nat : n <= Len(tracker) => 0 .. n - 1 \subseteq 0 .. Len(tracker) - 1
      BY <1>1
    <3> QED
      BY <2>1, <2>2, <3>1, Zenon DEF Timestamps
  <2>4. \A i \in DOMAIN to_server[s] : Handled(s) + i - 1 \in 0 .. Sent - 1
    BY <1>1, <2>1
  <2>5. \A i \in DOMAIN batch_data[s] : Begun(s) + i - 1 \in 0 .. Handled(s) - 1
    BY <2>1
  <2> QED
    BY <2>3, <2>4, <2>5
<1> QED
  BY <1>3, <1>4

(* The first timestamp of a call, and the one after its last.              *)
LEMMA NextCall ==
    ASSUME Types, AFInv, NEW ts \in Timestamps, ts < Enqueued,
           ts = LastOf(BatchAt(ts)), ts + 1 < Enqueued
    PROVE  BatchAt(ts + 1).first = ts + 1
<1>1. ts + 1 \in Timestamps /\ ts \in Nat
  BY Progress, Entries DEF Timestamps
<1>2. ProgramTypes /\ Calls
  BY DEF AFInv
<1>3. /\ BatchAt(ts + 1).first \in Nat /\ LastOf(BatchAt(ts + 1)) \in Nat
      /\ BatchAt(ts + 1).first <= ts + 1 /\ ts + 1 <= LastOf(BatchAt(ts + 1))
      /\ ts \in BatchAt(ts + 1).first .. LastOf(BatchAt(ts + 1))
            => BatchAt(ts) = BatchAt(ts + 1)
  BY <1>1, <1>2, CallAt
<1> QED
  BY <1>1, <1>3

(* Flags: the last message of a call is the one that completes it.         *)
LEMMA Flags ==
    ASSUME NEW b, GoodBatch(b), num_servers \in Nat \ {0}, NEW ts \in TimestampsOf(b)
    PROVE  /\ Cmd(b, ts) \in {"single", "start", "end", "middle"}
           /\ Cmd(b, ts) \in {"single", "end"} <=> ts = LastOf(b)
           /\ Cmd(b, ts) = "single" => Size(b) = 1
           /\ Cmd(b, ts) # "single" => b.pull = 1 /\ Size(b) > 1
           /\ \A t : Cmd(b, t) = "single" <=> Cmd(b, ts) = "single"
<1>1. /\ b.first \in Nat /\ b.push \in Nat /\ b.pull \in Nat
      /\ ts \in b.first .. b.first + Size(b) - 1 /\ Size(b) = b.push + b.pull
      /\ b.pull = 1 \/ (b.push = 1 /\ b.pull = 0)
      /\ num_servers > 1 => b.push > 0
  BY DEF GoodBatch, Batch, TimestampsOf, Size
<1>2. b.push + b.pull * num_servers = 1 <=> Size(b) = 1
  <2>1. CASE b.pull = 1
    <3>1. b.pull * num_servers = num_servers
      BY <2>1
    <3> QED
      BY <3>1, <2>1, <1>1
  <2>2. CASE b.push = 1 /\ b.pull = 0
    <3>1. b.pull * num_servers = 0
      BY <2>2
    <3> QED
      BY <3>1, <2>2, <1>1
  <2> QED
    BY <2>1, <2>2, <1>1
<1>3. /\ Cmd(b, ts) \in {"single", "start", "end", "middle"}
      /\ Cmd(b, ts) \in {"single", "end"} <=> ts = LastOf(b)
      /\ Cmd(b, ts) = "single" <=> Size(b) = 1
  <2>1. Cmd(b, ts) = IF Size(b) = 1 THEN "single" ELSE IF ts = b.first THEN "start"
                     ELSE IF ts = LastOf(b) THEN "end" ELSE "middle"
    BY <1>2 DEF Cmd, LastOf
  <2>2. LastOf(b) = b.first + Size(b) - 1 /\ Size(b) \in Nat
    BY <1>1 DEF LastOf
  <2>3. Size(b) = 1 => ts = LastOf(b)
    BY <1>1, <2>2
  <2>4. Size(b) # 1 => b.first # LastOf(b)
    BY <1>1, <2>2
  <2> QED
    BY <2>1, <2>3, <2>4
<1>4. \A t : Cmd(b, t) = "single" <=> Cmd(b, ts) = "single"
  BY DEF Cmd
<1> QED
  BY <1>1, <1>3, <1>4

-----------------------------------------------------------------------------
(* What a step leaves alone when it leaves alone what it is about.         *)
LEMMA FrameCalls ==
    ASSUME Calls, UNCHANGED <<num_servers, requests>>, Len(tracker') = Len(tracker),
           Enqueued' = Enqueued, cur' = cur \/ Enqueued = Len(tracker),
           Len(tracker) \in Nat
    PROVE  Calls'
<1>1. Timestamps' = Timestamps
  BY DEF Timestamps
<1>2. \A ts : BatchAt(ts)' = BatchAt(ts)
  BY DEF BatchAt
<1>3. \A b : GoodBatch(b)' <=> GoodBatch(b)
  BY DEF GoodBatch
<1>4. \A ts \in Timestamps : ts < Enqueued \/ cur' = cur
  BY DEF Timestamps
<1> QED
  BY <1>1, <1>2, <1>3, <1>4, Zenon DEF Calls

(* The queue and the sending thread.                                       *)
LEMMA FrameChain ==
    ASSUME Chain, UNCHANGED <<requests, pushpull_queue, pushpull_stop, sender>>,
           Enqueued' = Enqueued
    PROVE  Chain' /\ Sent' = Sent /\ \A i : QueueFirst(i)' = QueueFirst(i)
<1>1. \A i : QueueFirst(i)' = QueueFirst(i)
  BY DEF QueueFirst
<1>2. Sent' = Sent
  BY <1>1 DEF Sent
<1>3. \A ts : BatchAt(ts)' = BatchAt(ts)
  BY DEF BatchAt
<1>4. Chain'
  BY <1>1, <1>3, Zenon DEF Chain
<1> QED
  BY <1>1, <1>2, <1>4

(* The message of a timestamp depends on the requests alone.               *)
LEMMA FrameMessages ==
    ASSUME UNCHANGED <<num_servers, requests>>
    PROVE  /\ \A ts : Message(ts)' = Message(ts)
           /\ \A ts : BatchAt(ts)' = BatchAt(ts)
           /\ \A b : Whole(b)' = Whole(b)
           /\ \A ts : Single(ts)' <=> Single(ts)
           /\ \A b, ts : Cmd(b, ts)' = Cmd(b, ts)
<1>1. \A b, ts : Cmd(b, ts)' = Cmd(b, ts)
  BY DEF Cmd
<1>2. \A ts : BatchAt(ts)' = BatchAt(ts)
  BY DEF BatchAt
<1>3. \A ts : Message(ts)' = Message(ts)
  BY Zenon DEF Message, Cmd, BatchAt
<1>4. \A b : Whole(b)' = Whole(b)
  BY ZenonT(30) DEF Whole, Message, Cmd, BatchAt
<1>5. \A ts : Single(ts)' <=> Single(ts)
  BY DEF Single, Cmd, BatchAt
<1> QED
  BY <1>1, <1>2, <1>3, <1>4, <1>5

(* A step that takes no batch to its end leaves the waiting calls alone.   *)
LEMMA FrameWaiting ==
    ASSUME Waiting, Responses,
           UNCHANGED <<num_servers, requests, pending, response_queue, response_stop>>,
           Len(tracker') = Len(tracker), \A s \in Servers : Begun(s)' = Begun(s)
    PROVE  Waiting' /\ Responses'
<1>1. /\ \A ts : Message(ts)' = Message(ts) /\ BatchAt(ts)' = BatchAt(ts)
      /\ \A b : Whole(b)' = Whole(b)
  BY FrameMessages
<1>2. Servers' = Servers /\ Timestamps' = Timestamps
  BY DEF Servers, Timestamps
<1>3. \A s, i : PendingTs(s, i)' = PendingTs(s, i)
  BY DEF PendingTs
<1>4. Waiting'
  BY <1>1, <1>2, <1>3, ZenonT(30) DEF Waiting
<1>5. Responses'
  <2>1. ASSUME NEW s \in Servers, NEW i \in DOMAIN response_queue[s]
        PROVE  (LET m == response_queue[s][i].msg
                    b == BatchAt(m.ts)
                IN  IF m = Null THEN response_stop[s] /\ response_queue[s][i].event = 0
                    ELSE /\ m.ts \in Timestamps
                         /\ m.ts = LastOf(b) /\ m.ts < Begun(s) /\ m = Message(m.ts)
                         /\ b.pull = 1 /\ m.cmd # "single"
                         /\ response_queue[s][i].val = PushTs(b)
                         /\ \A j \in DOMAIN pending[s] : m.ts < PendingTs(s, j))'
    BY <1>1, <1>2, <1>3, ZenonT(30) DEF Responses
  <2>2. \A s \in Servers : \A i, j \in DOMAIN response_queue[s] :
           /\ i < j
           /\ response_queue[s][i].msg # Null /\ response_queue[s][j].msg # Null
           => response_queue[s][i].msg.ts < response_queue[s][j].msg.ts
    BY Zenon DEF Responses
  <2> QED
    BY <1>2, <2>1, <2>2, ZenonT(30) DEF Responses
<1> QED
  BY <1>4, <1>5

(* What the servers have received and not answered.                        *)
LEMMA FrameServer ==
    ASSUME InOrder, Waiting, Responses,
           UNCHANGED <<num_servers, requests, to_server, batch_data, pending,
                       response_queue, response_stop>>,
           Len(tracker') = Len(tracker), Sent' = Sent, Enqueued' = Enqueued
    PROVE  InOrder' /\ Waiting' /\ Responses'
<1>1. Servers' = Servers /\ Timestamps' = Timestamps
  BY DEF Servers, Timestamps
<1>2. \A s : Handled(s)' = Handled(s)
  BY DEF Handled
<1>3. \A s : Begun(s)' = Begun(s)
  BY DEF Begun, Handled
<1>4. InOrder'
  BY <1>1, <1>2, <1>3, FrameMessages, Zenon DEF InOrder
<1>5. Waiting' /\ Responses'
  BY <1>3, FrameWaiting, Zenon
<1> QED
  BY <1>4, <1>5

(* The answers under way.                                                  *)
LEMMA FrameAnswers ==
    ASSUME Answers, UNCHANGED <<num_servers, requests, to_worker>>
    PROVE  Answers'
<1>1. Servers' = Servers
  BY DEF Servers
<1>2. \A ts : PushTs(BatchAt(ts)') = PushTs(BatchAt(ts))
  BY FrameMessages, Zenon
<1> SUFFICES ASSUME NEW s \in Servers, NEW i \in DOMAIN to_worker[s]
             PROVE  LET m == to_worker[s][i]
                    IN  /\ m.op = requests[m.ts + 1].op
                        /\ ~Single(m.ts)' => m.ready
                        /\ m.op = "pull" /\ ~Single(m.ts)' => m.val = PushTs(BatchAt(m.ts)')
  BY <1>1, Zenon DEF Answers
<1> QED
  BY <1>2, FrameMessages, Zenon DEF Answers

(* The parts of the pulls.                                                 *)
LEMMA FrameParts ==
    ASSUME Parts, UNCHANGED <<num_servers, requests, tracker, recv_kvs, rcv>>
    PROVE  Parts'
<1>1. Timestamps' = Timestamps /\ \A ts : Taken(ts)' = Taken(ts)
  BY DEF Timestamps, Taken
<1> QED
  BY <1>1, FrameMessages, Zenon DEF Parts

(* The pools of the servers.                                               *)
LEMMA FrameServerEvents ==
    ASSUME ServerEvents,
           UNCHANGED <<num_servers, requests, pending, response_queue, server_gpu,
                       server_events>>,
           Len(tracker') = Len(tracker), \A s \in Servers : Begun(s)' = Begun(s)
    PROVE  ServerEvents'
<1>1. Servers' = Servers /\ SinglePulls' = SinglePulls
  BY Zenon DEF Servers, SinglePulls, Timestamps, Cmd
<1>2. \A s : Recorded(s)' = Recorded(s)
  BY Zenon DEF Recorded
<1>3. \A s : Orphans(s)' = Orphans(s)
  BY DEF Orphans, InUse, Recorded
<1>4. \A s \in Servers : AnsweredPulls(s)' = AnsweredPulls(s)
  BY <1>1, Zenon DEF AnsweredPulls, PendingTs
<1> QED
  BY <1>1, <1>2, <1>3, <1>4, Zenon DEF ServerEvents, PoolKept, InUse

(* What the servers owe.                                                   *)
LEMMA FrameOwes ==
    ASSUME app = "af", UNCHANGED <<app, num_servers, pending, response_queue>>,
           \A s \in Servers : Handled(s)' = Handled(s)
    PROVE  \A s \in Servers : \A ts : Owes(s, ts)' <=> Owes(s, ts)
<1>1. \A s \in Servers : \A ts : AFOwes(s, ts)' <=> AFOwes(s, ts)
  BY DEF AFOwes, PendingTs
<1> QED
  BY <1>1, AFOwesIs DEF Owes

(* Steps of the other threads leave the program where it is.               *)
LEMMA FrameProgram ==
    ASSUME Types, ProgramTypes, Calls, Waits,
           UNCHANGED <<num_servers, requests, pc, cur, waited, batch_timestamps,
                       pushpull_stop, response_stop>>,
           Len(tracker') = Len(tracker),
           \A ts \in Timestamps : Finished(ts) => Finished(ts)'
    PROVE  ProgramTypes' /\ Calls' /\ Waits' /\ Enqueued' = Enqueued
<1>1. /\ Servers' = Servers /\ Timestamps' = Timestamps /\ Enqueued' = Enqueued
      /\ Len(tracker) \in Nat
  BY Numbers DEF Servers, Timestamps, Enqueued
<1>2. \A b : GoodBatch(b)' <=> GoodBatch(b)
  BY DEF GoodBatch
<1>3. ProgramTypes'
  BY <1>1, <1>2 DEF ProgramTypes
<1>4. Calls'
  BY <1>1, FrameCalls
<1>5. AllWaited => AllWaited'
  <2>1. tracker # <<>> => tracker' # <<>>
    BY <1>1 DEF Types
  <2> QED
    BY <1>1, <2>1 DEF AllWaited
<1>6. Stopping' <=> Stopping
  BY <1>1 DEF Stopping
<1>7. pc = "wait" => \E b \in batch_timestamps :
                        /\ cur.ts \in TimestampsOf(b)
                        /\ \A t \in b.first .. cur.ts - 1 : Finished(t)'
  <2> SUFFICES ASSUME pc = "wait"
               PROVE  \E b \in batch_timestamps :
                         /\ cur.ts \in TimestampsOf(b)
                         /\ \A t \in b.first .. cur.ts - 1 : Finished(t)'
    OBVIOUS
  <2>1. PICK b \in batch_timestamps : /\ cur.ts \in TimestampsOf(b)
                                      /\ \A t \in b.first .. cur.ts - 1 : Finished(t)
    BY DEF Waits
  <2>2. b \in Batch /\ b.first \in Timestamps /\ BatchAt(b.first) = b /\ b.first < Enqueued
    BY DEF Waits
  <2>3. LastOf(b) < Enqueued /\ b.first \in Nat
    BY <2>2, BatchSizes, Zenon DEF Calls
  <2>4. Enqueued \in Nat /\ Enqueued <= Len(tracker)
    <3>1. pc = "wait" => Enqueued = Len(tracker)
      BY DEF Enqueued
    <3> QED
      BY <3>1, <1>1
  <2>5. b.first .. cur.ts - 1 \subseteq Timestamps
    <3>1. cur.ts \in b.first .. LastOf(b) /\ LastOf(b) \in Int
      BY <2>1, <2>2, BatchSizes, Zenon
    <3> QED
      BY <1>1, <2>3, <2>4, <3>1 DEF Timestamps
  <2> QED
    BY <2>1, <2>5
<1>8. Waits'
  <2>1. \A ts : BatchAt(ts)' = BatchAt(ts)
    BY DEF BatchAt
  <2> QED
    BY <1>1, <1>5, <1>6, <1>7, <2>1, Zenon DEF Waits
<1> QED
  BY <1>1, <1>3, <1>4, <1>8

(* The messages of a call, as a server has put them together.              *)
LEMMA WholeIs ==
    ASSUME NEW b, GoodBatch(b)
    PROVE  /\ Len(Whole(b)) = Size(b) /\ DOMAIN Whole(b) = 1 .. Size(b)
           /\ Whole(b)[1].ts = b.first /\ Whole(b)[Size(b)].ts = LastOf(b)
           /\ \A k \in 1 .. Size(b) : Whole(b)[k] = Message(b.first + k - 1)
<1>1. /\ Size(b) \in Nat /\ Size(b) > 0 /\ b.first \in Nat
      /\ LastOf(b) = b.first + Size(b) - 1
  BY BatchSizes DEF GoodBatch, LastOf
<1>2. /\ DOMAIN Whole(b) = 1 .. Size(b)
      /\ \A k \in 1 .. Size(b) : Whole(b)[k] = Message(b.first + k - 1)
  BY DEF Whole
<1>3. Len(Whole(b)) = Size(b)
  BY <1>1, <1>2 DEF Whole
<1>4. \A ts : Message(ts).ts = ts
  BY DEF Message
<1>5. 1 \in 1 .. Size(b) /\ Size(b) \in 1 .. Size(b) /\ b.first + 1 - 1 = b.first
  BY <1>1
<1>6. Whole(b)[1].ts = b.first
  BY <1>2, <1>4, <1>5, Zenon
<1>7. Whole(b)[Size(b)].ts = LastOf(b)
  BY <1>1, <1>2, <1>4, <1>5, Zenon
<1> QED
  BY <1>2, <1>3, <1>6, <1>7, Zenon

(* A call that waits for its answer.                                       *)
LEMMA PendingCall ==
    ASSUME Types, AFInv, NEW s \in Servers, NEW i \in DOMAIN pending[s]
    PROVE  \E t \in Timestamps :
              /\ BatchAt(t).first = t /\ LastOf(BatchAt(t)) < Begun(s)
              /\ pending[s][i] = Whole(BatchAt(t)) /\ GoodBatch(BatchAt(t))
              /\ LastOf(BatchAt(t)) \in Timestamps
              /\ BatchAt(LastOf(BatchAt(t))) = BatchAt(t)
              /\ PendingTs(s, i) = LastOf(BatchAt(t))
<1>1. PICK t : t = pending[s][i][1].ts
  OBVIOUS
<1>2. /\ t \in Timestamps /\ BatchAt(t).first = t /\ LastOf(BatchAt(t)) < Begun(s)
      /\ pending[s][i] = Whole(BatchAt(t))
  BY <1>1, Zenon DEF AFInv, Waiting
<1>3. ProgramTypes /\ Calls
  BY DEF AFInv
<1>4. /\ GoodBatch(BatchAt(t)) /\ LastOf(BatchAt(t)) \in Nat /\ t \in Nat
      /\ t <= LastOf(BatchAt(t))
      /\ \A u \in Timestamps : u \in t .. LastOf(BatchAt(t)) => BatchAt(u) = BatchAt(t)
  BY <1>2, <1>3, CallAt, Zenon
<1>5. Begun(s) \in Nat /\ 0 .. Begun(s) - 1 \subseteq Timestamps
  BY Progress, SentTimestamps, Zenon
<1>6. LastOf(BatchAt(t)) \in Timestamps
  BY <1>2, <1>4, <1>5
<1>7. BatchAt(LastOf(BatchAt(t))) = BatchAt(t)
  BY <1>4, <1>6
<1>8. PendingTs(s, i) = LastOf(BatchAt(t))
  BY <1>2, <1>4, WholeIs, Zenon DEF PendingTs
<1> QED
  BY <1>2, <1>4, <1>6, <1>7, <1>8

(* When the program has waited for all of its calls, nothing is left to do *)
(* for the sending thread and for the servers.                             *)
LEMMA AllAnswered ==
    ASSUME Shared, AFInv, app = "af", AllWaited
    PROVE  /\ sender.at # "send" /\ Sent = Len(tracker) /\ Enqueued = Len(tracker)
           /\ ~pushpull_stop => pushpull_queue = <<>>
           /\ \A s \in Servers :
                 /\ Handled(s) = Len(tracker) /\ pending[s] = <<>>
                 /\ \A i \in DOMAIN response_queue[s] : response_queue[s][i].msg = Null
<1>1. Types /\ Counted /\ WaitedFinished
  BY DEF Shared
<1>2. /\ Len(tracker) \in Nat /\ num_servers \in Nat \ {0}
      /\ waited = Timestamps /\ pc = "idle" /\ Len(tracker) > 0
  BY <1>1, Numbers DEF AllWaited, Types
<1>3. \A s \in Servers, ts \in Timestamps : ~AFOwes(s, ts)
  BY <1>1, <1>2, FinishedAnswered, AFOwesIs DEF WaitedFinished, Unanswered
<1>4. Enqueued = Len(tracker)
  BY <1>2 DEF Enqueued
<1>5. ASSUME NEW s \in Servers
      PROVE  Handled(s) = Len(tracker) /\ Sent = Len(tracker)
  <2>1. /\ Handled(s) \in Nat /\ Handled(s) + Len(to_server[s]) = Sent
        /\ Len(to_server[s]) \in Nat /\ Sent \in Nat /\ Sent <= Enqueued
    BY <1>1, Progress
  <2>2. Len(tracker) - 1 \in Timestamps
    BY <1>2 DEF Timestamps
  <2>3. ~(Len(tracker) - 1 >= Handled(s))
    BY <1>3, <2>2 DEF AFOwes
  <2> QED
    BY <2>1, <2>3, <1>2, <1>4
<1>6. Sent = Len(tracker)
  <2>1. 1 \in Servers
    BY <1>2 DEF Servers
  <2> QED
    BY <1>5, <2>1
<1>7. sender.at # "send"
  <2> SUFFICES ASSUME sender.at = "send"
               PROVE  FALSE
    OBVIOUS
  <2>1. /\ sender.req.batch \in Batch /\ sender.next \in TimestampsOf(sender.req.batch)
        /\ LastOf(sender.req.batch) + 1 = QueueFirst(1)
    BY Zenon DEF AFInv, Chain
  <2>2. QueueFirst(1) \in Nat /\ QueueFirst(1) <= Enqueued
    BY <1>1, Progress
  <2>3. sender.next < Enqueued /\ sender.next \in Nat
    BY <1>2, <1>4, <2>1, <2>2, BatchSizes
  <2> QED
    BY <2>3, <1>2, <1>4, <1>6 DEF Sent
<1>8. ~pushpull_stop => pushpull_queue = <<>>
  <2> SUFFICES ASSUME ~pushpull_stop, pushpull_queue # <<>>
               PROVE  FALSE
    OBVIOUS
  <2>1. 1 \in DOMAIN pushpull_queue
    BY DEF AFInv, QueueTypes
  <2>2. /\ pushpull_queue[1].batch \in Batch /\ pushpull_queue[1].batch.first < Enqueued
    BY <2>1 DEF AFInv, Chain
  <2>3. pushpull_queue[1] # Empty
    BY <2>2, BatchSizes DEF Empty
  <2>4. Sent = pushpull_queue[1].batch.first
    BY <1>7, <2>1, <2>3 DEF Sent, QueueFirst
  <2> QED
    BY <2>2, <2>4, <1>2, <1>4, <1>6
<1>9. ASSUME NEW s \in Servers
      PROVE  /\ pending[s] = <<>>
             /\ \A i \in DOMAIN response_queue[s] : response_queue[s][i].msg = Null
  <2>1. DOMAIN pending[s] = {}
    <3> SUFFICES ASSUME NEW i \in DOMAIN pending[s]
                 PROVE  FALSE
      OBVIOUS
    <3>1. PendingTs(s, i) \in Timestamps
      BY <1>1, PendingCall
    <3> QED
      BY <3>1, <1>3, Zenon DEF AFOwes
  <2>2. pending[s] \in Seq(Seq(Request))
    BY DEF AFInv, ServerTypes
  <2>3. pending[s] = <<>>
    <3>1. Len(pending[s]) \in Nat /\ DOMAIN pending[s] = 1 .. Len(pending[s])
      BY <2>2
    <3>2. \A n \in Nat : 1 .. n = {} => n = 0
      OBVIOUS
    <3>3. Len(pending[s]) = 0
      BY <2>1, <3>1, <3>2, Zenon
    <3> QED
      BY <2>2, <3>3
  <2>4. ASSUME NEW i \in DOMAIN response_queue[s], response_queue[s][i].msg # Null
        PROVE  FALSE
    <3>1. response_queue[s][i].msg.ts \in Timestamps
      BY <2>4, Zenon DEF AFInv, Responses
    <3> QED
      BY <3>1, <2>4, <1>3 DEF AFOwes
  <2> QED
    BY <2>3, <2>4
<1> QED
  BY <1>4, <1>5, <1>6, <1>7, <1>8, <1>9, Zenon

-----------------------------------------------------------------------------
(* Events.  A set of numbers has a least one.                              *)
LEMMA LeastOf ==
    ASSUME NEW T, T \subseteq Nat, T # {}, NEW R, IsWellFoundedOn(R, Nat),
           \A y, x \in Nat : y < x => <<y, x>> \in R
    PROVE  \E x \in T : \A y \in T : x <= y
<1>1. PICK x \in T : \A y \in T : ~(<<y, x>> \in R)
  BY ONLY WFMin, T \subseteq Nat, T # {}, IsWellFoundedOn(R, Nat), Zenon
<1>2. \A y \in T : ~(y < x)
  BY <1>1, Zenon
<1>3. \A y \in T : x <= y
  BY <1>2, SMT
<1> QED
  BY <1>3

(* The same, with the order of the numbers.                                *)
LEMMA Least ==
    ASSUME NEW T, T \subseteq Nat, T # {}
    PROVE  \E x \in T : \A y \in T : x <= y
<1>1. IsWellFoundedOn(OpToRel(<, Nat), Nat)
  BY NatLessThanWellFounded, Zenon
<1>2. \A y, x \in Nat : y < x => <<y, x>> \in OpToRel(<, Nat)
  BY DEF OpToRel
<1> QED
  BY <1>1, <1>2, LeastOf, Zenon

(* GetEvent returns an event that nobody has.                              *)
LEMMA GetEventFree ==
    ASSUME NEW pool \in Seq(Event)
    PROVE  GetEvent(pool) \in 1 .. Len(pool) + 1 /\ GetEvent(pool) \notin InUse(pool)
<1>1. CASE \E i \in DOMAIN pool : pool[i].released
  <2>1. {i \in DOMAIN pool : pool[i].released} \subseteq Nat
    OBVIOUS
  <2>2. PICK k \in {i \in DOMAIN pool : pool[i].released} :
           \A j \in {i \in DOMAIN pool : pool[i].released} : k <= j
    BY <1>1, <2>1, Least, Zenon
  <2>3. \A j \in 1 .. k - 1 : ~pool[j].released
    <3> SUFFICES ASSUME NEW j \in 1 .. k - 1, pool[j].released
                 PROVE  FALSE
      OBVIOUS
    <3>1. j \in DOMAIN pool /\ ~(k <= j)
      OBVIOUS
    <3> QED
      BY <2>2, <3>1
  <2>4. \E i \in DOMAIN pool : pool[i].released /\ \A j \in 1 .. i - 1 : ~pool[j].released
    BY <2>2, <2>3
  <2>5. GetEvent(pool) \in DOMAIN pool /\ pool[GetEvent(pool)].released
    BY <1>1, <2>4, Zenon DEF GetEvent
  <2> QED
    BY <2>5 DEF InUse
<1>2. CASE ~ \E i \in DOMAIN pool : pool[i].released
  BY <1>2 DEF GetEvent, InUse
<1> QED
  BY <1>1, <1>2

(* Occupy and Record change one event of the pool.                         *)
LEMMA OccupiedPool ==
    ASSUME NEW pool, NEW ev, NEW n, CanOccupy(pool, ev, n)
    PROVE  EventTaken(pool, ev, n, Occupied(pool, ev, n))
<1>0. /\ pool \in Seq(Event) /\ n \in Nat
      /\ ev \in 1 .. Len(pool) + 1 /\ ev \notin InUse(pool)
  BY Zenon DEF CanOccupy
<1>1. PICK q : q = Occupied(pool, ev, n)
  BY Zenon
<1>2. PICK k : k = IF ev > Len(pool) THEN ev ELSE Len(pool)
  BY Zenon
<1>3. k \in Nat /\ 1 .. k = DOMAIN pool \union {ev} /\ Len(pool) <= k
  BY <1>0, <1>2
<1>4. [released |-> FALSE, recorded |-> n] \in Event
  BY <1>0 DEF Event
<1>5. q = [j \in 1 .. k |-> IF j = ev THEN [released |-> FALSE, recorded |-> n] ELSE pool[j]]
  BY <1>1, <1>2, Zenon DEF Occupied
<1>6. \A j \in 1 .. k : j # ev => j \in DOMAIN pool /\ pool[j] \in Event
  <2>1. \A j \in DOMAIN pool : pool[j] \in Event
    BY <1>0
  <2> QED
    BY <1>3, <2>1, Zenon
<1>7. q \in Seq(Event)
  BY <1>3, <1>4, <1>5, <1>6
<1>8. /\ DOMAIN q = DOMAIN pool \union {ev} /\ q[ev] = [released |-> FALSE, recorded |-> n]
      /\ \A j \in DOMAIN pool : j # ev => q[j] = pool[j]
  BY <1>3, <1>5, Zenon
<1>9. InUse(q) = InUse(pool) \union {ev}
  BY <1>8 DEF InUse
<1>10. \A e \in InUse(pool) : q[e] = pool[e]
  BY <1>0, <1>8, Zenon DEF InUse
<1> QED
  BY <1>1, <1>7, <1>8, <1>9, <1>10, Zenon DEF EventTaken

(* Release frees one event of the pool.                                    *)
LEMMA ReleasedPool ==
    ASSUME NEW pool \in Seq(Event), NEW ev \in DOMAIN pool, NEW q, q = Release(pool, ev)
    PROVE  /\ q \in Seq(Event)
           /\ DOMAIN q = DOMAIN pool
           /\ \A j \in DOMAIN pool : j # ev => q[j] = pool[j]
           /\ InUse(q) = InUse(pool) \ {ev}
<1>2. q = [pool EXCEPT ![ev] = FreeEvent]
  BY DEF Release
<1>3. FreeEvent \in Event /\ FreeEvent.released
  BY DEF FreeEvent, Event
<1>4. q \in Seq(Event) /\ DOMAIN q = DOMAIN pool /\ q[ev] = FreeEvent
      /\ \A j \in DOMAIN pool : j # ev => q[j] = pool[j]
  BY <1>2, <1>3
<1>5. InUse(q) = InUse(pool) \ {ev}
  BY <1>3, <1>4 DEF InUse
<1> QED
  BY <1>4, <1>5

=============================================================================
