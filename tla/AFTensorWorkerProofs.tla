------------------------ MODULE AFTensorWorkerProofs ------------------------
(***************************************************************************)
(* The invariant of AFTensorAppInv, second part: the steps of the program, *)
(* of the sending thread and of the customer thread of AFTensorWorker      *)
(* preserve it, one lemma for each action.                                 *)
(***************************************************************************)
EXTENDS KVAppProofs

(* The GPU, and steps that change nothing the invariant is about.          *)
LEMMA AFQuiet ==
    ASSUME Shared, AFInv, app = "af", UNCHANGED afProofVars, ~raced' \/ raced' = raced,
           gpu' \in Nat, gpu <= gpu', gpu' <= submitted,
           server_gpu' \in [Servers -> Nat],
           \A s \in Servers : server_gpu[s] <= server_gpu'[s]
    PROVE  Shared' /\ AFInv'
<1> USE DEF AFInv
<1>0. UNCHANGED <<app, num_servers, tracker, requests, pc, cur, waited, recv_kvs,
                  to_server, to_worker, rcv, pushpull_queue, batch_timestamps,
                  pushpull_stop, sender, submitted, events, batch_data, pending,
                  response_queue, response_stop, server_submitted, server_events>>
  BY DEF afProofVars
<1>1. Servers' = Servers /\ Timestamps' = Timestamps
  BY <1>0, Zenon DEF Servers, Timestamps
<1>2. ProgramTypes' /\ Calls' /\ Waits' /\ Enqueued' = Enqueued
  <2>1. \A ts : Finished(ts)' <=> Finished(ts)
    BY <1>0, Zenon DEF Finished
  <2> QED
    BY <1>0, <2>1, FrameProgram DEF Shared
<1>3. Chain' /\ Sent' = Sent
  BY <1>0, <1>2, FrameChain
<1>4. InOrder' /\ Waiting' /\ Responses'
  BY <1>0, <1>2, <1>3, FrameServer, Zenon
<1>5. Answers' /\ Parts'
  BY <1>0, FrameAnswers, FrameParts, Zenon
<1>6. QueueTypes' /\ ServerTypes'
  BY <1>0, <1>1, Zenon DEF QueueTypes, ServerTypes
<1>7. WorkerEvents'
  <2>1. sender.at = "send" => sender.req.work <= gpu'
    <3>1. sender.at = "send" => sender.req.work <= gpu
      BY Zenon DEF WorkerEvents
    <3>2. sender.req.work \in Nat /\ gpu \in Nat
      BY Zenon DEF QueueTypes, Item
    <3> QED
      BY <3>1, <3>2
  <2> QED
    BY <1>0, <2>1 DEF WorkerEvents, InUse
<1>8. ServerEvents'
  <2>1. SinglePulls' = SinglePulls
    BY <1>0, Zenon DEF SinglePulls, Timestamps, Cmd
  <2>2. \A s : Begun(s)' = Begun(s)
    BY <1>0, <1>3 DEF Begun, Handled
  <2>3. \A s : Recorded(s)' = Recorded(s)
    BY <1>0, Zenon DEF Recorded
  <2>4. \A s : Orphans(s)' = Orphans(s)
    BY <1>0, Zenon DEF Orphans, InUse, Recorded
  <2>5. \A s \in Servers : AnsweredPulls(s)' = AnsweredPulls(s)
    BY <1>0, <2>1, <2>2, Zenon DEF AnsweredPulls, PendingTs
  <2>6. ASSUME NEW s \in Servers, NEW i \in DOMAIN response_queue[s],
               response_queue[s][i].work <= server_gpu[s]
        PROVE  response_queue[s][i].work <= server_gpu'[s]
    <3>1. response_queue[s][i] \in ResponseItem /\ server_gpu[s] \in Nat
      BY DEF ServerTypes
    <3>2. response_queue[s][i].work \in Nat
      BY <3>1 DEF ResponseItem
    <3> QED
      BY <2>6, <3>1, <3>2
  <2> QED
    BY <1>0, <1>1, <2>3, <2>4, <2>5, <2>6, Zenon DEF ServerEvents, PoolKept, InUse
<1>9. Shared'
  <2>1. Types'
    BY <1>0, Zenon DEF Shared, Types, Timestamps, Servers
  <2>2. \A s \in Servers : Handled(s)' = Handled(s)
    BY <1>0, <1>3 DEF Handled
  <2>3. \A s \in Servers, ts \in Timestamps : Owes(s, ts)' <=> Owes(s, ts)
    BY <1>0, <2>2, FrameOwes, Zenon
  <2> QED
    BY <1>0, <2>1, <2>3, NothingMoves, Zenon DEF Shared, WaitedFinished
<1> QED
  BY <1>2, <1>3, <1>4, <1>5, <1>6, <1>7, <1>8, <1>9

(* What DirectProcess leaves alone.                                        *)
LEMMA AFReceive ==
    ASSUME Shared, AFInv, UNCHANGED afVars,
           UNCHANGED <<num_servers, requests, pc, cur, waited, to_server>>,
           Len(tracker') = Len(tracker),
           \A ts \in Timestamps : Finished(ts) => Finished(ts)'
    PROVE  /\ ProgramTypes' /\ QueueTypes' /\ ServerTypes' /\ Calls' /\ Waits' /\ Chain'
           /\ InOrder' /\ Waiting' /\ Responses' /\ WorkerEvents' /\ ServerEvents'
<1> USE DEF AFInv
<1>0. UNCHANGED <<pushpull_queue, batch_timestamps, pushpull_stop, sender, submitted, gpu,
                  events, batch_data, pending, response_queue, response_stop,
                  server_submitted, server_gpu, server_events>>
  BY DEF afVars, workerVars, senderVars, gpuVars, serverVars, responderVars, sgpuVars
<1>1. Servers' = Servers
  BY DEF Servers
<1>2. ProgramTypes' /\ Calls' /\ Waits' /\ Enqueued' = Enqueued
  BY <1>0, FrameProgram, Zenon DEF Shared
<1>3. Chain' /\ Sent' = Sent
  BY <1>0, <1>2, FrameChain
<1>4. InOrder' /\ Waiting' /\ Responses'
  BY <1>0, <1>2, <1>3, FrameServer, Zenon
<1>5. QueueTypes' /\ ServerTypes'
  BY <1>0, <1>1, Zenon DEF QueueTypes, ServerTypes
<1>6. WorkerEvents'
  BY <1>0, Zenon DEF WorkerEvents, InUse
<1>7. ServerEvents'
  <2>1. \A s : Begun(s)' = Begun(s)
    BY <1>0, <1>3 DEF Begun, Handled
  <2> QED
    BY <1>0, <2>1, FrameServerEvents, Zenon
<1> QED
  BY <1>2, <1>3, <1>4, <1>5, <1>6, <1>7, Zenon

(* KVWorker::Process keeps the part of a pull.                             *)
LEMMA AFProcessResponse ==
    ASSUME Shared, AFInv, app = "af", NEW s \in Servers, ProcessResponse(s),
           UNCHANGED afVars
    PROVE  Shared' /\ AFInv'
<1>a. PICK m : m = Head(to_worker[s])
  OBVIOUS
<1>0. /\ UNCHANGED <<num_servers, tracker, requests, pc, cur, waited, to_server>>
      /\ rcv = Null /\ rcv' = m
  BY <1>a, Zenon DEF ProcessResponse, confVars, tableVars, programVars
<1>1. Shared'
  BY SharedProcessResponse
<1>2. /\ ProgramTypes' /\ QueueTypes' /\ ServerTypes' /\ Calls' /\ Waits' /\ Chain'
      /\ InOrder' /\ Waiting' /\ Responses' /\ WorkerEvents' /\ ServerEvents'
  <2>1. \A ts : Finished(ts)' <=> Finished(ts)
    BY <1>0 DEF Finished
  <2> QED
    BY <1>0, <2>1, AFReceive, Zenon
<1>3. Servers' = Servers /\ Timestamps' = Timestamps
  BY <1>0 DEF Servers, Timestamps
<1>4. /\ m.ts \in Timestamps /\ m = to_worker[s][1] /\ m # Null
      /\ recv_kvs' = IF m.op = "pull"
                     THEN [recv_kvs EXCEPT ![m.ts] =
                             Append(@, [server |-> s, val |-> m.val])]
                     ELSE recv_kvs
  BY <1>a, AnswerTaken, Zenon
<1>5. Types /\ Parts /\ Answers
  BY DEF Shared, AFInv
<1>6. Answers'
  <2> SUFFICES ASSUME NEW t \in Servers, NEW i \in DOMAIN to_worker'[t]
               PROVE  \E j \in DOMAIN to_worker[t] : to_worker'[t][i] = to_worker[t][j]
    BY <1>0, <1>3, <1>5, FrameMessages DEF Answers
  <2>1. CASE t # s
    BY <2>1, AnswerTaken, ZenonT(30)
  <2>2. CASE t = s
    <3>1. \A k \in DOMAIN to_worker'[s] : /\ k + 1 \in DOMAIN to_worker[s]
                                          /\ to_worker'[s][k] = to_worker[s][k + 1]
      BY AnswerTaken, Zenon
    <3> QED
      BY <2>2, <3>1, Zenon
  <2> QED
    BY <2>1, <2>2, Zenon
<1>7. Parts'
  <2> SUFFICES ASSUME NEW ts \in Timestamps, requests[ts + 1].op = "pull"
               PROVE  /\ Len(recv_kvs'[ts]) = tracker[ts + 1].response_count + Taken(ts)'
                      /\ ~Single(ts) =>
                            \A i \in DOMAIN recv_kvs'[ts] :
                               recv_kvs'[ts][i].val = PushTs(BatchAt(ts))
    BY <1>0, <1>3, FrameMessages, Zenon DEF Parts
  <2>1. /\ Len(recv_kvs[ts]) = tracker[ts + 1].response_count + Taken(ts)
        /\ ~Single(ts) =>
              \A i \in DOMAIN recv_kvs[ts] : recv_kvs[ts][i].val = PushTs(BatchAt(ts))
    BY <1>5, Zenon DEF Parts
  <2>2. Taken(ts) = 0 /\ Taken(ts)' = IF ts = m.ts THEN 1 ELSE 0
    BY <1>0, <1>4, Zenon DEF Taken
  <2>3. recv_kvs[ts] \in Seq(Part) /\ ts \in DOMAIN recv_kvs
    BY <1>5, Entries, Zenon DEF Types
  <2>4. tracker[ts + 1].response_count \in Nat
    BY <1>5, Entries, Zenon
  <2>5. CASE ts # m.ts
    <3>1. recv_kvs'[ts] = recv_kvs[ts]
      BY <2>3, <2>5, <1>4, Zenon
    <3> QED
      BY <2>1, <2>2, <2>5, <3>1, Zenon
  <2>6. CASE ts = m.ts
    <3>1. /\ 1 \in DOMAIN to_worker[s]
      BY <1>5 DEF Types, ProcessResponse
    <3>2. m.op = "pull" /\ (~Single(ts) => m.val = PushTs(BatchAt(ts)))
      BY <2>6, <3>1, <1>4, <1>5, Zenon DEF Answers
    <3>3. recv_kvs'[ts] = Append(recv_kvs[ts], [server |-> s, val |-> m.val])
      BY <2>3, <2>6, <3>2, <1>4, Zenon
    <3>4. Len(recv_kvs'[ts]) = Len(recv_kvs[ts]) + 1
      BY <2>3, <3>3
    <3>5. ~Single(ts) => \A i \in DOMAIN recv_kvs'[ts] :
                            recv_kvs'[ts][i].val = PushTs(BatchAt(ts))
      BY <2>1, <2>3, <3>2, <3>3
    <3> QED
      BY <2>1, <2>2, <2>4, <2>6, <3>4, <3>5
  <2> QED
    BY <2>5, <2>6, Zenon
<1> QED
  BY <1>1, <1>2, <1>6, <1>7, Zenon DEF AFInv

(* DirectProcess counts a response.                                        *)
LEMMA AFCountResponse ==
    ASSUME Shared, AFInv, app = "af", CountResponse, UNCHANGED afVars
    PROVE  Shared' /\ AFInv'
<1>0. /\ UNCHANGED <<num_servers, requests, pc, cur, waited, to_server, to_worker,
                     recv_kvs>>
      /\ rcv' = Null
  BY DEF CountResponse, confVars, programVars, pullVars, netVars
<1>1. /\ Shared' /\ Len(tracker') = Len(tracker)
      /\ \A ts \in Timestamps : tracker'[ts + 1].response_count =
            tracker[ts + 1].response_count + Taken(ts)
      /\ \A ts \in Timestamps : Finished(ts) => Finished(ts)'
  BY SharedCountResponse, Zenon
<1>2. /\ ProgramTypes' /\ QueueTypes' /\ ServerTypes' /\ Calls' /\ Waits' /\ Chain'
      /\ InOrder' /\ Waiting' /\ Responses' /\ WorkerEvents' /\ ServerEvents'
  BY <1>0, <1>1, AFReceive, Zenon
<1>3. Answers'
  BY <1>0, FrameAnswers DEF AFInv
<1>4. Parts'
  <2>1. /\ Timestamps' = Timestamps /\ \A ts : Taken(ts)' = 0
        /\ \A ts \in Timestamps : tracker[ts + 1].response_count \in Nat
    BY <1>0, <1>1, Entries, Zenon DEF Timestamps, Taken, Shared
  <2>2. \A ts : Taken(ts) \in {0, 1}
    BY DEF Taken
  <2>3. \A ts \in Timestamps : tracker'[ts + 1].response_count + Taken(ts)'
                                 = tracker[ts + 1].response_count + Taken(ts)
    BY <1>1, <2>1, <2>2
  <2> QED
    BY <1>0, <2>1, <2>3, FrameMessages, Zenon DEF Parts, AFInv
<1> QED
  BY <1>1, <1>2, <1>3, <1>4, Zenon DEF AFInv

-----------------------------------------------------------------------------
(* The program.  What it changes itself is ProgramTypes and Waits.         *)
LEMMA AFProgramStep ==
    ASSUME Shared, AFInv, app = "af",
           UNCHANGED <<app, num_servers, tracker, requests, recv_kvs, to_server, to_worker,
                       rcv, pushpull_queue, pushpull_stop, sender, gpu, events,
                       batch_data, pending, response_queue, response_stop,
                       server_submitted, server_gpu, server_events>>, ~raced',
           Enqueued' = Enqueued, cur' = cur \/ Enqueued = Len(tracker),
           submitted' \in Nat, submitted <= submitted',
           waited' \subseteq Timestamps, \A ts \in waited' : Finished(ts),
           ProgramTypes', Waits'
    PROVE  Shared' /\ AFInv'
<1> USE DEF AFInv
<1>1. /\ Servers' = Servers /\ Timestamps' = Timestamps
      /\ Len(tracker) \in Nat /\ submitted \in Nat /\ gpu \in Nat
  BY Numbers DEF Servers, Timestamps, QueueTypes, Shared
<1>2. Calls'
  BY <1>1, FrameCalls
<1>3. Chain' /\ Sent' = Sent
  BY FrameChain
<1>4. InOrder' /\ Waiting' /\ Responses'
  BY <1>3, FrameServer
<1>5. Answers' /\ Parts'
  BY FrameAnswers, FrameParts
<1>6. QueueTypes' /\ ServerTypes'
  BY <1>1 DEF QueueTypes, ServerTypes
<1>7. WorkerEvents'
  <2>1. gpu <= submitted'
    BY <1>1 DEF WorkerEvents
  <2> QED
    BY <2>1 DEF WorkerEvents, InUse
<1>8. ServerEvents'
  <2>1. \A s : Begun(s)' = Begun(s)
    BY <1>3 DEF Begun, Handled
  <2> QED
    BY <2>1, FrameServerEvents
<1>9. Shared'
  <2>1. Types'
    BY Zenon DEF Shared, Types, Timestamps, Servers
  <2>2. \A s \in Servers : Handled(s)' = Handled(s)
    BY <1>3 DEF Handled
  <2>3. \A s \in Servers, ts \in Timestamps : Owes(s, ts)' <=> Owes(s, ts)
    BY <2>2, FrameOwes
  <2> QED
    BY <2>1, <2>3, NothingMoves
<1> QED
  BY <1>2, <1>3, <1>4, <1>5, <1>6, <1>7, <1>8, <1>9

(* A call that is in batch_timestamps_.                                    *)
LEMMA BatchKnown ==
    ASSUME Types, AFInv, NEW b \in batch_timestamps
    PROVE  /\ b \in Batch /\ GoodBatch(b) /\ b.first \in Nat /\ LastOf(b) \in Nat
           /\ TimestampsOf(b) = b.first .. LastOf(b) /\ b.first \in TimestampsOf(b)
           /\ TimestampsOf(b) \subseteq Timestamps
           /\ \A t \in TimestampsOf(b) : t \notin waited /\ BatchAt(t) = b
<1>1. /\ b \in Batch /\ b.first \in Timestamps /\ BatchAt(b.first) = b
      /\ b.first < Enqueued /\ \A t \in TimestampsOf(b) : t \notin waited
  BY DEF AFInv, Waits
<1>2. GoodBatch(b) /\ LastOf(b) < Enqueued
      /\ \A t \in TimestampsOf(b) \intersect Timestamps : BatchAt(t) = b
  BY <1>1 DEF AFInv, Calls
<1>3. /\ b.first \in Nat /\ LastOf(b) \in Nat /\ TimestampsOf(b) = b.first .. LastOf(b)
      /\ b.first \in TimestampsOf(b)
  BY <1>1, <1>2, BatchSizes
<1>4. Enqueued \in Nat /\ 0 .. Enqueued - 1 \subseteq Timestamps
  BY Progress, SentTimestamps
<1>5. TimestampsOf(b) \subseteq Timestamps
  BY <1>2, <1>3, <1>4
<1> QED
  BY <1>1, <1>2, <1>3, <1>5

(* ZBatchPushPull begins: no timestamp of the call exists yet.             *)
LEMMA AFCallBatch ==
    ASSUME Shared, AFInv, NEW shape \in Shapes, CallBatch(shape)
    PROVE  Shared' /\ AFInv'
<1>1. /\ app = "af" /\ pc = "idle" /\ ~Stopping /\ ~raced
      /\ Len(tracker) + shape[1] + shape[2] <= MaxRequests[num_servers]
      /\ num_servers > 1 => shape # <<0, 1>>
      /\ pc' = "alloc"
      /\ cur' = [first |-> Len(tracker), push |-> shape[1], pull |-> shape[2]]
      /\ submitted' = submitted + 1
      /\ UNCHANGED <<app, num_servers, tracker, requests, recv_kvs, to_server, to_worker,
                     rcv, pushpull_queue, pushpull_stop, sender, gpu, events,
                     batch_data, pending, response_queue, response_stop,
                     server_submitted, server_gpu, server_events, raced, waited,
                     batch_timestamps>>
  BY Zenon DEF CallBatch, Running, confVars, tableVars, endVars, pullVars, netVars, peerVars,
         senderVars, serverVars, responderVars, sgpuVars
<1>2. /\ Types /\ Len(tracker) \in Nat /\ num_servers \in Nat
      /\ MaxRequests[num_servers] \in Nat
  BY Numbers DEF Shared
<1>3. /\ shape[1] \in Nat /\ shape[2] \in Nat
      /\ shape[2] = 1 \/ (shape[1] = 1 /\ shape[2] = 0)
      /\ num_servers > 1 => shape[1] > 0
  <2>1. shape \in Nat \X {1} \/ shape = <<1, 0>>
    BY AFAssumption
  <2>2. CASE shape \in Nat \X {1}
    <3>1. PICK n \in Nat : shape = <<n, 1>>
      BY <2>2
    <3>2. n = 0 => shape = <<0, 1>>
      BY <3>1
    <3> QED
      BY <3>1, <3>2, <1>1
  <2>3. CASE shape = <<1, 0>>
    BY <2>3
  <2> QED
    BY <2>1, <2>2, <2>3
<1>4. Enqueued = Len(tracker) /\ Enqueued' = Len(tracker)
  BY <1>1 DEF Enqueued
<1>5. /\ cur'.first = Len(tracker) /\ cur'.push = shape[1] /\ cur'.pull = shape[2]
      /\ cur' \in Batch
  BY <1>1, <1>2, <1>3 DEF Batch
<1>6. ProgramTypes'
  <2>1. GoodBatch(cur)'
    BY <1>1, <1>3, <1>5 DEF GoodBatch
  <2>2. LastOf(cur)' = Len(tracker) + shape[1] + shape[2] - 1
    BY <1>2, <1>3, <1>5 DEF LastOf, Size
  <2>3. \A ts \in waited : ts < Len(tracker)
    BY <1>2 DEF Types, Timestamps
  <2>4. Len(requests) = Len(tracker) /\ requests \in Seq(AFRequest)
    BY DEF AFInv, ProgramTypes
  <2>5. /\ Len(tracker) + shape[1] + shape[2] - 1 < MaxRequests[num_servers]
        /\ Len(tracker) \in Len(tracker) .. Len(tracker) + shape[1] + shape[2] - 1
    <3>1. \A n, p, q, x \in Nat :
             n + p + q <= x /\ p + q > 0 => n + p + q - 1 < x /\ n \in n .. n + p + q - 1
      OBVIOUS
    <3>2. shape[1] + shape[2] > 0
      BY <1>3
    <3> QED
      BY <1>1, <1>2, <1>3, <3>1, <3>2, Zenon
  <2> QED
    BY <1>1, <1>5, <2>1, <2>2, <2>3, <2>4, <2>5, Zenon DEF ProgramTypes
<1>7. Waits'
  <2>1. \A ts : BatchAt(ts)' = BatchAt(ts)
    BY <1>1, Zenon DEF BatchAt
  <2>2. ~Stopping' /\ Timestamps' = Timestamps
    BY <1>1, Zenon DEF Stopping, Servers, Timestamps
  <2> QED
    BY <1>1, <1>4, <2>1, <2>2, Zenon DEF Waits, AFInv
<1>8. submitted \in Nat
  BY DEF AFInv, QueueTypes
<1>9. waited \subseteq Timestamps /\ \A ts \in waited : Finished(ts)
  BY Zenon DEF Shared, Types, WaitedFinished
<1> QED
  BY <1>1, <1>4, <1>6, <1>7, <1>8, <1>9, AFProgramStep

(* ZBatchPushPull ends: the other timestamps are kept for Wait.            *)
LEMMA AFEmplace ==
    ASSUME Shared, AFInv, app = "af", Emplace
    PROVE  Shared' /\ AFInv'
<1>1. /\ pc = "emplace" /\ ~raced /\ pc' = "idle"
      /\ batch_timestamps' = batch_timestamps \union {cur}
      /\ UNCHANGED <<app, num_servers, tracker, requests, recv_kvs, to_server, to_worker,
                     rcv, pushpull_queue, pushpull_stop, sender, gpu, events,
                     batch_data, pending, response_queue, response_stop,
                     server_submitted, server_gpu, server_events, raced, waited,
                     cur, submitted>>
  BY DEF Emplace, Running, confVars, tableVars, endVars, pullVars, netVars, peerVars,
         senderVars, gpuVars, serverVars, responderVars, sgpuVars
<1>2. Enqueued = Len(tracker) /\ Enqueued' = Len(tracker) /\ Len(tracker) \in Nat
  BY <1>1, Numbers DEF Enqueued, Shared
<1>3. /\ GoodBatch(cur) /\ Len(tracker) = LastOf(cur) + 1
      /\ \A ts \in waited : ts < cur.first
  BY <1>1 DEF AFInv, ProgramTypes
<1>4. /\ cur \in Batch /\ cur.first \in Nat /\ LastOf(cur) >= cur.first
      /\ LastOf(cur) \in Nat
      /\ TimestampsOf(cur) = cur.first .. LastOf(cur)
  BY <1>3, BatchSizes DEF GoodBatch
<1>5. ProgramTypes'
  BY <1>1 DEF ProgramTypes, AFInv
<1>6. waited \subseteq Timestamps /\ \A ts \in waited : Finished(ts)
  BY DEF Shared, Types, WaitedFinished
<1>7. Waits'
  <2>1. \A ts : BatchAt(ts)' = BatchAt(ts)
    BY <1>1 DEF BatchAt
  <2>2. Timestamps' = Timestamps
    BY <1>1 DEF Timestamps
  <2>3. ~Stopping'
    BY <1>1, Zenon DEF Stopping, Servers, AFInv, Waits, AllWaited
  <2>4. /\ cur.first \in Timestamps /\ cur.first < Len(tracker)
    BY <1>2, <1>3, <1>4 DEF Timestamps
  <2>5. \A t \in TimestampsOf(cur) : t \notin waited
    BY <1>3, <1>4
  <2>6. BatchAt(cur.first) = cur
    BY <1>1, Zenon DEF AFInv, Waits
  <2> QED
    BY <1>1, <1>2, <1>4, <2>1, <2>2, <2>3, <2>4, <2>5, <2>6, Zenon DEF Waits, AFInv
<1>8. submitted \in Nat
  BY DEF AFInv, QueueTypes
<1> QED
  BY <1>1, <1>2, <1>5, <1>6, <1>7, <1>8, AFProgramStep

(* Wait begins with the first timestamp.                                   *)
LEMMA AFWaitBatch ==
    ASSUME Shared, AFInv, NEW b \in batch_timestamps, WaitBatch(b)
    PROVE  Shared' /\ AFInv'
<1>1. /\ app = "af" /\ pc = "idle" /\ ~raced /\ pc' = "wait" /\ cur'.ts = b.first
      /\ UNCHANGED <<app, num_servers, tracker, requests, recv_kvs, to_server, to_worker,
                     rcv, pushpull_queue, pushpull_stop, sender, gpu, events,
                     batch_data, pending, response_queue, response_stop,
                     server_submitted, server_gpu, server_events, raced, waited,
                     batch_timestamps, submitted>>
  BY Zenon DEF WaitBatch, WaitRequest, Running, confVars, tableVars, endVars, pullVars, netVars,
         peerVars, afVars, workerVars, senderVars, gpuVars, serverVars, responderVars,
         sgpuVars
<1>2. Enqueued = Len(tracker) /\ Enqueued' = Len(tracker)
  BY <1>1, Zenon DEF Enqueued
<1>3. ProgramTypes'
  BY <1>1, Zenon DEF ProgramTypes, AFInv
<1>4. waited \subseteq Timestamps /\ (\A ts \in waited : Finished(ts)) /\ Types
  BY Zenon DEF Shared, Types, WaitedFinished
<1>5. /\ b.first \in Nat /\ b.first \in TimestampsOf(b)
      /\ TimestampsOf(b) \subseteq Timestamps /\ b.first \notin waited
  BY <1>4, BatchKnown
<1>6. Waits'
  <2>1. \A ts : BatchAt(ts)' = BatchAt(ts)
    BY <1>1, Zenon DEF BatchAt
  <2>2. Timestamps' = Timestamps
    BY <1>1 DEF Timestamps
  <2>3. ~Stopping'
    <3>1. ~AllWaited
      BY <1>5 DEF AllWaited
    <3> QED
      BY <1>1, <3>1, Zenon DEF Stopping, Servers, AFInv, Waits
  <2>4. b.first .. cur'.ts - 1 = {}
    BY <1>1, <1>5
  <2> QED
    BY <1>1, <1>2, <1>5, <2>1, <2>2, <2>3, <2>4, Zenon DEF Waits, AFInv
<1>7. submitted \in Nat
  BY DEF AFInv, QueueTypes
<1> QED
  BY <1>1, <1>2, <1>3, <1>4, <1>6, <1>7, AFProgramStep

(* Wait goes on with the next timestamp, or returns after the last.        *)
LEMMA AFWaitNext ==
    ASSUME Shared, AFInv, WaitNext
    PROVE  Shared' /\ AFInv'
<1>0. PICK c : c = CHOOSE x \in batch_timestamps : cur.ts \in TimestampsOf(x)
  OBVIOUS
<1>1. /\ app = "af" /\ pc = "wait" /\ ~raced /\ Finished(cur.ts)
      /\ IF cur.ts = LastOf(c)
         THEN /\ pc' = "idle" /\ waited' = waited \union TimestampsOf(c)
              /\ batch_timestamps' = batch_timestamps \ {c}
         ELSE /\ pc' = "wait" /\ cur'.ts = cur.ts + 1
              /\ UNCHANGED <<waited, batch_timestamps>>
      /\ UNCHANGED <<app, num_servers, tracker, requests, recv_kvs, to_server, to_worker,
                     rcv, pushpull_queue, pushpull_stop, sender, gpu, events,
                     batch_data, pending, response_queue, response_stop,
                     server_submitted, server_gpu, server_events, raced, submitted>>
  BY <1>0 DEF WaitNext, WaitRequest, Running, confVars, tableVars, endVars, pullVars,
         netVars, peerVars, senderVars, gpuVars, serverVars, responderVars,
         sgpuVars, LastOf
<1>2. Enqueued = Len(tracker) /\ Enqueued' = Len(tracker)
  BY <1>1, Zenon DEF Enqueued
<1>3. ProgramTypes'
  BY <1>1, Zenon DEF ProgramTypes, AFInv
<1>4. waited \subseteq Timestamps /\ (\A ts \in waited : Finished(ts)) /\ Types
  BY Zenon DEF Shared, Types, WaitedFinished
<1>5. PICK b \in batch_timestamps : /\ cur.ts \in TimestampsOf(b)
                                    /\ \A t \in b.first .. cur.ts - 1 : Finished(t)
  BY <1>1, Zenon DEF AFInv, Waits
<1>6. /\ c \in batch_timestamps /\ cur.ts \in TimestampsOf(c)
  BY <1>0, <1>5
<1>7. c = b
  BY <1>4, <1>5, <1>6, BatchKnown
<1>8. /\ b.first \in Nat /\ LastOf(b) \in Nat
      /\ TimestampsOf(b) = b.first .. LastOf(b) /\ TimestampsOf(b) \subseteq Timestamps
      /\ \A t \in TimestampsOf(b) : BatchAt(t) = b
  BY <1>4, BatchKnown
<1>9. cur.ts \in Nat /\ b.first <= cur.ts /\ cur.ts <= LastOf(b)
  BY <1>5, <1>8
<1>10. \A t \in b.first .. cur.ts : Finished(t)
  BY <1>1, <1>5, <1>8, <1>9
<1>11. waited' \subseteq Timestamps /\ \A ts \in waited' : Finished(ts)
  BY <1>1, <1>4, <1>7, <1>8, <1>10, Zenon
<1>12. \A ts : BatchAt(ts)' = BatchAt(ts)
  BY <1>1, Zenon DEF BatchAt
<1>13. Timestamps' = Timestamps
  BY <1>1, Zenon DEF Timestamps
<1>14. ~Stopping'
  BY <1>1, Zenon DEF Stopping, Servers, AFInv, Waits, AllWaited
<1>15. Waits'
  <2>1. \A x \in batch_timestamps' :
           /\ x \in Batch /\ x.first \in Timestamps /\ x.first < Len(tracker)
           /\ BatchAt(x.first) = x /\ \A t \in TimestampsOf(x) : t \notin waited'
    <3> SUFFICES ASSUME NEW x \in batch_timestamps'
                 PROVE  /\ x \in Batch /\ x.first \in Timestamps /\ x.first < Len(tracker)
                        /\ BatchAt(x.first) = x /\ \A t \in TimestampsOf(x) : t \notin waited'
      OBVIOUS
    <3>1. x \in batch_timestamps /\ (cur.ts = LastOf(c) => x # b)
      BY <1>1, <1>7, Zenon
    <3>2. \A t \in TimestampsOf(x) : t \notin waited /\ BatchAt(t) = x
      BY <3>1, <1>4, BatchKnown
    <3>3. cur.ts = LastOf(c) => \A t \in TimestampsOf(x) : t \notin TimestampsOf(b)
      BY <3>1, <3>2, <1>8
    <3>4. \A t \in TimestampsOf(x) : t \notin waited'
      BY <3>2, <3>3, <1>1, <1>7, Zenon
    <3>5. /\ x \in Batch /\ x.first \in Timestamps /\ x.first < Len(tracker)
          /\ BatchAt(x.first) = x
      BY <3>1, <1>2, Zenon DEF AFInv, Waits
    <3> QED
      BY <3>4, <3>5
  <2>2. \A h \in waited' : TimestampsOf(BatchAt(h)) \subseteq waited'
    <3>1. \A h \in waited : TimestampsOf(BatchAt(h)) \subseteq waited
      BY Zenon DEF AFInv, Waits
    <3> QED
      BY <3>1, <1>1, <1>7, <1>8, Zenon
  <2>3. cur.ts # LastOf(c) => /\ b \in batch_timestamps' /\ cur'.ts \in TimestampsOf(b)
                              /\ \A t \in b.first .. cur'.ts - 1 : Finished(t)
    <3> SUFFICES ASSUME cur.ts # LastOf(c)
                 PROVE  /\ b \in batch_timestamps' /\ cur'.ts \in TimestampsOf(b)
                        /\ \A t \in b.first .. cur'.ts - 1 : Finished(t)
      OBVIOUS
    <3>1. cur'.ts = cur.ts + 1 /\ b \in batch_timestamps' /\ cur.ts # LastOf(b)
      BY <1>1, <1>7, Zenon
    <3>2. cur'.ts \in TimestampsOf(b)
      BY <3>1, <1>8, <1>9
    <3>3. cur'.ts - 1 = cur.ts
      BY <3>1, <1>9
    <3> QED
      BY <3>1, <3>2, <3>3, <1>10
  <2>4. \A t : Finished(t)' <=> Finished(t)
    BY <1>1, Zenon DEF Finished
  <2>5. pc' = "wait" => cur.ts # LastOf(c)
    BY <1>1, Zenon
  <2>6. pc' # "emplace"
    BY <1>1, Zenon
  <2> QED
    BY <1>2, <1>12, <1>13, <1>14, <2>1, <2>2, <2>3, <2>4, <2>5, <2>6, Zenon DEF Waits
<1>16. submitted \in Nat
  BY DEF AFInv, QueueTypes
<1> QED
  BY <1>1, <1>2, <1>3, <1>11, <1>15, <1>16, AFProgramStep

(* ~AFTensorWorker puts the empty request into an empty queue.             *)
LEMMA AFDestroyWorker ==
    ASSUME Shared, AFInv, DestroyWorker
    PROVE  Shared' /\ AFInv'
<1> USE DEF AFInv
<1>1. /\ app = "af" /\ AllWaited /\ ~pushpull_stop /\ pushpull_stop' = TRUE
      /\ pushpull_queue' = Append(pushpull_queue, Empty) /\ ~raced
      /\ UNCHANGED <<app, num_servers, tracker, requests, pc, cur, waited, recv_kvs,
                     to_server, to_worker, rcv, raced, batch_timestamps, sender, submitted,
                     gpu, events, batch_data, pending, response_queue, response_stop,
                     server_submitted, server_gpu, server_events>>
  BY DEF DestroyWorker, Running, kvVars, confVars, tableVars, endVars, programVars,
         pullVars, netVars, peerVars, gpuVars, serverVars, responderVars, sgpuVars
<1>2. /\ sender.at # "send" /\ pushpull_queue = <<>> /\ pushpull_queue' = <<Empty>>
      /\ Sent = Len(tracker) /\ Enqueued = Len(tracker)
  BY <1>1, AllAnswered
<1>3. /\ DOMAIN pushpull_queue' = {1} /\ pushpull_queue'[1] = Empty
  BY <1>2
<1>4. Enqueued' = Enqueued /\ Sent' = Sent
  <2>1. Enqueued' = Enqueued
    BY <1>1 DEF Enqueued
  <2> QED
    BY <1>1, <1>2, <1>3, <2>1, Zenon DEF Sent, QueueFirst
<1>5. Servers' = Servers /\ Timestamps' = Timestamps /\ Len(tracker) \in Nat
  BY <1>1, Numbers DEF Servers, Timestamps, Shared
<1>6. ProgramTypes' /\ ServerTypes'
  <2>1. \A b : GoodBatch(b)' <=> GoodBatch(b)
    BY <1>1 DEF GoodBatch
  <2> QED
    BY <1>1, <1>5, <2>1, Zenon DEF ProgramTypes, ServerTypes
<1>7. QueueTypes'
  <2>1. Empty \in Item
    BY DEF Empty, Item
  <2> QED
    BY <1>1, <1>2, <2>1 DEF QueueTypes
<1>8. Calls'
  BY <1>1, <1>4, <1>5, FrameCalls, Zenon
<1>9. Waits'
  <2>1. \A ts : BatchAt(ts)' = BatchAt(ts)
    BY <1>1 DEF BatchAt
  <2>2. AllWaited' /\ pc = "idle"
    BY <1>1, <1>5 DEF AllWaited
  <2> QED
    BY <1>1, <1>4, <1>5, <2>1, <2>2, Zenon DEF Waits
<1>10. Chain'
  BY <1>1, <1>2, <1>3, Zenon DEF Chain
<1>11. InOrder' /\ Waiting' /\ Responses'
  BY <1>1, <1>4, FrameServer
<1>12. Answers' /\ Parts'
  BY <1>1, FrameAnswers, FrameParts
<1>13. WorkerEvents'
  BY <1>1, <1>2, <1>3 DEF WorkerEvents, InUse
<1>14. ServerEvents'
  <2>1. \A s : Begun(s)' = Begun(s)
    BY <1>1, <1>4, Zenon DEF Begun, Handled
  <2> QED
    BY <1>1, <2>1, FrameServerEvents, Zenon
<1>15. Shared'
  <2>1. Types'
    BY <1>1, <1>5, Zenon DEF Shared, Types
  <2>2. \A s \in Servers : Handled(s)' = Handled(s)
    BY <1>1, <1>4 DEF Handled
  <2>3. \A s \in Servers, ts \in Timestamps : Owes(s, ts)' <=> Owes(s, ts)
    BY <1>1, <2>2, FrameOwes, Zenon
  <2> QED
    BY <1>1, <2>1, <2>3, NothingMoves, Zenon DEF Shared, WaitedFinished
<1> QED
  BY <1>6, <1>7, <1>8, <1>9, <1>10, <1>11, <1>12, <1>13, <1>14, <1>15

(* ~AFTensorServer: only empty responses are queued by then.               *)
LEMMA AFDestroyServer ==
    ASSUME Shared, AFInv, NEW s \in Servers, DestroyServer(s)
    PROVE  Shared' /\ AFInv'
<1> USE DEF AFInv
<1>0. PICK e : e = [msg |-> Null, val |-> {}, work |-> 0, event |-> 0]
  BY Zenon
<1>1. /\ app = "af" /\ AllWaited /\ ~raced
      /\ response_stop' = [response_stop EXCEPT ![s] = TRUE]
      /\ response_queue' = [response_queue EXCEPT ![s] = Append(@, e)]
      /\ UNCHANGED <<app, num_servers, tracker, requests, pc, cur, waited, recv_kvs,
                     to_server, to_worker, rcv, raced, pushpull_queue, pushpull_stop,
                     batch_timestamps, sender, submitted,
                     gpu, events, batch_data, pending,
                     server_submitted, server_gpu, server_events>>
  BY <1>0, Zenon DEF DestroyServer, Running, kvVars, confVars, tableVars, endVars, programVars,
         pullVars, netVars, peerVars, workerVars, senderVars, gpuVars, sgpuVars
<1>2. /\ Servers' = Servers /\ Timestamps' = Timestamps /\ Len(tracker) \in Nat
      /\ Enqueued' = Enqueued
  BY <1>1, Numbers, Zenon DEF Servers, Timestamps, Shared, Enqueued
<1>3. \A t \in Servers : \A i \in DOMAIN response_queue[t] : response_queue[t][i].msg = Null
  BY <1>1, AllAnswered, Zenon
<1>4. /\ response_queue \in [Servers -> Seq(ResponseItem)]
      /\ response_stop \in [Servers -> BOOLEAN]
  BY DEF ServerTypes
<1>5. /\ e \in ResponseItem /\ e.msg = Null /\ e.event = 0
  BY <1>0, Zenon DEF ResponseItem
<1>6. /\ \A t \in Servers : t # s => response_queue'[t] = response_queue[t]
      /\ Len(response_queue[s]) \in Nat
      /\ DOMAIN response_queue[s] = 1 .. Len(response_queue[s])
      /\ DOMAIN response_queue'[s] = 1 .. Len(response_queue[s]) + 1
      /\ \A i \in DOMAIN response_queue[s] : response_queue'[s][i] = response_queue[s][i]
      /\ response_queue'[s][Len(response_queue[s]) + 1] = e
      /\ response_queue' \in [Servers -> Seq(ResponseItem)]
      /\ response_stop' \in [Servers -> BOOLEAN] /\ response_stop'[s]
      /\ \A t \in Servers : t # s => response_stop'[t] = response_stop[t]
  BY <1>1, <1>4, <1>5
<1>7. ASSUME NEW t \in Servers, NEW i \in DOMAIN response_queue'[t]
      PROVE  /\ response_queue'[t][i].msg = Null /\ response_queue'[t][i].event = 0
             /\ response_stop'[t]
  <2>1. CASE i \in DOMAIN response_queue[t]
    <3>1. response_stop[t] /\ response_queue[t][i].event = 0
      BY <2>1, <1>3, Zenon DEF Responses
    <3>2. response_queue'[t][i] = response_queue[t][i] /\ response_queue[t][i].msg = Null
      <4>1. t = s => response_queue'[t][i] = response_queue[t][i]
        BY <2>1, <1>6, Zenon
      <4>2. t # s => response_queue'[t][i] = response_queue[t][i]
        BY <1>6, Zenon
      <4> QED
        BY <2>1, <4>1, <4>2, <1>3, Zenon
    <3>3. response_stop'[t]
      BY <3>1, <1>6, Zenon
    <3> QED
      BY <3>1, <3>2, <3>3, Zenon
  <2>2. CASE i \notin DOMAIN response_queue[t]
    <3>1. t = s /\ i = Len(response_queue[s]) + 1
      BY <2>2, <1>6
    <3> QED
      BY <3>1, <1>5, <1>6, Zenon
  <2> QED
    BY <2>1, <2>2, Zenon
<1>8. ProgramTypes' /\ QueueTypes' /\ ServerTypes'
  <2>1. \A b : GoodBatch(b)' <=> GoodBatch(b)
    BY <1>1, Zenon DEF GoodBatch
  <2> QED
    BY <1>1, <1>2, <1>6, <2>1, Zenon DEF ProgramTypes, QueueTypes, ServerTypes
<1>9. Calls'
  BY <1>1, <1>2, FrameCalls, Zenon
<1>10. Waits'
  <2>1. \A ts : BatchAt(ts)' = BatchAt(ts)
    BY <1>1, Zenon DEF BatchAt
  <2>2. AllWaited' /\ pc = "idle"
    BY <1>1, <1>2, Zenon DEF AllWaited
  <2> QED
    BY <1>1, <1>2, <2>1, <2>2, Zenon DEF Waits
<1>11. Chain' /\ Sent' = Sent
  BY <1>1, <1>2, FrameChain, Zenon
<1>12. \A t : Begun(t)' = Begun(t) /\ Handled(t)' = Handled(t)
  BY <1>1, <1>11, Zenon DEF Begun, Handled
<1>13. InOrder' /\ Waiting'
  <2>1. \A ts : Message(ts)' = Message(ts) /\ BatchAt(ts)' = BatchAt(ts)
    BY <1>1, FrameMessages, Zenon
  <2>2. InOrder'
    BY <1>1, <1>2, <1>12, <2>1, Zenon DEF InOrder, LastOf, Size
  <2>3. \A b : Whole(b)' = Whole(b)
    BY <1>1, FrameMessages, Zenon
  <2> QED
    BY <1>1, <1>2, <1>12, <2>1, <2>2, <2>3, ZenonT(30) DEF Waiting, PendingTs, LastOf, Size
<1>14. Responses'
  <2>1. \A t \in Servers : \A i \in DOMAIN response_queue'[t] :
           /\ response_queue'[t][i].msg = Null /\ response_queue'[t][i].event = 0
           /\ response_stop'[t]
    BY <1>7, Zenon
  <2> QED
    BY <1>2, <2>1, ZenonT(30) DEF Responses
<1>15. Answers' /\ Parts' /\ WorkerEvents'
  BY <1>1, FrameAnswers, FrameParts, Zenon DEF WorkerEvents, InUse
<1>16. ServerEvents'
  <2>1. \A t \in Servers : Recorded(t) = {} /\ Recorded(t)' = {}
    <3>1. \A t \in Servers : \A i \in DOMAIN response_queue[t] : response_queue[t][i].event = 0
      BY <1>3, Zenon DEF Responses
    <3> QED
      BY <1>7, <3>1, Zenon DEF Recorded
  <2>2. \A t \in Servers : Orphans(t)' = Orphans(t)
    BY <1>1, <2>1, Zenon DEF Orphans, InUse
  <2>3. \A t \in Servers : AnsweredPulls(t)' = AnsweredPulls(t)
    <3>1. SinglePulls' = SinglePulls
      BY <1>1, Zenon DEF SinglePulls, Timestamps, Cmd
    <3> QED
      BY <1>1, <1>12, <3>1, Zenon DEF AnsweredPulls, PendingTs
  <2>4. \A t \in Servers : Cardinality(Orphans(t)) <= Cardinality(AnsweredPulls(t))
    BY Zenon DEF ServerEvents, PoolKept
  <2>5. \A t \in Servers : Cardinality(Orphans(t))' <= Cardinality(AnsweredPulls(t))'
    BY <2>2, <2>3, <2>4, Zenon
  <2>6. \A t \in Servers' : \A i, j \in DOMAIN response_queue'[t] :
           /\ response_queue'[t][i].event # 0
           /\ response_queue'[t][i].event = response_queue'[t][j].event
           => i = j
    BY <1>2, <1>7, Zenon
  <2>7. \A t \in Servers' : \A i \in DOMAIN response_queue'[t] : response_queue'[t][i].msg = Null
    BY <1>2, <1>7, Zenon
  <2> QED
    BY <1>2, <2>1, <2>5, <2>6, <2>7, ZenonT(30) DEF ServerEvents, PoolKept
<1>17. Shared'
  <2>1. Types'
    BY <1>1, <1>2, Zenon DEF Shared, Types
  <2>2. \A t \in Servers, ts \in Timestamps : AFOwes(t, ts)' <=> AFOwes(t, ts)
    BY <1>1, <1>3, <1>7, <1>12, Zenon DEF AFOwes, PendingTs
  <2>3. \A t \in Servers, ts \in Timestamps : Owes(t, ts)' <=> Owes(t, ts)
    BY <1>1, <2>2, Zenon DEF Owes
  <2> QED
    BY <1>1, <2>1, <2>3, NothingMoves, Zenon DEF Shared, WaitedFinished
<1> QED
  BY <1>8, <1>9, <1>10, <1>11, <1>13, <1>14, <1>15, <1>16, <1>17

(* Another timestamp of the call.                                          *)
LEMMA AFAllocTimestamp ==
    ASSUME Shared, AFInv, AllocTimestamp
    PROVE  Shared' /\ AFInv'
<1> USE DEF AFInv
<1>0. PICK n : n = Len(tracker)
  BY Zenon
<1>a. PICK r : r = [op |-> IF n < cur.first + cur.push THEN "push" ELSE "pull",
                    batch |-> cur]
  BY Zenon
<1>1. /\ app = "af" /\ pc = "alloc" /\ ~raced
      /\ tracker' = Append(tracker, [count |-> num_servers, response_count |-> 0])
      /\ requests' = Append(requests, r)
      /\ pc' = IF n = LastOf(cur) THEN "enqueue" ELSE "alloc"
      /\ UNCHANGED <<app, num_servers, cur, waited, recv_kvs, to_server, to_worker, rcv,
                     raced, pushpull_queue, pushpull_stop, batch_timestamps, sender,
                     submitted, gpu, events, batch_data, pending, response_queue,
                     response_stop, server_submitted, server_gpu, server_events>>
  BY <1>0, <1>a DEF AllocTimestamp, NewRequest, Running, confVars, endVars, pullVars, netVars,
         peerVars, afVars, workerVars, senderVars, gpuVars, serverVars, responderVars,
         sgpuVars, LastOf
<1>2. /\ Types /\ Once /\ n \in Nat /\ num_servers \in Nat \ {0}
      /\ MaxRequests[num_servers] \in Nat
  BY <1>0, Numbers DEF Shared
<1>3. /\ GoodBatch(cur) /\ LastOf(cur) < MaxRequests[num_servers]
      /\ \A ts \in waited : ts < cur.first
      /\ n \in cur.first .. LastOf(cur)
  BY <1>0, <1>1 DEF ProgramTypes
<1>4. /\ cur \in Batch /\ cur.first \in Nat /\ cur.push \in Nat /\ LastOf(cur) \in Nat
      /\ TimestampsOf(cur) = cur.first .. LastOf(cur)
  BY <1>3, BatchSizes DEF GoodBatch
<1>5. /\ Enqueued = cur.first /\ Enqueued' = cur.first /\ Servers' = Servers
      /\ Timestamps = 0 .. n - 1
  BY <1>0, <1>1 DEF Enqueued, Servers, Timestamps
<1>6. /\ \A i : QueueFirst(i)' = QueueFirst(i)
      /\ Sent' = Sent /\ \A s : Handled(s)' = Handled(s) /\ Begun(s)' = Begun(s)
  <2>1. \A i : QueueFirst(i)' = QueueFirst(i)
    BY <1>1, <1>5 DEF QueueFirst
  <2>2. Sent' = Sent
    BY <1>1, <2>1 DEF Sent
  <2>3. \A s : Handled(s)' = Handled(s)
    BY <1>1, <2>2 DEF Handled
  <2> QED
    BY <1>1, <2>1, <2>2, <2>3 DEF Begun
<1>7. /\ Enqueued \in Nat /\ Enqueued <= n /\ Sent \in Nat /\ Sent <= Enqueued
      /\ 0 .. Enqueued - 1 \subseteq Timestamps /\ 0 .. Sent - 1 \subseteq Timestamps
      /\ \A s \in Servers :
            /\ Handled(s) \in Nat /\ Handled(s) <= n /\ Begun(s) \in Nat /\ Begun(s) <= n
            /\ Begun(s) + Len(batch_data[s]) = Handled(s)
            /\ 0 .. Handled(s) - 1 \subseteq Timestamps
            /\ 0 .. Begun(s) - 1 \subseteq Timestamps
            /\ \A i \in DOMAIN to_server[s] : Handled(s) + i - 1 \in 0 .. Sent - 1
            /\ \A i \in DOMAIN batch_data[s] : Begun(s) + i - 1 \in 0 .. Handled(s) - 1
  <2>1. \A s \in Servers : Handled(s) <= n /\ Begun(s) <= n
    <3> SUFFICES ASSUME NEW s \in Servers
                 PROVE  Handled(s) <= n /\ Begun(s) <= n
      OBVIOUS
    <3>1. /\ Len(to_server[s]) \in Nat /\ Len(batch_data[s]) \in Nat
          /\ Handled(s) \in Nat /\ Handled(s) + Len(to_server[s]) = Sent
          /\ Begun(s) \in Nat /\ Begun(s) + Len(batch_data[s]) = Handled(s)
          /\ Enqueued \in Nat /\ Enqueued <= n /\ Sent \in Nat /\ Sent <= Enqueued
      BY <1>0, <1>2, Progress
    <3> QED
      BY <3>1, <1>2
  <2> QED
    BY <1>0, <1>2, <2>1, Progress, SentTimestamps, Zenon
<1>8. /\ Len(requests) = n /\ requests \in Seq(AFRequest) /\ r \in AFRequest
  BY <1>0, <1>4, <1>a DEF ProgramTypes, AFRequest, Ops
<1>9. /\ Len(requests') = n + 1 /\ requests' \in Seq(AFRequest)
      /\ requests'[n + 1] = r /\ Len(tracker') = n + 1
      /\ \A ts \in Timestamps : requests'[ts + 1] = requests[ts + 1]
  <2>1. tracker \in Seq(Counter)
    BY <1>2 DEF Types
  <2>2. Len(tracker') = n + 1
    BY <1>0, <1>1, <2>1
  <2> QED
    BY <1>1, <1>2, <1>5, <1>8, <2>2
<1>10. \A ts \in Timestamps : /\ BatchAt(ts)' = BatchAt(ts)
                              /\ Message(ts)' = Message(ts)
                              /\ Single(ts)' <=> Single(ts)
  <2>1. \A ts \in Timestamps : BatchAt(ts)' = BatchAt(ts)
    BY <1>9 DEF BatchAt
  <2>2. \A b, ts : Cmd(b, ts)' = Cmd(b, ts)
    BY <1>1 DEF Cmd, Size
  <2> QED
    BY <1>9, <2>1, <2>2, Zenon DEF Message, Single
<1>11. BatchAt(n)' = cur /\ n \notin Timestamps
  BY <1>1, <1>2, <1>5, <1>9, <1>a DEF BatchAt
<1>12. Shared' /\ Timestamps' = Timestamps \union {n}
  <2>1. Len(tracker) < MaxRequests[num_servers]
    BY <1>0, <1>2, <1>3, <1>4
  <2>2. \A s, ts : AFOwes(s, ts)' <=> AFOwes(s, ts)
    BY <1>1, <1>6, Zenon DEF AFOwes, PendingTs
  <2>3. \A s, ts : Owes(s, ts)' <=> Owes(s, ts)
    BY <1>1, <2>2, Zenon DEF Owes
  <2>4. \A s \in Servers : AFOwes(s, n)
    BY <1>2, <1>7, Zenon DEF AFOwes
  <2>5. \A s \in Servers : \A ts : ts = Len(tracker) => Owes(s, ts)'
    BY <1>0, <1>1, <2>3, <2>4, Zenon DEF Owes
  <2> QED
    BY <1>0, <1>1, <2>1, <2>3, <2>5, SharedNewRequest, Zenon
<1>13. ProgramTypes'
  <2>1. \A b : GoodBatch(b)' <=> GoodBatch(b)
    BY <1>1, Zenon DEF GoodBatch
  <2>2. IF n = LastOf(cur) THEN n + 1 = LastOf(cur) + 1 ELSE n + 1 \in cur.first .. LastOf(cur)
    BY <1>2, <1>3, <1>4
  <2>3. LastOf(cur)' = LastOf(cur)
    BY <1>1, Zenon DEF LastOf, Size
  <2> QED
    BY <1>1, <1>3, <1>9, <2>1, <2>2, <2>3, Zenon DEF ProgramTypes
<1>14. QueueTypes' /\ ServerTypes'
  BY <1>1, <1>5, Zenon DEF QueueTypes, ServerTypes
<1>15. Calls'
  <2> SUFFICES ASSUME NEW ts \in Timestamps'
               PROVE  /\ GoodBatch(BatchAt(ts)') /\ ts \in TimestampsOf(BatchAt(ts)')
                      /\ requests'[ts + 1].op =
                            IF ts < BatchAt(ts)'.first + BatchAt(ts)'.push THEN "push"
                                                                           ELSE "pull"
                      /\ \A t \in TimestampsOf(BatchAt(ts)') \intersect Timestamps' :
                            BatchAt(t)' = BatchAt(ts)'
                      /\ IF ts < Enqueued THEN LastOf(BatchAt(ts)') < Enqueued
                                          ELSE BatchAt(ts)' = cur
    <3>1. \A b : /\ GoodBatch(b)' <=> GoodBatch(b)
                 /\ TimestampsOf(b)' = TimestampsOf(b) /\ LastOf(b)' = LastOf(b)
      BY <1>1, Zenon DEF GoodBatch, TimestampsOf, Size, LastOf
    <3> QED
      BY <1>1, <1>5, <3>1, Zenon DEF Calls, GoodBatch, TimestampsOf, LastOf, Size
  <2>1. CASE ts \in Timestamps
    <3>1. PICK b : b = BatchAt(ts)
      OBVIOUS
    <3>2. /\ GoodBatch(b) /\ ts \in TimestampsOf(b)
          /\ requests[ts + 1].op = IF ts < b.first + b.push THEN "push" ELSE "pull"
          /\ \A t \in TimestampsOf(b) \intersect Timestamps : BatchAt(t) = b
          /\ IF ts < Enqueued THEN LastOf(b) < Enqueued ELSE b = cur
      BY <2>1, <3>1, Zenon DEF Calls
    <3>3. LastOf(b) \in Nat /\ TimestampsOf(b) = b.first .. LastOf(b)
      BY <3>2, BatchSizes, Zenon DEF GoodBatch
    <3>4. n \in TimestampsOf(b) => b = cur
      BY <3>2, <3>3, <1>2, <1>7
    <3>5. \A t \in TimestampsOf(b) \intersect Timestamps' : BatchAt(t)' = b
      BY <3>2, <3>4, <1>10, <1>11, <1>12, Zenon
    <3>6. BatchAt(ts)' = b /\ requests'[ts + 1] = requests[ts + 1]
      BY <2>1, <3>1, <1>9, <1>10, Zenon
    <3> QED
      BY <3>2, <3>5, <3>6, Zenon
  <2>2. CASE ts = n
    <3>1. \A t \in TimestampsOf(cur) \intersect Timestamps : BatchAt(t) = cur
      <4> SUFFICES ASSUME NEW t \in Timestamps, t \in TimestampsOf(cur)
                   PROVE  BatchAt(t) = cur
        OBVIOUS
      <4>1. ~(t < Enqueued)
        BY <1>4, <1>5
      <4> QED
        BY <4>1, Zenon DEF Calls
    <3>2. \A t \in TimestampsOf(cur) \intersect Timestamps' : BatchAt(t)' = cur
      BY <3>1, <1>10, <1>11, <1>12
    <3>3. ~(n < Enqueued)
      BY <1>2, <1>7
    <3>4. r.op = IF n < cur.first + cur.push THEN "push" ELSE "pull"
      BY <1>a
    <3> QED
      BY <2>2, <3>2, <3>3, <3>4, <1>3, <1>4, <1>9, <1>11, Zenon
  <2> QED
    BY <2>1, <2>2, <1>12, Zenon
<1>16. Waits'
  <2>1. ~Stopping'
    BY <1>1, Zenon DEF Stopping, Servers, Waits, AllWaited
  <2>2. \A b \in batch_timestamps :
           /\ b \in Batch
           /\ b.first \in Timestamps' /\ b.first < Enqueued' /\ BatchAt(b.first)' = b
           /\ \A t \in TimestampsOf(b) : t \notin waited
    BY <1>5, <1>10, <1>12, Zenon DEF Waits
  <2>3. \A h \in waited : TimestampsOf(BatchAt(h)') \subseteq waited
    BY <1>2, <1>10, Zenon DEF Waits, Types
  <2>4. pc' # "wait" /\ pc' # "emplace"
    BY <1>1, Zenon
  <2>5. \A b : TimestampsOf(b)' = TimestampsOf(b)
    BY DEF TimestampsOf, Size
  <2> QED
    BY <1>1, <2>1, <2>2, <2>3, <2>4, <2>5, Zenon DEF Waits, TimestampsOf, Size
<1>17. Chain'
  <2>1. \A b : b \in Batch /\ b.first < Enqueued => BatchAt(b.first)' = BatchAt(b.first)
    <3> SUFFICES ASSUME NEW b, b \in Batch, b.first < Enqueued
                 PROVE  BatchAt(b.first)' = BatchAt(b.first)
      OBVIOUS
    <3>1. b.first \in 0 .. Enqueued - 1
      BY <1>7, BatchSizes
    <3> QED
      BY <3>1, <1>7, <1>10, Zenon
  <2> QED
    BY <1>1, <1>5, <1>6, <2>1, Zenon DEF Chain, LastOf, Size, TimestampsOf
<1>18. InOrder'
  <2> SUFFICES ASSUME NEW s \in Servers
               PROVE  /\ Begun(s) >= 0
                      /\ \A i \in DOMAIN to_server[s] :
                            to_server[s][i] = Message(Handled(s) + i - 1)'
                      /\ \A i \in DOMAIN batch_data[s] :
                            batch_data[s][i] = Message(Begun(s) + i - 1)'
                      /\ Begun(s) < Enqueued => BatchAt(Begun(s))'.first = Begun(s)
                      /\ batch_data[s] # <<>> => Handled(s) <= LastOf(BatchAt(Begun(s))')
    BY <1>1, <1>5, <1>6, Zenon DEF InOrder, LastOf, Size
  <2>1. /\ Begun(s) >= 0
        /\ \A i \in DOMAIN to_server[s] : to_server[s][i] = Message(Handled(s) + i - 1)
        /\ \A i \in DOMAIN batch_data[s] : batch_data[s][i] = Message(Begun(s) + i - 1)
        /\ Begun(s) < Enqueued => BatchAt(Begun(s)).first = Begun(s)
        /\ batch_data[s] # <<>> => Handled(s) <= LastOf(BatchAt(Begun(s)))
    BY Zenon DEF InOrder
  <2>2. \A i \in DOMAIN to_server[s] : Message(Handled(s) + i - 1)' = Message(Handled(s) + i - 1)
    <3>1. \A i \in DOMAIN to_server[s] : Handled(s) + i - 1 \in Timestamps
      BY <1>7, Zenon
    <3>2. \A i \in DOMAIN to_server[s] : \A t :
             t = Handled(s) + i - 1 => Message(t)' = Message(t)
      BY <3>1, <1>10, Zenon
    <3> QED
      BY <3>2, <1>6, ZenonT(30) DEF Message, BatchAt, Cmd, Size
  <2>3. \A i \in DOMAIN batch_data[s] : Message(Begun(s) + i - 1)' = Message(Begun(s) + i - 1)
    <3>1. \A i \in DOMAIN batch_data[s] : Begun(s) + i - 1 \in Timestamps
      BY <1>7, Zenon
    <3>2. \A i \in DOMAIN batch_data[s] : \A t :
             t = Begun(s) + i - 1 => Message(t)' = Message(t)
      BY <3>1, <1>10
    <3> QED
      BY <3>2, <1>6, ZenonT(30) DEF Message, BatchAt, Cmd, Size
  <2>4. Begun(s) < Enqueued => BatchAt(Begun(s))' = BatchAt(Begun(s))
    <3>1. Begun(s) < Enqueued => Begun(s) \in Timestamps
      BY <1>7
    <3> QED
      BY <3>1, <1>6, <1>9, Zenon DEF BatchAt
  <2>5. batch_data[s] # <<>> => BatchAt(Begun(s))' = BatchAt(Begun(s))
    <3>1. batch_data[s] # <<>> => 1 \in DOMAIN batch_data[s]
      BY DEF ServerTypes
    <3>2. batch_data[s] # <<>> => Begun(s) + 1 - 1 \in Timestamps
      BY <3>1, <1>7, Zenon
    <3>3. batch_data[s] # <<>> => Begun(s) \in Timestamps
      BY <3>2, <1>7
    <3> QED
      BY <3>3, <1>6, <1>9, Zenon DEF BatchAt
  <2> QED
    BY <2>1, <2>2, <2>3, <2>4, <2>5, Zenon
<1>19. Waiting'
  <2>1. ASSUME NEW s \in Servers, NEW i \in DOMAIN pending[s],
               NEW t, t = pending[s][i][1].ts
        PROVE  /\ t \in Timestamps' /\ BatchAt(t)'.first = t
               /\ LastOf(BatchAt(t)') < Begun(s) /\ pending[s][i] = Whole(BatchAt(t))'
    <3>1. /\ t \in Timestamps /\ BatchAt(t).first = t /\ LastOf(BatchAt(t)) < Begun(s)
          /\ pending[s][i] = Whole(BatchAt(t))
      BY <2>1, Zenon DEF Waiting
    <3>2. BatchAt(t)' = BatchAt(t)
      BY <3>1, <1>10
    <3>3. PICK b : b = BatchAt(t)
      OBVIOUS
    <3>4. b \in Batch /\ LastOf(b) \in Nat /\ b.first \in Nat /\ Size(b) \in Nat
          /\ LastOf(b) + 1 = b.first + Size(b)
      BY <3>1, <3>3, <1>2, CallAt, BatchSizes, Zenon
    <3>5. \A k \in 1 .. Size(b) : b.first + k - 1 \in Timestamps
      <4>1. Begun(s) \in Nat /\ 0 .. Begun(s) - 1 \subseteq Timestamps
        BY <1>7, Zenon
      <4> QED
        BY <3>1, <3>3, <3>4, <4>1
    <3>6. \A k \in 1 .. Size(b) : Message(b.first + k - 1)' = Message(b.first + k - 1)
      BY <3>5, <1>10
    <3>7. Whole(b)' = Whole(b)
      BY <3>6 DEF Whole
    <3> QED
      BY <3>1, <3>2, <3>3, <3>7, <1>12, Zenon
  <2>2. \A s, i : PendingTs(s, i)' = PendingTs(s, i)
    BY <1>1, Zenon DEF PendingTs
  <2>3. ASSUME NEW s \in Servers, NEW i \in DOMAIN pending[s]
        PROVE  (LET t == pending[s][i][1].ts
                IN  /\ t \in Timestamps /\ BatchAt(t).first = t
                    /\ LastOf(BatchAt(t)) < Begun(s) /\ pending[s][i] = Whole(BatchAt(t)))'
    <3>1. PICK t : t = pending[s][i][1].ts
      OBVIOUS
    <3>2. t = pending'[s][i][1].ts
      BY <3>1, <1>1, Zenon
    <3>3. /\ t \in Timestamps' /\ BatchAt(t)'.first = t
          /\ LastOf(BatchAt(t)') < Begun(s) /\ pending[s][i] = Whole(BatchAt(t))'
      BY <2>1, <3>1
    <3> QED
      BY <3>2, <3>3, <1>1, <1>6, Zenon DEF LastOf, Size
  <2> QED
    BY <1>1, <1>5, <1>6, <2>2, <2>3, Zenon DEF Waiting
<1>20. Responses'
  <2>2. \A s, i : PendingTs(s, i)' = PendingTs(s, i)
    BY <1>1 DEF PendingTs
  <2>3. ASSUME NEW s \in Servers, NEW i \in DOMAIN response_queue[s]
        PROVE  (LET m == response_queue[s][i].msg
                    b == BatchAt(m.ts)
                IN  IF m = Null THEN response_stop[s] /\ response_queue[s][i].event = 0
                    ELSE /\ m.ts \in Timestamps
                         /\ m.ts = LastOf(b) /\ m.ts < Begun(s) /\ m = Message(m.ts)
                         /\ b.pull = 1 /\ m.cmd # "single"
                         /\ response_queue[s][i].val = PushTs(b)
                         /\ \A j \in DOMAIN pending[s] : m.ts < PendingTs(s, j))'
    <3>1. PICK m : m = response_queue[s][i].msg
      OBVIOUS
    <3>2. m = response_queue'[s][i].msg
      BY <3>1, <1>1, Zenon
    <3>3. IF m = Null THEN response_stop[s] /\ response_queue[s][i].event = 0
          ELSE /\ m.ts \in Timestamps'
               /\ m.ts = LastOf(BatchAt(m.ts)') /\ m.ts < Begun(s)
               /\ m = Message(m.ts)'
               /\ BatchAt(m.ts)'.pull = 1 /\ m.cmd # "single"
               /\ response_queue[s][i].val = PushTs(BatchAt(m.ts)')
               /\ \A j \in DOMAIN pending[s] : m.ts < PendingTs(s, j)
      <4>1. IF m = Null THEN response_stop[s] /\ response_queue[s][i].event = 0
            ELSE /\ m.ts \in Timestamps
                 /\ m.ts = LastOf(BatchAt(m.ts)) /\ m.ts < Begun(s)
                 /\ m = Message(m.ts)
                 /\ BatchAt(m.ts).pull = 1 /\ m.cmd # "single"
                 /\ response_queue[s][i].val = PushTs(BatchAt(m.ts))
                 /\ \A j \in DOMAIN pending[s] : m.ts < PendingTs(s, j)
        BY <3>1, Zenon DEF Responses
      <4>2. m.ts \in Timestamps =>
               /\ BatchAt(m.ts)' = BatchAt(m.ts) /\ Message(m.ts)' = Message(m.ts)
               /\ m.ts \in Timestamps'
        BY <1>10, <1>12, Zenon
      <4> QED
        BY <4>1, <4>2, Zenon
    <3>4. \A j \in DOMAIN pending[s] : PendingTs(s, j)' = PendingTs(s, j)
      BY <2>2, Zenon
    <3>5. CASE m = Null
      BY <3>2, <3>3, <3>5, <1>1, Zenon
    <3>6. CASE m # Null
      <4>1. /\ m.ts \in Timestamps'
            /\ m.ts = LastOf(BatchAt(m.ts)') /\ m.ts < Begun(s)'
            /\ m = Message(m.ts)'
            /\ BatchAt(m.ts)'.pull = 1 /\ m.cmd # "single"
            /\ response_queue'[s][i].val = PushTs(BatchAt(m.ts)')
            /\ \A j \in DOMAIN pending'[s] : m.ts < PendingTs(s, j)'
        BY <3>3, <3>4, <3>6, <1>1, <1>6, Zenon
      <4> QED
        BY <4>1, <3>2, <3>6, Zenon DEF LastOf, Size, PushTs
    <3> QED
      BY <3>5, <3>6, Zenon
  <2> QED
    BY <1>1, <1>5, <2>3, ZenonT(30) DEF Responses
<1>21. Answers'
  <2>1. \A s \in Servers : \A i \in DOMAIN to_worker[s] : to_worker[s][i].ts \in Timestamps
    BY <1>2, Zenon DEF Once
  <2>2. ASSUME NEW s \in Servers, NEW i \in DOMAIN to_worker[s], NEW m, m = to_worker[s][i]
        PROVE  /\ m.op = requests'[m.ts + 1].op
               /\ ~Single(m.ts)' => m.ready
               /\ m.op = "pull" /\ ~Single(m.ts)' => m.val = PushTs(BatchAt(m.ts)')
    <3>1. /\ m.op = requests[m.ts + 1].op
          /\ ~Single(m.ts) => m.ready
          /\ m.op = "pull" /\ ~Single(m.ts) => m.val = PushTs(BatchAt(m.ts))
      BY <2>2, Zenon DEF Answers
    <3>2. m.ts \in Timestamps
      BY <2>1, <2>2, Zenon
    <3> QED
      BY <3>1, <3>2, <1>9, <1>10, Zenon
  <2>3. ASSUME NEW s \in Servers, NEW i \in DOMAIN to_worker[s]
        PROVE  (LET m == to_worker[s][i]
                IN  /\ m.op = requests[m.ts + 1].op
                    /\ ~Single(m.ts) => m.ready
                    /\ m.op = "pull" /\ ~Single(m.ts) => m.val = PushTs(BatchAt(m.ts)))'
    <3>1. PICK m : m = to_worker[s][i]
      OBVIOUS
    <3>2. m = to_worker'[s][i]
      BY <3>1, <1>1, Zenon
    <3>3. /\ m.op = requests'[m.ts + 1].op
          /\ ~Single(m.ts)' => m.ready
          /\ m.op = "pull" /\ ~Single(m.ts)' => m.val = PushTs(BatchAt(m.ts)')
      BY <2>2, <3>1
    <3> QED
      BY <3>2, <3>3, Zenon DEF PushTs
  <2> QED
    BY <1>1, <1>5, <2>3, Zenon DEF Answers
<1>22. Parts'
  <2>0. /\ tracker \in Seq(Counter) /\ n = Len(tracker)
        /\ tracker' = Append(tracker, [count |-> num_servers, response_count |-> 0])
    BY <1>0, <1>1, <1>2, Zenon DEF Types
  <2>1. /\ \A ts : Taken(ts)' = Taken(ts)
        /\ Taken(n) = 0
    BY <1>1, <1>2, <1>11, Zenon DEF Taken, Types
  <2>2. ASSUME NEW ts \in Timestamps, requests'[ts + 1].op = "pull"
        PROVE  /\ Len(recv_kvs'[ts]) = tracker'[ts + 1].response_count + Taken(ts)'
               /\ ~Single(ts)' => \A i \in DOMAIN recv_kvs'[ts] :
                                     recv_kvs'[ts][i].val = PushTs(BatchAt(ts)')
    <3>1. ts + 1 \in 1 .. n
      BY <1>2, <1>5
    <3>2. tracker'[ts + 1] = tracker[ts + 1]
      BY <2>0, <3>1
    <3> QED
      BY <2>1, <2>2, <3>2, <1>1, <1>9, <1>10, Zenon DEF Parts
  <2>3. Len(recv_kvs'[n]) = tracker'[n + 1].response_count + Taken(n)'
        /\ DOMAIN recv_kvs'[n] = {}
    <3>1. n \in DOMAIN recv_kvs
      BY <1>2, <1>3, <1>4 DEF Types
    <3>2. recv_kvs[n] = <<>>
      BY <3>1, <1>0, <1>2 DEF Types
    <3>3. tracker'[n + 1].response_count = 0
      BY <2>0
    <3>4. recv_kvs'[n] = <<>> /\ Taken(n)' = 0
      BY <3>2, <2>1, <1>1, Zenon
    <3> QED
      BY <3>3, <3>4
  <2>4. \A b : PushTs(b)' = PushTs(b)
    BY DEF PushTs
  <2> QED
    BY <2>2, <2>3, <2>4, <1>12, Zenon DEF Parts, PushTs
<1>23. WorkerEvents'
  BY <1>1, Zenon DEF WorkerEvents, InUse
<1>24. ServerEvents'
  <2>1. \A s \in Servers : AnsweredPulls(s)' = AnsweredPulls(s)
    <3> SUFFICES ASSUME NEW s \in Servers
                 PROVE  AnsweredPulls(s)' = AnsweredPulls(s)
      OBVIOUS
    <3>1. \A ts : ts \in AnsweredPulls(s) <=>
                     /\ ts \in Timestamps /\ Single(ts) /\ requests[ts + 1].op = "pull"
                     /\ ts < Begun(s) /\ \A i \in DOMAIN pending[s] : PendingTs(s, i) # ts
      BY Zenon DEF AnsweredPulls, SinglePulls, Single, BatchAt
    <3>2. \A ts : ts \in AnsweredPulls(s)' <=>
                     /\ ts \in Timestamps' /\ Single(ts)' /\ requests'[ts + 1].op = "pull"
                     /\ ts < Begun(s)' /\ \A i \in DOMAIN pending'[s] : PendingTs(s, i)' # ts
      BY Zenon DEF AnsweredPulls, SinglePulls, Single, BatchAt
    <3>3. ~(n < Begun(s))
      BY <1>2, <1>7
    <3>4. \A i : PendingTs(s, i)' = PendingTs(s, i)
      BY <1>1, Zenon DEF PendingTs
    <3>5. ASSUME NEW ts
          PROVE  ts \in AnsweredPulls(s)' <=> ts \in AnsweredPulls(s)
      <4>1. CASE ts \in Timestamps
        <5>1. /\ Single(ts)' <=> Single(ts)
              /\ requests'[ts + 1].op = requests[ts + 1].op /\ ts \in Timestamps'
          BY <4>1, <1>9, <1>10, <1>12, Zenon
        <5>2. Begun(s)' = Begun(s) /\ pending' = pending
          BY <1>1, <1>6, Zenon
        <5> QED
          BY <4>1, <5>1, <5>2, <3>1, <3>2, <3>4
      <4>2. CASE ts \notin Timestamps
        <5>1. ts \in Timestamps' => ~(ts < Begun(s)')
          BY <4>2, <3>3, <1>6, <1>12, Zenon
        <5> QED
          BY <4>2, <5>1, <3>1, <3>2, Zenon
      <4> QED
        BY <4>1, <4>2
    <3> QED
      BY <3>5, Zenon DEF AnsweredPulls
  <2>2. \A s : Orphans(s)' = Orphans(s) /\ Recorded(s)' = Recorded(s)
    BY <1>1, Zenon DEF Orphans, InUse, Recorded
  <2> QED
    BY <1>1, <1>5, <2>1, <2>2, Zenon DEF ServerEvents, PoolKept, InUse
<1> QED
  BY <1>12, <1>13, <1>14, <1>15, <1>16, <1>17, <1>18, <1>19, <1>20, <1>21, <1>22, <1>23, <1>24

(* The call goes to the sending thread, with its event.                    *)
LEMMA AFEnqueue ==
    ASSUME Shared, AFInv, app = "af", Enqueue
    PROVE  Shared' /\ AFInv'
<1> USE DEF AFInv
<1>0. PICK ev : ev = GetEvent(events)
  OBVIOUS
<1>a. PICK r : r = [batch |-> cur, event |-> ev, work |-> submitted]
  BY Zenon
<1>1. /\ pc = "enqueue" /\ pc' = "emplace" /\ ~raced
      /\ events' = Occupied(events, ev, submitted)
      /\ pushpull_queue' = Append(pushpull_queue, r)
      /\ UNCHANGED <<app, num_servers, tracker, requests, cur, waited, recv_kvs, to_server,
                     to_worker, rcv, raced, pushpull_stop, batch_timestamps, sender,
                     submitted, gpu, batch_data, pending, response_queue,
                     response_stop, server_submitted, server_gpu, server_events>>
  BY <1>0, <1>a DEF Enqueue, Running, confVars, tableVars, endVars, pullVars, netVars,
         peerVars, senderVars, gpuVars, serverVars, responderVars, sgpuVars
<1>b. PICK q : q = Len(pushpull_queue)
  BY Zenon
<1>2. /\ Types /\ Len(tracker) \in Nat
      /\ events \in Seq(Event) /\ submitted \in Nat /\ pushpull_queue \in Seq(Item)
      /\ q \in Nat /\ DOMAIN pushpull_queue = 1 .. q
  BY <1>b, Numbers DEF Shared, QueueTypes
<1>3. /\ GoodBatch(cur) /\ LastOf(cur) < MaxRequests[num_servers]
      /\ \A ts \in waited : ts < cur.first
      /\ Len(tracker) = LastOf(cur) + 1
  BY <1>1 DEF ProgramTypes
<1>4. /\ cur \in Batch /\ cur.first \in Nat /\ LastOf(cur) \in Nat
      /\ cur.first <= LastOf(cur) /\ TimestampsOf(cur) = cur.first .. LastOf(cur)
      /\ cur # Null /\ cur.first < Len(tracker)
  <2>1. /\ cur \in Batch /\ cur.first \in Nat /\ LastOf(cur) \in Nat
        /\ cur.first <= LastOf(cur) /\ TimestampsOf(cur) = cur.first .. LastOf(cur)
        /\ cur # Null
    BY <1>3, BatchSizes DEF GoodBatch
  <2> QED
    BY <1>2, <1>3, <2>1
<1>5. /\ Enqueued = cur.first /\ Enqueued' = Len(tracker) /\ Servers' = Servers
      /\ Timestamps' = Timestamps
  BY <1>1 DEF Enqueued, Servers, Timestamps
<1>6. ~pushpull_stop /\ ~Stopping
  BY <1>1 DEF Waits, AllWaited, Stopping
<1>7. /\ ev \in Nat \ {0} /\ ev \notin InUse(events) /\ ev \in 1 .. Len(events) + 1
  BY <1>0, <1>2, GetEventFree
<1>o. EventTaken(events, ev, submitted, Occupied(events, ev, submitted))
  <2>1. CanOccupy(events, ev, submitted)
    BY <1>2, <1>7, Zenon DEF CanOccupy
  <2> QED
    BY <2>1, OccupiedPool, Zenon
<1>8. /\ r \in Item /\ r # Empty /\ r.batch = cur /\ r.event = ev /\ r.work = submitted
  <2>1. r.batch = cur /\ r.event = ev /\ r.work = submitted
    BY <1>a
  <2>2. r # Empty
    BY <2>1, <1>4 DEF Empty
  <2> QED
    BY <1>a, <1>2, <1>4, <1>7, <2>1, <2>2 DEF Item
<1>9. /\ pushpull_queue' \in Seq(Item) /\ DOMAIN pushpull_queue' = 1 .. q + 1
      /\ pushpull_queue'[q + 1] = r
      /\ \A i \in 1 .. q : pushpull_queue'[i] = pushpull_queue[i]
  BY <1>1, <1>2, <1>8, <1>b
<1>10. /\ \A i \in 1 .. q + 1 : QueueFirst(i)' = QueueFirst(i)
       /\ \A i : i = q + 2 => QueueFirst(i)' = Len(tracker)
  <2>1. \A i \in 1 .. q : pushpull_queue[i] # Empty
    <3>1. \A i \in 1 .. q : pushpull_queue[i].batch \in Batch
      BY <1>2, <1>6 DEF Chain
    <3> QED
      BY <3>1, AFAssumption DEF Empty
  <2>2. \A i \in 1 .. q : QueueFirst(i)' = QueueFirst(i)
    BY <1>2, <1>9, <2>1 DEF QueueFirst
  <2>3. q + 1 \in 1 .. q + 1 /\ q + 1 \notin 1 .. q /\ q + 2 \notin 1 .. q + 1
    BY <1>2
  <2>4. \A i : i = q + 1 => QueueFirst(i)' = cur.first /\ QueueFirst(i) = cur.first
    BY <1>2, <1>5, <1>8, <1>9, <2>3 DEF QueueFirst
  <2>5. \A i : i = q + 2 => QueueFirst(i)' = Len(tracker)
    BY <1>5, <1>9, <2>3 DEF QueueFirst
  <2>6. \A i \in 1 .. q + 1 : i \in 1 .. q \/ i = q + 1
    BY <1>2
  <2> QED
    BY <2>2, <2>4, <2>5, <2>6
<1>11. Sent' = Sent /\ \A s : Handled(s)' = Handled(s) /\ Begun(s)' = Begun(s)
  <2>1. Sent' = Sent
    BY <1>1, <1>2, <1>10 DEF Sent
  <2> QED
    BY <1>1, <2>1 DEF Handled, Begun
<1>12. BatchAt(cur.first) = cur
  <2>1. cur.first \in Timestamps /\ ~(cur.first < Enqueued)
    BY <1>2, <1>4, <1>5 DEF Timestamps
  <2> QED
    BY <2>1 DEF Calls
<1>13. \A ts : BatchAt(ts)' = BatchAt(ts) /\ Message(ts)' = Message(ts)
  BY <1>1, FrameMessages
<1>14. ProgramTypes' /\ ServerTypes'
  <2>1. \A b : GoodBatch(b)' <=> GoodBatch(b)
    BY <1>1 DEF GoodBatch
  <2> QED
    BY <1>1, <1>5, <2>1, Zenon DEF ProgramTypes, ServerTypes, LastOf, Size
<1>15. QueueTypes'
  <2>1. events' \in Seq(Event)
    BY <1>1, <1>o, Zenon DEF EventTaken
  <2> QED
    BY <1>1, <1>9, <2>1 DEF QueueTypes
<1>16. Calls'
  <2>1. \A ts \in Timestamps : LastOf(BatchAt(ts)) < Len(tracker)
    <3> SUFFICES ASSUME NEW ts \in Timestamps
                 PROVE  LastOf(BatchAt(ts)) < Len(tracker)
      OBVIOUS
    <3>1. IF ts < Enqueued THEN LastOf(BatchAt(ts)) < Enqueued ELSE BatchAt(ts) = cur
      BY Zenon DEF Calls
    <3>2. LastOf(BatchAt(ts)) \in Nat
      BY <1>2, CallAt, Zenon
    <3> QED
      BY <3>1, <3>2, <1>2, <1>3, <1>4, <1>5
  <2>2. \A ts \in Timestamps : ts < Len(tracker)
    BY <1>2 DEF Timestamps
  <2>3. \A b : /\ GoodBatch(b)' <=> GoodBatch(b) /\ TimestampsOf(b)' = TimestampsOf(b)
               /\ LastOf(b)' = LastOf(b)
    BY <1>1 DEF GoodBatch, TimestampsOf, LastOf, Size
  <2> QED
    BY <1>1, <1>5, <1>13, <2>1, <2>2, <2>3, Zenon DEF Calls, LastOf, Size, TimestampsOf, GoodBatch
<1>17. Waits'
  <2>1. ~Stopping'
    BY <1>1, <1>5, <1>6, Zenon DEF Stopping
  <2>2. \A b \in batch_timestamps : b.first < Len(tracker)
    BY <1>2 DEF Waits, Timestamps
  <2> QED
    BY <1>1, <1>5, <1>12, <1>13, <2>1, <2>2, Zenon DEF Waits, TimestampsOf, Size
<1>18. Chain'
  <2>1. \A b : b \in Batch /\ b.first < Enqueued => b.first < Len(tracker)
    BY <1>2, <1>4, <1>5, BatchSizes
  <2>2. ASSUME NEW i \in 1 .. q + 1, NEW b, b = pushpull_queue'[i].batch
        PROVE  /\ b \in Batch /\ b.first < Len(tracker) /\ BatchAt(b.first) = b
               /\ LastOf(b) + 1 = QueueFirst(i + 1)'
    <3>1. CASE i \in 1 .. q
      <4>1. /\ b \in Batch /\ b.first < Enqueued /\ BatchAt(b.first) = b
            /\ LastOf(b) + 1 = QueueFirst(i + 1)
        BY <2>2, <3>1, <1>2, <1>6, <1>9, Zenon DEF Chain
      <4>2. i + 1 \in 1 .. q + 1
        BY <3>1, <1>2
      <4>3. \A k : k = i + 1 => QueueFirst(k)' = QueueFirst(k)
        BY <4>2, <1>10
      <4> QED
        BY <4>1, <4>3, <2>1
    <3>2. CASE i = q + 1
      <4>1. b = cur
        BY <2>2, <3>2, <1>8, <1>9
      <4>2. i + 1 = q + 2
        BY <3>2, <1>2
      <4> QED
        BY <4>1, <4>2, <1>3, <1>4, <1>10, <1>12, Zenon
    <3> QED
      BY <3>1, <3>2, <1>2
  <2>3. sender.at = "send" =>
           LET b == sender.req.batch
           IN  /\ b \in Batch /\ b.first < Len(tracker) /\ BatchAt(b.first) = b
               /\ sender.next \in TimestampsOf(b)
               /\ LastOf(b) + 1 = QueueFirst(1)'
    <3>1. 1 \in 1 .. q + 1
      BY <1>2
    <3> QED
      BY <3>1, <2>1, <1>10, Zenon DEF Chain
  <2>4. \A i \in DOMAIN pushpull_queue' :
           LET b == pushpull_queue'[i].batch
           IN  /\ b \in Batch /\ b.first < Len(tracker) /\ BatchAt(b.first) = b
               /\ LastOf(b) + 1 = QueueFirst(i + 1)'
    BY <2>2, <1>9, Zenon
  <2> QED
    BY <1>1, <1>5, <1>6, <1>13, <2>3, <2>4, Zenon DEF Chain, LastOf, Size, TimestampsOf, BatchAt
<1>19. InOrder'
  <2>1. ASSUME NEW s \in Servers, Begun(s) < Len(tracker)
        PROVE  BatchAt(Begun(s)).first = Begun(s)
    <3>1. CASE Begun(s) < Enqueued
      BY <3>1, Zenon DEF InOrder
    <3>2. CASE ~(Begun(s) < Enqueued)
      <4>1. /\ Begun(s) \in Nat /\ Begun(s) + Len(batch_data[s]) = Handled(s)
            /\ Handled(s) + Len(to_server[s]) = Sent /\ Sent \in Nat /\ Sent <= Enqueued
            /\ Len(to_server[s]) \in Nat /\ Len(batch_data[s]) \in Nat /\ Handled(s) \in Nat
        BY <1>2, Progress
      <4>2. Begun(s) = cur.first
        BY <4>1, <3>2, <1>4, <1>5
      <4> QED
        BY <4>2, <1>12
    <3> QED
      BY <3>1, <3>2
  <2>2. ASSUME NEW s \in Servers
        PROVE  /\ Begun(s) >= 0
               /\ \A i \in DOMAIN to_server[s] : to_server[s][i] = Message(Handled(s) + i - 1)
               /\ \A i \in DOMAIN batch_data[s] : batch_data[s][i] = Message(Begun(s) + i - 1)
               /\ batch_data[s] # <<>> => Handled(s) <= LastOf(BatchAt(Begun(s)))
    BY Zenon DEF InOrder
  <2> QED
    BY <1>1, <1>5, <1>11, <1>13, <2>1, <2>2, Zenon DEF InOrder, LastOf, Size
<1>20. Waiting' /\ Responses'
  BY <1>1, <1>11, FrameWaiting, Zenon
<1>21. Answers' /\ Parts'
  BY <1>1, FrameAnswers, FrameParts, Zenon
<1>22. WorkerEvents'
  <2>1. /\ gpu <= submitted /\ (sender.at = "send" => sender.req.work <= gpu)
        /\ \A i \in 1 .. q : pushpull_queue[i] # Empty =>
              /\ pushpull_queue[i].event \in DOMAIN events
              /\ events[pushpull_queue[i].event] =
                    [released |-> FALSE, recorded |-> pushpull_queue[i].work]
        /\ \A i, j \in 1 .. q :
              /\ pushpull_queue[i] # Empty /\ pushpull_queue[j] # Empty
              /\ pushpull_queue[i].event = pushpull_queue[j].event
              => i = j
        /\ \A e \in InUse(events) : \E i \in 1 .. q : pushpull_queue[i].event = e
    BY <1>2, Zenon DEF WorkerEvents
  <2>2. ASSUME NEW i \in 1 .. q, pushpull_queue[i] # Empty, NEW e, e = pushpull_queue[i].event
        PROVE  /\ e \in DOMAIN events /\ e # ev
               /\ events[e] = [released |-> FALSE, recorded |-> pushpull_queue[i].work]
    <3>1. e \in DOMAIN events /\ events[e] = [released |-> FALSE, recorded |-> pushpull_queue[i].work]
      BY <2>1, <2>2, Zenon
    <3>2. e \in InUse(events)
      BY <3>1 DEF InUse
    <3> QED
      BY <3>1, <3>2, <1>7, Zenon
  <2>a. PICK p : p = Occupied(events, ev, submitted)
    OBVIOUS
  <2>3. /\ events' = p /\ DOMAIN p = DOMAIN events \union {ev}
        /\ p[ev] = [released |-> FALSE, recorded |-> submitted]
        /\ \A j \in DOMAIN events : j # ev => p[j] = events[j]
        /\ InUse(p) = InUse(events) \union {ev}
    <3>1. EventTaken(events, ev, submitted, p) /\ events' = p
      BY <2>a, <1>o, <1>1, Zenon
    <3> QED
      BY <3>1, Zenon DEF EventTaken
  <2>4. \A i \in DOMAIN pushpull_queue' : i \in 1 .. q \/ i = q + 1
    BY <1>2, <1>9
  <2>5. ASSUME NEW i \in DOMAIN pushpull_queue', pushpull_queue'[i] # Empty
        PROVE  /\ pushpull_queue'[i].event \in DOMAIN p
               /\ p[pushpull_queue'[i].event] =
                     [released |-> FALSE, recorded |-> pushpull_queue'[i].work]
    <3>1. CASE i \in 1 .. q
      <4>1. pushpull_queue'[i] = pushpull_queue[i]
        BY <3>1, <1>9, Zenon
      <4> QED
        BY <4>1, <3>1, <2>2, <2>3, <2>5
    <3>2. CASE i = q + 1
      BY <3>2, <2>3, <1>8, <1>9, Zenon
    <3> QED
      BY <3>1, <3>2, <2>4, Zenon
  <2>6. \A i, j \in DOMAIN pushpull_queue' :
           /\ pushpull_queue'[i] # Empty /\ pushpull_queue'[j] # Empty
           /\ pushpull_queue'[i].event = pushpull_queue'[j].event
           => i = j
    <3>1. \A i \in 1 .. q : pushpull_queue[i] # Empty => pushpull_queue[i].event # ev
      BY <2>2, Zenon
    <3>2. /\ \A i \in 1 .. q : pushpull_queue'[i] = pushpull_queue[i]
          /\ pushpull_queue'[q + 1].event = ev
      BY <1>8, <1>9, Zenon
    <3>3. \A i, j \in 1 .. q :
             /\ pushpull_queue[i] # Empty /\ pushpull_queue[j] # Empty
             /\ pushpull_queue[i].event = pushpull_queue[j].event
             => i = j
      BY <2>1, Zenon
    <3> QED
      BY <2>4, <3>1, <3>2, <3>3, Zenon
  <2>7. \A e \in InUse(p) : \E i \in DOMAIN pushpull_queue' : pushpull_queue'[i].event = e
    <3>1. 1 .. q \subseteq DOMAIN pushpull_queue' /\ q + 1 \in DOMAIN pushpull_queue'
      BY <1>2, <1>9
    <3>2. \A i \in 1 .. q : pushpull_queue'[i] = pushpull_queue[i]
      BY <1>8, <1>9, Zenon
    <3>3. pushpull_queue'[q + 1].event = ev
      BY <1>8, <1>9, Zenon
    <3>4. \A e \in InUse(events) : \E i \in 1 .. q : pushpull_queue[i].event = e
      BY <2>1, Zenon
    <3>5. ASSUME NEW e \in InUse(p)
          PROVE  \E i \in DOMAIN pushpull_queue' : pushpull_queue'[i].event = e
      <4>1. e \in InUse(events) \/ e = ev
        BY <2>3, Zenon
      <4>2. CASE e = ev
        BY <3>1, <3>3, <4>2, Zenon
      <4>3. CASE e \in InUse(events)
        BY <3>1, <3>2, <3>4, <4>3, Zenon
      <4> QED
        BY <4>1, <4>2, <4>3, Zenon
    <3> QED
      BY <3>5, Zenon
  <2>8. InUse(events)' = InUse(p)
    BY <2>3, Zenon DEF InUse
  <2>9. \A i \in DOMAIN pushpull_queue' : pushpull_queue'[i] # Empty =>
           /\ pushpull_queue'[i].event \in DOMAIN events'
           /\ events'[pushpull_queue'[i].event] =
                 [released |-> FALSE, recorded |-> pushpull_queue'[i].work]
    BY <2>3, <2>5, Zenon
  <2>10. \A e \in InUse(events)' : \E i \in DOMAIN pushpull_queue' : pushpull_queue'[i].event = e
    BY <2>7, <2>8, Zenon
  <2>11. gpu' <= submitted' /\ (sender'.at = "send" => sender'.req.work <= gpu')
    BY <1>1, <2>1, Zenon
  <2>12. Empty' = Empty
    BY DEF Empty
  <2> QED
    BY <2>6, <2>9, <2>10, <2>11, <2>12, Zenon DEF WorkerEvents
<1>23. ServerEvents'
  BY <1>1, <1>11, FrameServerEvents, Zenon
<1>24. Shared'
  <2>1. Types'
    BY <1>1, <1>5, Zenon DEF Shared, Types
  <2>2. \A s \in Servers, ts \in Timestamps : Owes(s, ts)' <=> Owes(s, ts)
    BY <1>1, <1>11, FrameOwes, Zenon
  <2> QED
    BY <1>1, <2>1, <2>2, NothingMoves, Zenon DEF Shared, WaitedFinished
<1> QED
  BY <1>14, <1>15, <1>16, <1>17, <1>18, <1>19, <1>20, <1>21, <1>22, <1>23, <1>24

-----------------------------------------------------------------------------
(* The sending thread.                                                     *)
LEMMA AFSenderStep ==
    ASSUME Shared, AFInv, app = "af",
           UNCHANGED <<app, num_servers, tracker, requests, pc, cur, waited, recv_kvs,
                       to_worker, rcv, batch_timestamps, pushpull_stop, submitted, gpu,
                       batch_data, pending, response_queue, response_stop,
                       server_submitted, server_gpu, server_events>>, ~raced',
           \A s \in Servers : Handled(s)' = Handled(s),
           QueueTypes', ServerTypes', Chain', InOrder', WorkerEvents'
    PROVE  Shared' /\ AFInv'
<1> USE DEF AFInv
<1>1. Servers' = Servers /\ Timestamps' = Timestamps /\ Enqueued' = Enqueued
  BY DEF Servers, Timestamps, Enqueued
<1>2. ProgramTypes' /\ Calls' /\ Waits'
  <2>1. \A ts : Finished(ts)' <=> Finished(ts)
    BY DEF Finished
  <2> QED
    BY <2>1, FrameProgram DEF Shared
<1>3. \A s \in Servers : Begun(s)' = Begun(s)
  BY DEF Begun
<1>4. Waiting' /\ Responses'
  BY <1>3, FrameWaiting
<1>5. Answers' /\ Parts'
  BY FrameAnswers, FrameParts
<1>6. ServerEvents'
  BY <1>3, FrameServerEvents
<1>7. Shared'
  <2>1. Types'
    BY <1>1, Zenon DEF Shared, Types
  <2>2. \A s \in Servers, ts \in Timestamps : Owes(s, ts)' <=> Owes(s, ts)
    BY FrameOwes
  <2> QED
    BY <2>1, <2>2, NothingMoves, Zenon DEF Shared, WaitedFinished
<1> QED
  BY <1>2, <1>4, <1>5, <1>6, <1>7

(* The sending thread tests the stop flag.                                 *)
LEMMA AFCheckStop ==
    ASSUME Shared, AFInv, CheckStop
    PROVE  Shared' /\ AFInv'
<1> USE DEF AFInv
<1>1. /\ app = "af" /\ sender.at = "check" /\ ~raced
      /\ sender' = Loop(IF pushpull_stop THEN "ended" ELSE "pop")
      /\ UNCHANGED <<app, num_servers, tracker, requests, pc, cur, waited, recv_kvs,
                     to_server, to_worker, rcv, raced, pushpull_queue, events,
                     batch_timestamps, pushpull_stop, submitted, gpu,
                     batch_data, pending, response_queue, response_stop,
                     server_submitted, server_gpu, server_events>>
  BY DEF CheckStop, Running, kvVars, confVars, tableVars, endVars, programVars, pullVars,
         netVars, peerVars, gpuVars, serverVars, responderVars, sgpuVars
<1>2. /\ sender'.at \in {"ended", "pop"} /\ sender'.next = 0 /\ sender'.req = Empty
      /\ sender' \in [at : {"check", "pop", "send", "ended"}, next : Nat, req : Item]
  BY <1>1 DEF Loop, Item, Empty
<1>3. Enqueued' = Enqueued /\ \A i : QueueFirst(i)' = QueueFirst(i)
  BY <1>1 DEF Enqueued, QueueFirst
<1>4. Sent' = Sent
  BY <1>1, <1>2, <1>3 DEF Sent
<1>5. (\A s : Handled(s)' = Handled(s)) /\ Servers' = Servers
  BY <1>1, <1>4 DEF Handled, Servers
<1>6. QueueTypes' /\ ServerTypes'
  BY <1>1, <1>2, <1>5, Zenon DEF QueueTypes, ServerTypes
<1>7. Chain'
  BY <1>1, <1>2, <1>3, Zenon DEF Chain, BatchAt, LastOf, Size
<1>8. InOrder'
  BY <1>1, <1>3, <1>4, FrameServer
<1>9. WorkerEvents'
  BY <1>1, <1>2 DEF WorkerEvents, InUse
<1> QED
  BY <1>1, <1>5, <1>6, <1>7, <1>8, <1>9, AFSenderStep, Zenon

(* An empty request is popped only after the destructor.                   *)
LEMMA AFPopRequest ==
    ASSUME Shared, AFInv, app = "af", PopRequest
    PROVE  Shared' /\ AFInv'
<1> USE DEF AFInv
<1>0. PICK r : r = Head(pushpull_queue)
  OBVIOUS
<1>1. /\ sender.at = "pop" /\ pushpull_queue # <<>> /\ ~raced
      /\ Synced(events, r.event, gpu)
      /\ pushpull_queue' = Tail(pushpull_queue)
      /\ events' = Release(events, r.event)
      /\ IF r = Empty THEN sender' = sender
         ELSE sender' = [at |-> "send", req |-> r, next |-> r.batch.first]
      /\ UNCHANGED <<app, num_servers, tracker, requests, pc, cur, waited, recv_kvs,
                     to_server, to_worker, rcv, raced,
                     batch_timestamps, pushpull_stop, submitted, gpu,
                     batch_data, pending, response_queue, response_stop,
                     server_submitted, server_gpu, server_events>>
  BY <1>0, Zenon DEF PopRequest, Running, confVars, tableVars, programVars, pullVars,
         netVars, peerVars, gpuVars, serverVars, responderVars, sgpuVars
<1>b. PICK q : q = Len(pushpull_queue)
  BY Zenon
<1>2. /\ pushpull_queue \in Seq(Item) /\ q \in Nat /\ q > 0
      /\ DOMAIN pushpull_queue = 1 .. q /\ r = pushpull_queue[1] /\ r \in Item
      /\ pushpull_queue' \in Seq(Item) /\ DOMAIN pushpull_queue' = 1 .. q - 1
      /\ \A i \in 1 .. q - 1 : /\ i + 1 \in 1 .. q
                               /\ pushpull_queue'[i] = pushpull_queue[i + 1]
  <2>1. pushpull_queue \in Seq(Item) /\ pushpull_queue # <<>>
    BY <1>1, Zenon DEF QueueTypes
  <2>2. q \in Nat /\ q > 0 /\ DOMAIN pushpull_queue = 1 .. q /\ r = pushpull_queue[1]
    BY <2>1, <1>0, <1>b
  <2>3. pushpull_queue' \in Seq(Item) /\ Len(pushpull_queue') = q - 1
    BY <2>1, <1>1, <1>b
  <2>4. \A i \in 1 .. q - 1 : /\ i + 1 \in 1 .. q
                              /\ pushpull_queue'[i] = pushpull_queue[i + 1]
    BY <2>1, <2>2, <1>1, <1>b
  <2> QED
    BY <2>1, <2>2, <2>3, <2>4
<1>3. Types /\ Enqueued' = Enqueued /\ Servers' = Servers
  BY <1>1, Zenon DEF Enqueued, Servers, Shared
<1>4. \A i \in 1 .. q : QueueFirst(i)' = QueueFirst(i + 1)
  <2>1. \A i \in 1 .. q : i \in 1 .. q - 1 <=> i + 1 \in 1 .. q
    BY <1>2
  <2> QED
    BY <2>1, <1>2, <1>3, Zenon DEF QueueFirst
<1>5. \A ts : BatchAt(ts)' = BatchAt(ts)
  BY <1>1, FrameMessages, Zenon
<1>6. events \in Seq(Event) /\ gpu \in Nat
      /\ sender \in [at : {"check", "pop", "send", "ended"}, next : Nat, req : Item]
  BY DEF QueueTypes
<1>7. CASE r = Empty
  <2>1. sender' = sender /\ events' = events
    BY <1>1, <1>7, Zenon DEF Release, Empty
  <2>2. pushpull_stop
    <3> SUFFICES ASSUME ~pushpull_stop
                 PROVE  FALSE
      OBVIOUS
    <3>1. r.batch \in Batch
      BY <1>2 DEF Chain
    <3> QED
      BY <3>1, <1>7, BatchSizes DEF Empty
  <2>3. \A i \in 1 .. q : pushpull_queue[i] = Empty
    BY <2>2, <1>2, Zenon DEF Chain
  <2>4. \A i \in 1 .. q - 1 : pushpull_queue'[i] = Empty
    BY <2>3, <1>2, Zenon
  <2>5. Sent' = Sent
    <3>1. QueueFirst(1) = Enqueued
      BY <2>3, <1>2, Zenon DEF QueueFirst
    <3>2. QueueFirst(1)' = Enqueued
      BY <2>4, <1>2, <1>3 DEF QueueFirst
    <3> QED
      BY <3>1, <3>2, <2>1, <1>1, Zenon DEF Sent
  <2>6. (\A s : Handled(s)' = Handled(s))
    BY <1>1, <2>5, Zenon DEF Handled
  <2>7. QueueTypes' /\ ServerTypes'
    BY <1>1, <1>2, <1>3, <2>1, Zenon DEF QueueTypes, ServerTypes
  <2>8. Chain'
    BY <1>1, <1>2, <2>1, <2>2, <2>4, Zenon DEF Chain
  <2>9. InOrder'
    BY <1>1, <1>3, <2>5, FrameServer, Zenon
  <2>10. WorkerEvents'
    <3>1. \A e \in InUse(events) : e # 0 /\ \E i \in 1 .. q : pushpull_queue[i].event = e
      <4>1. \A e \in DOMAIN events : e # 0
        BY <1>6
      <4> QED
        BY <1>2, <4>1, Zenon DEF WorkerEvents, InUse
    <3>2. InUse(events) = {}
      BY <2>3, <3>1 DEF Empty
    <3> QED
      BY <1>1, <1>2, <2>1, <2>4, <3>2, Zenon DEF WorkerEvents, InUse
  <2> QED
    BY <1>1, <2>6, <2>7, <2>8, <2>9, <2>10, AFSenderStep, Zenon
<1>8. CASE r # Empty
  <2>1. /\ sender'.at = "send" /\ sender'.req = r /\ sender'.next = r.batch.first
        /\ sender' = [at |-> "send", req |-> r, next |-> r.batch.first]
    BY <1>1, <1>8
  <2>2. ~pushpull_stop
    BY <1>2, <1>8 DEF Chain
  <2>a. PICK b : b = r.batch
    OBVIOUS
  <2>3. /\ b \in Batch /\ b.first < Enqueued /\ BatchAt(b.first) = b
        /\ LastOf(b) + 1 = QueueFirst(2)
    <3>1. 1 \in DOMAIN pushpull_queue /\ 1 + 1 = 2
      BY <1>2
    <3>2. LET x == pushpull_queue[1].batch
          IN  /\ x \in Batch /\ x.first < Enqueued /\ BatchAt(x.first) = x
              /\ LastOf(x) + 1 = QueueFirst(1 + 1)
      BY <2>2, <3>1, Zenon DEF Chain
    <3> QED
      BY <2>a, <3>1, <3>2, <1>2, Zenon
  <2>4. GoodBatch(b) /\ b.first \in Nat /\ b.first \in TimestampsOf(b)
    <3>1. b.first \in Nat /\ Enqueued \in Nat /\ 0 .. Enqueued - 1 \subseteq Timestamps
      BY <2>3, <1>3, BatchSizes, Progress, SentTimestamps, Zenon
    <3>2. b.first \in Timestamps
      BY <2>3, <3>1
    <3>3. GoodBatch(b)
      BY <2>3, <3>2, Zenon DEF Calls
    <3> QED
      BY <2>3, <3>1, <3>3, BatchSizes, Zenon
  <2>5. Sent' = Sent
    <3>1. Sent = b.first
      BY <1>1, <1>2, <1>8, <2>a DEF Sent, QueueFirst
    <3> QED
      BY <3>1, <2>1, <2>a, Zenon DEF Sent
  <2>6. (\A s : Handled(s)' = Handled(s))
    BY <1>1, <2>5 DEF Handled
  <2>b. PICK e : e = r.event
    OBVIOUS
  <2>7. /\ \A i \in 1 .. q : pushpull_queue[i] # Empty
        /\ e \in DOMAIN events /\ events[e] = [released |-> FALSE, recorded |-> r.work]
        /\ \A i \in 1 .. q : /\ pushpull_queue[i].event \in DOMAIN events
                             /\ events[pushpull_queue[i].event] =
                                   [released |-> FALSE, recorded |-> pushpull_queue[i].work]
        /\ \A i, j \in 1 .. q : pushpull_queue[i].event = pushpull_queue[j].event => i = j
        /\ \A x \in InUse(events) : \E i \in 1 .. q : pushpull_queue[i].event = x
    <3>1. \A i \in 1 .. q : pushpull_queue[i].batch \in Batch
      BY <1>2, <2>2, Zenon DEF Chain
    <3>2. \A i \in 1 .. q : pushpull_queue[i] # Empty
      BY <3>1, AFAssumption DEF Empty
    <3>3. \A i \in 1 .. q : /\ pushpull_queue[i].event \in DOMAIN events
                            /\ events[pushpull_queue[i].event] =
                                  [released |-> FALSE, recorded |-> pushpull_queue[i].work]
      BY <1>2, <3>2, Zenon DEF WorkerEvents
    <3>4. \A i, j \in 1 .. q : pushpull_queue[i].event = pushpull_queue[j].event => i = j
      BY <1>2, <3>2, Zenon DEF WorkerEvents
    <3>5. \A x \in InUse(events) : \E i \in 1 .. q : pushpull_queue[i].event = x
      BY <1>2, Zenon DEF WorkerEvents
    <3>6. e \in DOMAIN events /\ events[e] = [released |-> FALSE, recorded |-> r.work]
      BY <1>2, <2>b, <3>3
    <3> QED
      BY <3>2, <3>3, <3>4, <3>5, <3>6, Zenon
  <2>c. PICK p : p = events'
    OBVIOUS
  <2>8. /\ p \in Seq(Event) /\ DOMAIN p = DOMAIN events
        /\ InUse(p) = InUse(events) \ {e}
        /\ \A j \in DOMAIN events : j # e => p[j] = events[j]
    <3>1. p = Release(events, e)
      BY <1>1, <2>b, <2>c, Zenon
    <3> QED
      BY <1>6, <2>7, <3>1, ReleasedPool
  <2>9. \A j \in DOMAIN events : j # e => p[j] = events[j]
    BY <2>8, Zenon
  <2>10. QueueTypes' /\ ServerTypes'
    <3>1. sender' \in [at : {"check", "pop", "send", "ended"}, next : Nat, req : Item]
      BY <1>2, <2>1, <2>4, <2>a, Zenon
    <3> QED
      BY <1>1, <1>2, <1>3, <2>8, <2>c, <3>1, Zenon DEF QueueTypes, ServerTypes
  <2>11. Chain'
    <3>1. ASSUME NEW i \in 1 .. q - 1, NEW x, x = pushpull_queue'[i].batch
          PROVE  /\ x \in Batch /\ x.first < Enqueued /\ BatchAt(x.first) = x
                 /\ LastOf(x) + 1 = QueueFirst(i + 1)'
      <4>1. i + 1 \in 1 .. q /\ pushpull_queue'[i] = pushpull_queue[i + 1] /\ i + 1 \in Nat
        BY <1>2
      <4>2. /\ x \in Batch /\ x.first < Enqueued /\ BatchAt(x.first) = x
            /\ LastOf(x) + 1 = QueueFirst(i + 1 + 1)
        BY <3>1, <4>1, <1>2, <2>2, Zenon DEF Chain
      <4>3. \A k : k = i + 1 => QueueFirst(k)' = QueueFirst(k + 1)
        BY <4>1, <1>4, Zenon
      <4> QED
        BY <4>2, <4>3, Zenon
    <3>2. \A i \in DOMAIN pushpull_queue' :
             LET x == pushpull_queue'[i].batch
             IN  /\ x \in Batch /\ x.first < Enqueued /\ BatchAt(x.first) = x
                 /\ LastOf(x) + 1 = QueueFirst(i + 1)'
      BY <3>1, <1>2, Zenon
    <3>3. LastOf(b) + 1 = QueueFirst(1)'
      BY <2>3, <1>2, <1>4
    <3>4. LET x == sender'.req.batch
          IN  /\ x \in Batch /\ x.first < Enqueued /\ BatchAt(x.first) = x
              /\ sender'.next \in TimestampsOf(x)
              /\ LastOf(x) + 1 = QueueFirst(1)'
      BY <2>1, <2>3, <2>4, <2>a, <3>3, Zenon
    <3> QED
      BY <1>1, <1>3, <2>2, <3>2, <3>4, Zenon DEF Chain, BatchAt, LastOf, Size, TimestampsOf
  <2>12. InOrder'
    BY <1>1, <1>3, <2>5, FrameServer
  <2>13. WorkerEvents'
    <3>1. gpu <= submitted /\ r.work <= gpu
      <4>1. e # 0
        BY <2>7, <1>6
      <4>2. events[e].recorded <= gpu
        BY <4>1, <2>b, <1>1, Zenon DEF Synced
      <4>3. events[e].recorded = r.work
        <5>1. events[e] = [released |-> FALSE, recorded |-> r.work]
          BY <2>7, Zenon
        <5> QED
          BY <5>1
      <4> QED
        BY <4>2, <4>3, Zenon DEF WorkerEvents
    <3>2. \A i \in 1 .. q : i # 1 => pushpull_queue[i].event # e
      <4>1. 1 \in 1 .. q /\ r = pushpull_queue[1]
        BY <1>2
      <4>2. \A i \in 1 .. q : pushpull_queue[i].event = pushpull_queue[1].event => i = 1
        BY <4>1, <2>7, Zenon
      <4> QED
        BY <4>1, <4>2, <2>b, Zenon
    <3>3. ASSUME NEW i \in DOMAIN pushpull_queue'
          PROVE  /\ pushpull_queue'[i].event \in DOMAIN p
                 /\ p[pushpull_queue'[i].event] =
                       [released |-> FALSE, recorded |-> pushpull_queue'[i].work]
      <4>1. i + 1 \in 1 .. q /\ pushpull_queue'[i] = pushpull_queue[i + 1] /\ i + 1 # 1
        BY <1>2
      <4>2. PICK x : x = pushpull_queue[i + 1].event
        OBVIOUS
      <4>3. /\ x \in DOMAIN events /\ x # e
            /\ events[x] = [released |-> FALSE, recorded |-> pushpull_queue[i + 1].work]
        BY <4>1, <4>2, <2>7, <3>2, Zenon
      <4> QED
        BY <4>1, <4>2, <4>3, <2>8, <2>9, Zenon
    <3>4. \A i, j \in DOMAIN pushpull_queue' :
             pushpull_queue'[i].event = pushpull_queue'[j].event => i = j
      <4> SUFFICES ASSUME NEW i \in 1 .. q - 1, NEW j \in 1 .. q - 1,
                          pushpull_queue'[i].event = pushpull_queue'[j].event
                   PROVE  i = j
        BY <1>2, Zenon
      <4>1. i + 1 \in 1 .. q /\ j + 1 \in 1 .. q
            /\ pushpull_queue[i + 1].event = pushpull_queue[j + 1].event
        BY <1>2, Zenon
      <4>2. i + 1 = j + 1
        BY <4>1, <2>7, Zenon
      <4> QED
        BY <4>2
    <3>5. ASSUME NEW x \in InUse(p)
          PROVE  \E i \in DOMAIN pushpull_queue' : pushpull_queue'[i].event = x
      <4>1. x \in InUse(events) /\ x # e
        BY <2>8
      <4>2. PICK i \in 1 .. q : pushpull_queue[i].event = x
        BY <4>1, <2>7, Zenon
      <4>3. i # 1
        BY <4>1, <4>2, <1>2, <2>b, Zenon
      <4>4. i - 1 \in 1 .. q - 1 /\ i - 1 + 1 = i
        BY <4>3, <1>2
      <4>5. pushpull_queue'[i - 1] = pushpull_queue[i]
        BY <4>4, <1>2, Zenon
      <4> QED
        BY <4>2, <4>4, <4>5, <1>2, Zenon
    <3>6. InUse(events)' = InUse(p)
      BY <2>c DEF InUse
    <3>7. \A i \in DOMAIN pushpull_queue' : pushpull_queue'[i] # Empty =>
             /\ pushpull_queue'[i].event \in DOMAIN events'
             /\ events'[pushpull_queue'[i].event] =
                   [released |-> FALSE, recorded |-> pushpull_queue'[i].work]
      BY <3>3, <2>c, Zenon
    <3>8. \A x \in InUse(events)' : \E i \in DOMAIN pushpull_queue' : pushpull_queue'[i].event = x
      BY <3>5, <3>6
    <3>9. gpu' <= submitted' /\ (sender'.at = "send" => sender'.req.work <= gpu')
      BY <1>1, <2>1, <3>1, Zenon
    <3>10. Empty' = Empty
      BY Zenon DEF Empty
    <3> QED
      BY <3>4, <3>7, <3>8, <3>9, <3>10, Zenon DEF WorkerEvents
  <2> QED
    BY <1>1, <2>6, <2>10, <2>11, <2>12, <2>13, AFSenderStep
<1> QED
  BY <1>7, <1>8

(* A message of the call, to every server.                                 *)
LEMMA AFSendBatch ==
    ASSUME Shared, AFInv, app = "af", SendBatch
    PROVE  Shared' /\ AFInv'
<1> USE DEF AFInv
<1>0. PICK b, ts : b = sender.req.batch /\ ts = sender.next
  OBVIOUS
<1>a. PICK m : m = [op |-> IF ts < b.first + b.push THEN "push" ELSE "pull", ts |-> ts,
                    cmd |-> Cmd(b, ts), ready |-> sender.req.work <= gpu]
  BY Zenon
<1>1. /\ sender.at = "send" /\ ~raced
      /\ to_server' = [s \in Servers |-> Append(to_server[s], m)]
      /\ sender' = IF ts = LastOf(b) THEN Loop("check") ELSE [sender EXCEPT !.next = ts + 1]
      /\ UNCHANGED <<app, num_servers, tracker, requests, pc, cur, waited, recv_kvs,
                     to_worker, rcv, raced, pushpull_queue, events,
                     batch_timestamps, pushpull_stop, submitted, gpu,
                     batch_data, pending, response_queue, response_stop,
                     server_submitted, server_gpu, server_events>>
  BY <1>0, <1>a DEF SendBatch, Running, confVars, tableVars, endVars, programVars,
         netVars, peerVars, gpuVars, serverVars, responderVars, sgpuVars, LastOf
<1>2. /\ b \in Batch /\ b.first < Enqueued /\ BatchAt(b.first) = b
      /\ ts \in TimestampsOf(b) /\ LastOf(b) + 1 = QueueFirst(1)
  BY <1>0, <1>1 DEF Chain
<1>3. /\ Types /\ Enqueued' = Enqueued /\ Servers' = Servers
      /\ \A i : QueueFirst(i)' = QueueFirst(i)
  BY <1>1 DEF Enqueued, Servers, Shared, QueueFirst
<1>4. /\ b.first \in Nat /\ LastOf(b) \in Int /\ TimestampsOf(b) = b.first .. LastOf(b)
      /\ QueueFirst(1) \in Nat /\ QueueFirst(1) <= Enqueued /\ Enqueued \in Nat
      /\ 0 .. Enqueued - 1 \subseteq Timestamps
  BY <1>2, <1>3, BatchSizes, Progress, SentTimestamps
<1>5. ts \in Nat /\ b.first <= ts /\ ts <= LastOf(b) /\ LastOf(b) < Enqueued
  BY <1>2, <1>4
<1>6. ts \in Timestamps /\ b.first \in Timestamps
  BY <1>2, <1>4, <1>5
<1>7. BatchAt(ts) = b /\ GoodBatch(b)
  BY <1>2, <1>6 DEF Calls
<1>8. m = Message(ts)
  <2>1. requests[ts + 1].op = IF ts < b.first + b.push THEN "push" ELSE "pull"
    BY <1>6, <1>7 DEF Calls
  <2>2. sender.req.work <= gpu
    BY <1>1 DEF WorkerEvents
  <2> QED
    BY <1>a, <1>7, <2>1, <2>2, Zenon DEF Message
<1>9. m \in Request
  <2>1. Cmd(b, ts) \in {"single", "start", "end", "middle"}
    BY <1>2, <1>3, <1>7, Flags, Numbers
  <2>2. sender.req.work <= gpu
    BY <1>1 DEF WorkerEvents
  <2> QED
    BY <1>a, <1>5, <2>1, <2>2 DEF Request
<1>10. to_server \in [Servers -> Seq(Request)]
  BY DEF ServerTypes
<1>11. /\ to_server' \in [Servers -> Seq(Request)]
       /\ \A s \in Servers :
             /\ Len(to_server'[s]) = Len(to_server[s]) + 1
             /\ to_server'[s][Len(to_server[s]) + 1] = m
             /\ \A i \in DOMAIN to_server[s] : to_server'[s][i] = to_server[s][i]
             /\ \A i \in DOMAIN to_server'[s] :
                   i \in DOMAIN to_server[s] \/ i = Len(to_server[s]) + 1
  BY <1>1, <1>9, <1>10
<1>12. Sent = ts /\ Sent' = ts + 1
  <2>1. Sent = ts
    BY <1>0, <1>1 DEF Sent
  <2>2. CASE ts = LastOf(b)
    <3>1. sender'.at # "send"
      BY <1>1, <2>2 DEF Loop
    <3> QED
      BY <2>1, <2>2, <3>1, <1>2, <1>3 DEF Sent
  <2>3. CASE ts # LastOf(b)
    <3>1. sender'.at = "send" /\ sender'.next = ts + 1
      BY <1>1, <2>3 DEF QueueTypes
    <3> QED
      BY <2>1, <3>1 DEF Sent
  <2> QED
    BY <2>2, <2>3
<1>13. \A s \in Servers : Handled(s)' = Handled(s) /\ Begun(s)' = Begun(s)
  <2> SUFFICES ASSUME NEW s \in Servers
               PROVE  Handled(s)' = Handled(s) /\ Begun(s)' = Begun(s)
    OBVIOUS
  <2>1. Handled(s) = ts - Len(to_server[s]) /\ Handled(s)' = ts + 1 - Len(to_server'[s])
    <3>1. Handled(s) = Sent - Len(to_server[s]) /\ Handled(s)' = Sent' - Len(to_server'[s])
      BY DEF Handled
    <3>2. /\ Len(to_server[s]) \in Nat /\ Len(to_server'[s]) \in Nat /\ ts \in Nat
      BY <1>5, <1>10, <1>11
    <3> QED
      BY <3>1, <3>2, <1>12
  <2>2. Len(to_server[s]) \in Nat /\ Len(to_server'[s]) = Len(to_server[s]) + 1
    BY <1>10, <1>11
  <2>3. Handled(s)' = Handled(s)
    <3>1. \A x, y \in Nat : x + 1 - (y + 1) = x - y
      OBVIOUS
    <3> QED
      BY <2>1, <2>2, <3>1, <1>5
  <2> QED
    BY <2>3, <1>1 DEF Begun
<1>14. QueueTypes' /\ ServerTypes'
  <2>1. sender' \in [at : {"check", "pop", "send", "ended"}, next : Nat, req : Item]
    <3>1. sender \in [at : {"check", "pop", "send", "ended"}, next : Nat, req : Item]
      BY DEF QueueTypes
    <3>2. Loop("check") \in [at : {"check", "pop", "send", "ended"}, next : Nat, req : Item]
      BY DEF Loop, Empty, Item
    <3> QED
      BY <3>1, <3>2, <1>1, <1>5
  <2> QED
    BY <1>1, <1>3, <1>11, <2>1, Zenon DEF QueueTypes, ServerTypes
<1>15. Chain'
  <2>1. \A i \in DOMAIN pushpull_queue' :
           LET x == pushpull_queue'[i].batch
           IN  IF pushpull_stop' THEN pushpull_queue'[i] = Empty
               ELSE /\ x \in Batch /\ x.first < Enqueued /\ BatchAt(x.first) = x
                    /\ LastOf(x) + 1 = QueueFirst(i + 1)'
    BY <1>1, <1>3 DEF Chain
  <2>2. sender'.at = "send" =>
           LET x == sender'.req.batch
           IN  /\ x \in Batch /\ x.first < Enqueued /\ BatchAt(x.first) = x
               /\ sender'.next \in TimestampsOf(x)
               /\ LastOf(x) + 1 = QueueFirst(1)'
    <3>1. CASE ts = LastOf(b)
      BY <1>1, <3>1 DEF Loop
    <3>2. CASE ts # LastOf(b)
      <4>1. sender'.req = sender.req /\ sender'.next = ts + 1
        BY <1>1, <3>2 DEF QueueTypes
      <4>2. ts + 1 \in TimestampsOf(b)
        BY <3>2, <1>4, <1>5
      <4> QED
        BY <4>1, <4>2, <1>0, <1>2, <1>3
    <3> QED
      BY <3>1, <3>2
  <2>3. Empty' = Empty
    BY DEF Empty
  <2> QED
    BY <1>1, <1>3, <2>1, <2>2, <2>3, Zenon DEF Chain, BatchAt, LastOf, Size, TimestampsOf
<1>16. InOrder'
  <2>1. \A t : Message(t)' = Message(t) /\ BatchAt(t)' = BatchAt(t)
    BY <1>1, FrameMessages
  <2>2. ASSUME NEW s \in Servers, NEW i \in DOMAIN to_server'[s]
        PROVE  to_server'[s][i] = Message(Handled(s) + i - 1)
    <3>1. CASE i \in DOMAIN to_server[s]
      BY <3>1, <1>11, ZenonT(30) DEF InOrder
    <3>2. CASE i = Len(to_server[s]) + 1
      <4>1. /\ Handled(s) \in Nat /\ Handled(s) + Len(to_server[s]) = ts
            /\ Len(to_server[s]) \in Nat
        BY <1>3, <1>12, Progress
      <4>2. Handled(s) + i - 1 = ts
        BY <4>1, <3>2
      <4> QED
        BY <4>2, <3>2, <1>8, <1>11
    <3> QED
      BY <3>1, <3>2, <1>11
  <2>3. ASSUME NEW s \in Servers
        PROVE  /\ Begun(s) >= 0
               /\ \A i \in DOMAIN batch_data[s] : batch_data[s][i] = Message(Begun(s) + i - 1)
               /\ Begun(s) < Enqueued => BatchAt(Begun(s)).first = Begun(s)
               /\ batch_data[s] # <<>> => Handled(s) <= LastOf(BatchAt(Begun(s)))
    BY Zenon DEF InOrder
  <2> QED
    BY <1>1, <1>3, <1>13, <2>1, <2>2, <2>3 DEF InOrder, LastOf, Size
<1>17. WorkerEvents'
  <2>1. sender'.at = "send" => sender'.req = sender.req
    BY <1>1 DEF QueueTypes, Loop
  <2>2. Empty' = Empty
    BY DEF Empty
  <2> QED
    BY <1>1, <2>1, <2>2 DEF WorkerEvents, InUse
<1> QED
  BY <1>1, <1>13, <1>14, <1>15, <1>16, <1>17, AFSenderStep, Zenon

=============================================================================
