-------------------------- MODULE AFTensorAppProofs --------------------------
(***************************************************************************)
(* The invariant of AFTensorAppInv, last part: the responder answers, the  *)
(* handler of AFTensorServer collects the messages of a call, and so every *)
(* step preserves the invariant.  The theorems are at the end.             *)
(***************************************************************************)
EXTENDS AFTensorWorkerProofs, AFTensorResponderProofs

(* The thread waits for the event and answers.                             *)
LEMMA AFPopAnswers ==
    ASSUME Shared, AFInv, app = "af", NEW s \in Servers, PopResponse(s), ~response_stop[s]
    PROVE  Shared' /\ AFInv'
<1> USE DEF AFInv
<1>a. PICK l, rq, rsp, pool, done :
         /\ l = Len(response_queue[s]) /\ rq = response_queue[s] /\ rsp = response_queue[s][1]
         /\ pool = server_events[s] /\ done = server_gpu[s]
  BY Zenon
<1>b. PICK a : a = Answer(s, rsp.msg, rsp.val, rsp.work <= done)
  OBVIOUS
<1>0. /\ response_queue[s] # <<>> /\ rq \in Seq(ResponseItem) /\ Head(response_queue[s]) = rsp
      /\ server_events \in [Servers -> Seq(Event)] /\ pool \in Seq(Event) /\ done \in Nat
  <2>1. response_queue[s] # <<>>
    BY DEF PopResponse
  <2>2. response_queue[s] \in Seq(ResponseItem)
    BY DEF ServerTypes
  <2>3. Head(response_queue[s]) = rsp
    BY <2>1, <2>2, <1>a
  <2> QED
    BY <2>1, <2>2, <2>3, <1>a DEF ServerTypes
<1>1. /\ ~raced /\ Synced(pool, rsp.event, done)
      /\ response_queue' = [response_queue EXCEPT ![s] = Tail(@)]
      /\ server_events' = [server_events EXCEPT ![s] = Release(@, rsp.event)]
      /\ to_worker' = [to_worker EXCEPT ![s] = Append(@, a)]
      /\ UNCHANGED serverFrame
      /\ UNCHANGED <<raced, to_server, batch_data, pending, server_submitted>>
  BY <1>0, <1>a, <1>b, Zenon DEF PopResponse, Running, serverFrame, confVars, tableVars, endVars,
         programVars, pullVars, peerVars, workerVars, senderVars, gpuVars, sgpuVars
<1>u. UNCHANGED serverFrame
  BY <1>1
<1>2. /\ l \in Nat /\ l > 0 /\ DOMAIN rq = 1 .. l
      /\ DOMAIN response_queue'[s] = 1 .. l - 1
      /\ \A i \in 1 .. l - 1 : response_queue'[s][i] = rq[i + 1] /\ i + 1 \in 1 .. l
      /\ \A t \in Servers : t # s => response_queue'[t] = response_queue[t]
      /\ response_queue' \in [Servers -> Seq(ResponseItem)]
      /\ \A t : /\ Handled(t)' = Handled(t) /\ Begun(t)' = Begun(t)
                /\ AnsweredPulls(t)' = AnsweredPulls(t)
      /\ \A t, i : PendingTs(t, i)' = PendingTs(t, i)
      /\ InOrder' /\ Waiting' /\ Responses'
  BY <1>0, <1>1, <1>a, ResponseTaken, ZenonT(30)
<1>3. 1 \in 1 .. l /\ rsp = rq[1] /\ \A i \in 1 .. l : i # 1 => i - 1 \in 1 .. l - 1 /\ (i - 1) + 1 = i
  BY <1>2, <1>a
<1>c. PICK m, t : m = rsp.msg /\ t = rsp.msg.ts
  OBVIOUS
<1>4. /\ m # Null /\ t \in Timestamps /\ t < Begun(s) /\ m = Message(t)
      /\ BatchAt(t).pull = 1 /\ m.cmd # "single" /\ t = LastOf(BatchAt(t))
      /\ rsp.val = PushTs(BatchAt(t))
      /\ \A j \in DOMAIN pending[s] : t < PendingTs(s, j)
  BY <1>2, <1>3, <1>a, <1>c DEF Responses
<1>5. PoolKept(s)
  BY DEF ServerEvents
<1>6. \A i \in 1 .. l : /\ rq[i] \in ResponseItem /\ rq[i].work \in Nat /\ rq[i].event \in Nat
                        /\ rq[i].event # 0 => rq[i].event \in InUse(pool)
  <2>1. \A i \in 1 .. l : rq[i] \in ResponseItem
    BY <1>0, <1>2
  <2>2. \A i \in 1 .. l : rq[i].event # 0 => rq[i].event \in InUse(pool)
    BY <1>2, <1>5, <1>a, Zenon DEF PoolKept, Recorded
  <2> QED
    BY <2>1, <2>2, Zenon DEF ResponseItem
<1>7. \A e \in InUse(pool) : e \in DOMAIN pool /\ pool[e].recorded \in Nat
  <2>1. \A e \in DOMAIN pool : pool[e] \in Event
    BY <1>0
  <2> QED
    BY <2>1 DEF InUse, Event
<1>8. rsp.event # 0 => pool[rsp.event].recorded <= done
  BY <1>1, Zenon DEF Synced
<1>9. rsp.work <= done
  <2>1. \/ rq[1].work <= done
        \/ \E j \in 1 .. 1 : rq[j].event # 0 /\ rq[1].work <= pool[rq[j].event].recorded
    BY <1>2, <1>3, <1>4, <1>5, <1>a, <1>c DEF PoolKept
  <2>2. rq[1].event # 0 /\ rq[1].work <= pool[rq[1].event].recorded => rsp.work <= done
    <3> SUFFICES ASSUME rq[1].event # 0, rq[1].work <= pool[rq[1].event].recorded
                 PROVE  rsp.work <= done
      BY Zenon
    <3>1. pool[rq[1].event].recorded \in Nat /\ rq[1].work \in Nat
      BY <1>3, <1>6, <1>7, Zenon
    <3> QED
      BY <3>1, <1>0, <1>3, <1>8
  <2>3. \A j \in 1 .. 1 : j = 1
    OBVIOUS
  <2> QED
    BY <2>1, <2>2, <2>3, <1>3
<1>10. /\ a \in Reply /\ a.ts = t /\ a.op = requests[t + 1].op /\ a.ready
       /\ a.val = PushTs(BatchAt(t)) /\ t \in Nat
  <2>1. requests[t + 1].op \in Ops /\ t \in Nat
    BY <1>4, CallAt, Zenon DEF Shared
  <2>2. m.op = requests[t + 1].op /\ m.ts = t
    BY <1>4, Zenon DEF Message
  <2>3. a = [op |-> requests[t + 1].op, ts |-> t, val |-> rsp.val, ready |-> TRUE]
    BY <2>2, <1>9, <1>b, <1>c, Zenon DEF Answer
  <2>4. rsp.val \in SUBSET Nat
    BY <1>3, <1>6 DEF ResponseItem
  <2> QED
    BY <2>1, <2>3, <2>4, <1>4, Zenon DEF Reply, Ops
<1>11. \A i \in 1 .. l : i # 1 /\ rq[i].msg # Null => t < rq[i].msg.ts
  <2>1. \A i, j \in 1 .. l : i < j /\ rq[i].msg # Null /\ rq[j].msg # Null
           => rq[i].msg.ts < rq[j].msg.ts
    BY <1>2, <1>a, Zenon DEF Responses
  <2>2. \A i \in 1 .. l : i # 1 => 1 < i
    BY <1>2
  <2> QED
    BY <2>1, <2>2, <1>3, <1>4, <1>c, Zenon
<1>12. ASSUME NEW x \in Servers, NEW ts \in Timestamps
       PROVE  /\ x # s \/ ts # t => (AFOwes(x, ts)' <=> AFOwes(x, ts))
              /\ x = s /\ ts = t => AFOwes(x, ts) /\ ~AFOwes(x, ts)'
  <2>1. CASE x # s
    BY <2>1, <1>1, <1>2, Zenon DEF AFOwes
  <2>2. CASE x = s
    <3>1. Handled(s) \in Nat /\ t < Handled(s)
      <4>1. /\ Len(batch_data[s]) \in Nat /\ Handled(s) \in Nat
            /\ Begun(s) \in Nat /\ Begun(s) + Len(batch_data[s]) = Handled(s)
        BY Progress, Zenon DEF Shared
      <4> QED
        BY <4>1, <1>4, <1>10
    <3>2. (\E i \in DOMAIN response_queue'[s] :
              response_queue'[s][i].msg # Null /\ response_queue'[s][i].msg.ts = ts)
             <=> \E i \in 1 .. l : i # 1 /\ rq[i].msg # Null /\ rq[i].msg.ts = ts
      <4>1. \A i \in 1 .. l - 1 : i + 1 # 1
        BY <1>2
      <4>2. ASSUME NEW i \in 1 .. l, i # 1, rq[i].msg # Null, rq[i].msg.ts = ts
            PROVE  \E j \in DOMAIN response_queue'[s] :
                      response_queue'[s][j].msg # Null /\ response_queue'[s][j].msg.ts = ts
        <5>1. i - 1 \in 1 .. l - 1 /\ response_queue'[s][i - 1] = rq[i]
          BY <4>2, <1>2, <1>3, Zenon
        <5> QED
          BY <5>1, <4>2, <1>2, Zenon
      <4> QED
        BY <4>1, <4>2, <1>2, Zenon
    <3>3. AFOwes(s, ts)' <=>
             \/ ts >= Handled(s)
             \/ \E i \in DOMAIN pending[s] : PendingTs(s, i) = ts
             \/ \E i \in 1 .. l : i # 1 /\ rq[i].msg # Null /\ rq[i].msg.ts = ts
      BY <3>2, <1>1, <1>2, Zenon DEF AFOwes
    <3>4. AFOwes(s, ts) <=>
             \/ ts >= Handled(s)
             \/ \E i \in DOMAIN pending[s] : PendingTs(s, i) = ts
             \/ \E i \in 1 .. l : rq[i].msg # Null /\ rq[i].msg.ts = ts
      BY <1>2, <1>a, Zenon DEF AFOwes
    <3>5. CASE ts # t
      BY <3>3, <3>4, <3>5, <2>2, <1>3, <1>c, Zenon
    <3>6. CASE ts = t
      <4>1. AFOwes(s, ts)
        BY <3>4, <3>6, <1>3, <1>4, <1>c, Zenon
      <4>2. ~(ts >= Handled(s))
        BY <3>1, <3>6, <1>10
      <4>3. ~\E i \in DOMAIN pending[s] : PendingTs(s, i) = ts
        BY <3>6, <1>4, <1>10
      <4>4. ~\E i \in 1 .. l : i # 1 /\ rq[i].msg # Null /\ rq[i].msg.ts = ts
        BY <3>6, <1>10, <1>11
      <4> QED
        BY <4>1, <4>2, <4>3, <4>4, <3>3, <3>6, <2>2, Zenon
    <3> QED
      BY <3>5, <3>6
  <2> QED
    BY <2>1, <2>2
<1>13. Shared' /\ Answers'
  <2>1. /\ ~raced' /\ a.ts \in Timestamps /\ a.op = requests[a.ts + 1].op
        /\ a.val = PushTs(BatchAt(a.ts))
    BY <1>1, <1>4, <1>10, Zenon
  <2>2. AFOwes(s, a.ts) /\ ~AFOwes(s, a.ts)'
    BY <1>4, <1>10, <1>12, Zenon
  <2> QED
    BY <2>1, <2>2, <1>1, <1>10, <1>12, ReplyLeaves, Zenon
<1>14. /\ server_events' \in [Servers -> Seq(Event)]
       /\ \A x \in Servers : x # s => server_events'[x] = server_events[x]
       /\ server_events'[s] = Release(pool, rsp.event)
  <2>1. Release(pool, rsp.event) \in Seq(Event)
    <3>1. CASE rsp.event = 0
      BY <3>1, <1>0, Zenon DEF Release
    <3>2. CASE rsp.event # 0
      <4>1. rsp.event \in DOMAIN pool
        BY <3>2, <1>3, <1>6, <1>7, Zenon
      <4> QED
        BY <4>1, <1>0, ReleasedPool, Zenon
    <3> QED
      BY <3>1, <3>2
  <2> QED
    BY <2>1, <1>0, <1>1, <1>a, Zenon
<1>15. ServerTypes'
  <2>1. Servers' = Servers
    BY <1>u, ServerFrame
  <2> QED
    BY <2>1, <1>1, <1>2, <1>14, Zenon DEF ServerTypes, serverFrame
<1>16. ASSUME NEW x \in Servers
       PROVE  PoolKept(x)'
  <2>1. server_gpu' = server_gpu
    BY <1>u DEF serverFrame
  <2>2. CASE x # s
    <3>1. Recorded(x)' = Recorded(x)
      BY <2>2, <1>2, Zenon DEF Recorded
    <3> QED
      BY <2>2, <3>1, <1>2, <1>14, <1>u, OtherPool, Zenon
  <2>3. CASE x = s
    <3>1. PICK q, e : q = server_events'[s] /\ e = rsp.event
      OBVIOUS
    <3>2. \A i, j \in 1 .. l : rq[i].event # 0 /\ rq[i].event = rq[j].event => i = j
      BY <1>2, <1>5, <1>a, Zenon DEF PoolKept
    <3>3. /\ InUse(q) = InUse(pool) \ {e}
          /\ \A i \in 1 .. l : i # 1 /\ rq[i].event # 0 =>
                rq[i].event # e /\ q[rq[i].event] = pool[rq[i].event]
      <4>1. CASE e = 0
        <5>1. q = pool
          BY <4>1, <3>1, <1>14, Zenon DEF Release
        <5>2. 0 \notin InUse(pool)
          BY <1>0 DEF InUse
        <5> QED
          BY <4>1, <5>1, <5>2, Zenon
      <4>2. CASE e # 0
        <5>1. e \in DOMAIN pool /\ q = Release(pool, e) /\ pool \in Seq(Event)
          BY <4>2, <3>1, <1>0, <1>3, <1>6, <1>7, <1>14, Zenon
        <5>2. InUse(q) = InUse(pool) \ {e}
          BY <5>1, ReleasedPool, Zenon
        <5>3. ASSUME NEW i \in 1 .. l, i # 1, rq[i].event # 0
              PROVE  rq[i].event # e /\ q[rq[i].event] = pool[rq[i].event]
          <6>1. rq[i].event # e
            BY <5>3, <3>1, <3>2, <1>3, Zenon
          <6>2. rq[i].event \in DOMAIN pool
            BY <5>3, <1>6, <1>7, Zenon
          <6>3. q = [pool EXCEPT ![e] = FreeEvent]
            BY <5>1, <4>2 DEF Release
          <6> QED
            BY <6>1, <6>2, <6>3
        <5> QED
          BY <5>2, <5>3, Zenon
      <4> QED
        BY <4>1, <4>2, Zenon
    <3>4. InUse(server_events[s])' = InUse(q) /\ InUse(server_events[s]) = InUse(pool)
      BY <3>1, <1>a, Zenon DEF InUse
    <3>5. Recorded(s)' = Recorded(s) \ {e} /\ Recorded(s) \subseteq InUse(pool)
          /\ (e # 0 => e \in Recorded(s))
      <4>1. Recorded(s)' = {response_queue'[s][i].event : i \in 1 .. l - 1} \ {0}
        BY <1>2, Zenon DEF Recorded
      <4>2. Recorded(s) = {rq[i].event : i \in 1 .. l} \ {0}
        BY <1>2, <1>a, Zenon DEF Recorded
      <4>3. ASSUME NEW y \in Recorded(s)'
            PROVE  y \in Recorded(s) \ {e}
        <5>1. PICK i \in 1 .. l - 1 : y = response_queue'[s][i].event /\ y # 0
          BY <4>1, Zenon
        <5>2. i + 1 \in 1 .. l /\ i + 1 # 1 /\ y = rq[i + 1].event
          BY <5>1, <1>2
        <5> QED
          BY <5>1, <5>2, <4>2, <3>3, Zenon
      <4>4. ASSUME NEW y \in Recorded(s), y # e
            PROVE  y \in Recorded(s)'
        <5>1. PICK i \in 1 .. l : y = rq[i].event /\ y # 0
          BY <4>2, Zenon
        <5>2. i # 1
          BY <5>1, <4>4, <3>1, <1>3, Zenon
        <5>3. i - 1 \in 1 .. l - 1 /\ response_queue'[s][i - 1] = rq[i]
          BY <5>2, <1>2, <1>3, Zenon
        <5> QED
          BY <5>1, <5>3, <4>1, Zenon
      <4>5. Recorded(s) \subseteq InUse(pool)
        BY <3>4, <1>5, Zenon DEF PoolKept
      <4> QED
        BY <4>2, <4>3, <4>4, <4>5, <3>1, <1>3, Zenon
    <3>6. Cardinality(Orphans(s)') <= Cardinality(AnsweredPulls(s)')
      <4>1. Orphans(s)' = Orphans(s)
        <5>1. 0 \notin InUse(pool)
          BY <1>0 DEF InUse
        <5> QED
          BY <5>1, <3>3, <3>4, <3>5, Zenon DEF Orphans
      <4> QED
        BY <4>1, <1>2, <1>5, Zenon DEF PoolKept
    <3>7. ASSUME NEW i \in 1 .. l - 1, response_queue'[s][i].msg # Null
          PROVE  \/ response_queue'[s][i].work <= done
                 \/ \E j \in 1 .. i :
                       /\ response_queue'[s][j].event # 0
                       /\ response_queue'[s][i].work <= q[response_queue'[s][j].event].recorded
      <4>1. PICK k : k = i + 1
        OBVIOUS
      <4>2. k \in 1 .. l /\ response_queue'[s][i] = rq[k] /\ rq[k].msg # Null
        BY <4>1, <3>7, <1>2, Zenon
      <4>3. \/ rq[k].work <= done
            \/ \E j \in 1 .. k : rq[j].event # 0 /\ rq[k].work <= pool[rq[j].event].recorded
        BY <4>2, <1>2, <1>5, <1>a, Zenon DEF PoolKept
      <4>4. ASSUME NEW j \in 1 .. k, rq[j].event # 0, rq[k].work <= pool[rq[j].event].recorded
            PROVE  \/ rq[k].work <= done
                   \/ \E y \in 1 .. i :
                         /\ response_queue'[s][y].event # 0
                         /\ rq[k].work <= q[response_queue'[s][y].event].recorded
        <5>1. j \in 1 .. l
          BY <4>2, <1>2
        <5>2. CASE j = 1
          <6>1. pool[rq[1].event].recorded \in Nat /\ rq[k].work \in Nat
            BY <5>2, <4>2, <4>4, <1>3, <1>6, <1>7, Zenon
          <6>2. pool[rq[1].event].recorded <= done /\ rq[k].work <= pool[rq[1].event].recorded
            BY <5>2, <4>4, <1>3, <1>8, Zenon
          <6>3. done \in Nat
            BY <1>0, Zenon
          <6> QED
            BY <6>1, <6>2, <6>3
        <5>3. CASE j # 1
          <6>1. j - 1 \in 1 .. i /\ j - 1 \in 1 .. l - 1
            BY <5>1, <5>3, <4>1, <1>2
          <6>2. response_queue'[s][j - 1] = rq[j]
            BY <5>1, <5>3, <6>1, <1>2, <1>3, Zenon
          <6>3. q[rq[j].event] = pool[rq[j].event]
            BY <5>1, <5>3, <4>4, <3>3, Zenon
          <6> QED
            BY <6>1, <6>2, <6>3, <4>4, Zenon
        <5> QED
          BY <5>2, <5>3, Zenon
      <4> QED
        BY <4>2, <4>3, <4>4, Zenon
    <3>8. Recorded(s)' \subseteq InUse(server_events[s])'
      BY <3>3, <3>4, <3>5, Zenon
    <3>9. ASSUME NEW i \in 1 .. l - 1, NEW j \in 1 .. l - 1, response_queue'[s][i].event # 0,
                 response_queue'[s][i].event = response_queue'[s][j].event
          PROVE  i = j
      <4>1. i + 1 \in 1 .. l /\ j + 1 \in 1 .. l /\ rq[i + 1].event # 0
            /\ rq[i + 1].event = rq[j + 1].event
        BY <3>9, <1>2, Zenon
      <4>2. i + 1 = j + 1
        BY <4>1, <3>2, Zenon
      <4> QED
        BY <4>2
    <3> QED
      BY <2>1, <2>3, <3>1, <3>6, <3>7, <3>8, <3>9, <1>2, <1>a, Zenon DEF PoolKept
  <2> QED
    BY <2>2, <2>3
<1>17. ServerEvents'
  BY <1>16, <1>u, ServerFrame, Zenon DEF ServerEvents
<1> QED
  BY <1>2, <1>13, <1>15, <1>17, <1>u, AFServerStep, Zenon

(* The response thread takes an item, whether it is to stop or not.        *)
LEMMA AFPopResponse ==
    ASSUME Shared, AFInv, app = "af", NEW s \in Servers, PopResponse(s)
    PROVE  Shared' /\ AFInv'
BY AFPopStopped, AFPopAnswers, Zenon

(* The message that a server takes, and its call.                          *)
LEMMA HandlerTakes ==
    ASSUME Types, AFInv, NEW s \in Servers, to_server[s] # <<>>
    PROVE  /\ Handled(s) \in Timestamps /\ Handled(s) < Enqueued
           /\ Head(to_server[s]) = Message(Handled(s)) /\ 1 \in DOMAIN to_server[s]
           /\ Begun(s) \in Timestamps /\ Begun(s) <= Handled(s)
           /\ BatchAt(Begun(s)) = BatchAt(Handled(s)) /\ GoodBatch(BatchAt(Handled(s)))
           /\ BatchAt(Handled(s)).first = Begun(s)
           /\ Handled(s) \in TimestampsOf(BatchAt(Handled(s)))
           /\ LastOf(BatchAt(Handled(s))) < Enqueued
<1> USE DEF AFInv
<1>1. to_server[s] \in Seq(Request) /\ batch_data[s] \in Seq(Request)
  BY DEF ServerTypes
<1>2. 1 \in DOMAIN to_server[s] /\ Head(to_server[s]) = to_server[s][1]
      /\ Len(to_server[s]) > 0
  BY <1>1
<1>3. /\ Enqueued \in Nat /\ Sent \in Nat /\ Sent <= Enqueued
      /\ Len(to_server[s]) \in Nat /\ Len(batch_data[s]) \in Nat
      /\ Handled(s) \in Nat /\ Handled(s) + Len(to_server[s]) = Sent
      /\ Begun(s) \in Nat /\ Begun(s) + Len(batch_data[s]) = Handled(s)
      /\ 0 .. Enqueued - 1 \subseteq Timestamps
  BY Progress, SentTimestamps, Zenon
<1>4. Handled(s) < Enqueued /\ Begun(s) <= Handled(s) /\ Begun(s) < Enqueued
  BY <1>2, <1>3
<1>5. Handled(s) \in Timestamps /\ Begun(s) \in Timestamps
  BY <1>3, <1>4
<1>6. Head(to_server[s]) = Message(Handled(s))
  <2>1. to_server[s][1] = Message(Handled(s) + 1 - 1)
    BY <1>2, Zenon DEF InOrder
  <2>2. Handled(s) + 1 - 1 = Handled(s)
    BY <1>3
  <2> QED
    BY <2>1, <2>2, <1>2, Zenon
<1>7. BatchAt(Begun(s)).first = Begun(s)
  BY <1>4, Zenon DEF InOrder
<1>8. BatchAt(Handled(s)) = BatchAt(Begun(s))
  <2>1. CASE batch_data[s] = <<>>
    <3>1. Len(batch_data[s]) = 0
      BY <2>1
    <3>2. Begun(s) = Handled(s)
      BY <1>3, <3>1
    <3> QED
      BY <3>2, Zenon
  <2>2. CASE batch_data[s] # <<>>
    <3>1. Handled(s) <= LastOf(BatchAt(Begun(s)))
      BY <2>2, Zenon DEF InOrder
    <3>2. /\ LastOf(BatchAt(Begun(s))) \in Nat
          /\ \A t \in Timestamps :
                t \in BatchAt(Begun(s)).first .. LastOf(BatchAt(Begun(s)))
                   => BatchAt(t) = BatchAt(Begun(s))
      BY <1>5, CallAt, Zenon
    <3>3. Handled(s) \in Begun(s) .. LastOf(BatchAt(Begun(s)))
      BY <1>3, <1>4, <3>1, <3>2
    <3> QED
      BY <1>5, <1>7, <3>2, <3>3
  <2> QED
    BY <2>1, <2>2, Zenon
<1>9. /\ GoodBatch(BatchAt(Handled(s)))
      /\ Handled(s) \in TimestampsOf(BatchAt(Handled(s)))
      /\ LastOf(BatchAt(Handled(s))) < Enqueued
  BY <1>4, <1>5, Zenon DEF Calls
<1> QED
  BY <1>2, <1>4, <1>5, <1>6, <1>7, <1>8, <1>9, Zenon

(* The messages of the servers after one of them has taken its next.       *)
LEMMA HandlerMoves ==
    ASSUME Types, AFInv, NEW s \in Servers, to_server[s] # <<>>, UNCHANGED serverFrame,
           to_server' = [to_server EXCEPT ![s] = Tail(@)],
           \A t \in Servers : t # s => batch_data'[t] = batch_data[t]
    PROVE  /\ Handled(s)' = Handled(s) + 1
           /\ \A t \in Servers : t # s => /\ Handled(t)' = Handled(t) /\ Begun(t)' = Begun(t)
                                          /\ to_server'[t] = to_server[t]
           /\ to_server' \in [Servers -> Seq(Request)]
           /\ \A i \in DOMAIN to_server'[s] :
                 to_server'[s][i] = Message(Handled(s) + 1 + i - 1)
<1>1. to_server \in [Servers -> Seq(Request)]
  BY DEF AFInv, ServerTypes
<1>2. /\ to_server'[s] = Tail(to_server[s]) /\ to_server[s] \in Seq(Request)
      /\ \A t \in Servers : t # s => to_server'[t] = to_server[t]
      /\ to_server' \in [Servers -> Seq(Request)]
  BY <1>1
<1>3. /\ Len(to_server'[s]) = Len(to_server[s]) - 1
      /\ \A i \in DOMAIN to_server'[s] : /\ i \in Nat /\ i + 1 \in DOMAIN to_server[s]
                                         /\ to_server'[s][i] = to_server[s][i + 1]
  BY <1>2
<1>4. Sent' = Sent
  BY ServerFrame
<1>5. /\ Len(to_server[s]) \in Nat /\ Handled(s) \in Nat /\ Sent \in Nat
      /\ Handled(s) + Len(to_server[s]) = Sent
  BY Progress, Zenon
<1>6. Handled(s)' = Handled(s) + 1
  <2>1. Handled(s)' = Sent' - Len(to_server'[s])
    BY DEF Handled
  <2>2. Len(to_server'[s]) \in Int
    BY <1>3, <1>5
  <2> QED
    BY <2>1, <2>2, <1>3, <1>4, <1>5
<1>7. \A t \in Servers : t # s => Handled(t)' = Handled(t)
  BY <1>2, <1>4 DEF Handled
<1>8. \A t \in Servers : t # s => Begun(t)' = Begun(t)
  BY <1>7 DEF Begun
<1>9. ASSUME NEW i \in DOMAIN to_server'[s]
      PROVE  to_server'[s][i] = Message(Handled(s) + 1 + i - 1)
  <2>1. to_server[s][i + 1] = Message(Handled(s) + (i + 1) - 1)
    BY <1>3, Zenon DEF AFInv, InOrder
  <2>2. Handled(s) + (i + 1) - 1 = Handled(s) + 1 + i - 1
    BY <1>3, <1>5
  <2> QED
    BY <2>1, <2>2, <1>3, Zenon
<1> QED
  BY <1>2, <1>6, <1>7, <1>8, <1>9, Zenon

(* Nothing changes at a server a step leaves alone: what it has taken,      *)
(* recorded and owes stays as it is.                                       *)
LEMMA OtherServer ==
    ASSUME NEW t \in Servers, UNCHANGED serverFrame,
           to_server'[t] = to_server[t], batch_data'[t] = batch_data[t],
           pending'[t] = pending[t], response_queue'[t] = response_queue[t]
    PROVE  /\ Handled(t)' = Handled(t) /\ Begun(t)' = Begun(t)
           /\ \A i : PendingTs(t, i)' = PendingTs(t, i)
           /\ \A ts : AFOwes(t, ts)' <=> AFOwes(t, ts)
<1>1. Sent' = Sent
  BY ServerFrame, Zenon
<1>2. Handled(t)' = Handled(t)
  BY <1>1, Zenon DEF Handled
<1>3. Begun(t)' = Begun(t)
  BY <1>2, Zenon DEF Begun
<1>4. \A i : PendingTs(t, i)' = PendingTs(t, i)
  BY Zenon DEF PendingTs
<1>5. \A ts : AFOwes(t, ts)' <=> AFOwes(t, ts)
  BY <1>2, <1>4, Zenon DEF AFOwes
<1> QED
  BY <1>2, <1>3, <1>4, <1>5, Zenon

(* Its part of InOrder.                                                    *)
LEMMA OtherInOrder ==
    ASSUME InOrder, NEW t \in Servers, to_server'[t] = to_server[t],
           batch_data'[t] = batch_data[t],
           NEW h, h = Handled(t), NEW g, g = Begun(t)
    PROVE  /\ g >= 0
           /\ \A i \in DOMAIN to_server'[t] : to_server'[t][i] = Message(h + i - 1)
           /\ \A i \in DOMAIN batch_data'[t] : batch_data'[t][i] = Message(g + i - 1)
           /\ g < Enqueued => BatchAt(g).first = g
           /\ batch_data'[t] # <<>> => h <= LastOf(BatchAt(g))
BY Zenon DEF InOrder

(* Its part of Waiting.                                                    *)
LEMMA OtherWaiting ==
    ASSUME Waiting, NEW t \in Servers, pending'[t] = pending[t], Begun(t)' = Begun(t),
           NEW i \in DOMAIN pending'[t], NEW u, u = pending'[t][i][1].ts
    PROVE  /\ u \in Timestamps /\ BatchAt(u).first = u /\ LastOf(BatchAt(u)) < Begun(t)'
           /\ pending'[t][i] = Whole(BatchAt(u))
<1>1. /\ u \in Timestamps /\ BatchAt(u).first = u /\ LastOf(BatchAt(u)) < Begun(t)
      /\ pending[t][i] = Whole(BatchAt(u))
  BY Zenon DEF Waiting
<1> QED
  BY <1>1, Zenon

(* Its part of Responses.                                                  *)
LEMMA OtherResponses ==
    ASSUME Responses, NEW t \in Servers, response_queue'[t] = response_queue[t],
           pending'[t] = pending[t], Begun(t)' = Begun(t),
           \A k : PendingTs(t, k)' = PendingTs(t, k),
           NEW i \in DOMAIN response_queue'[t], NEW m, m = response_queue'[t][i].msg
    PROVE  /\ m = Null => response_stop[t] /\ response_queue'[t][i].event = 0
           /\ m # Null =>
                 /\ m.ts \in Timestamps
                 /\ m.ts = LastOf(BatchAt(m.ts)) /\ m.ts < Begun(t)' /\ m = Message(m.ts)
                 /\ BatchAt(m.ts).pull = 1 /\ m.cmd # "single"
                 /\ response_queue'[t][i].val = PushTs(BatchAt(m.ts))
                 /\ \A j \in DOMAIN pending'[t] : m.ts < PendingTs(t, j)'
<1>1. /\ m = Null => response_stop[t] /\ response_queue[t][i].event = 0
      /\ m # Null =>
            /\ m.ts \in Timestamps
            /\ m.ts = LastOf(BatchAt(m.ts)) /\ m.ts < Begun(t) /\ m = Message(m.ts)
            /\ BatchAt(m.ts).pull = 1 /\ m.cmd # "single"
            /\ response_queue[t][i].val = PushTs(BatchAt(m.ts))
            /\ \A j \in DOMAIN pending[t] : m.ts < PendingTs(t, j)
  BY DEF Responses
<1> QED
  BY <1>1, Zenon

(* The last message of a call: the call waits for its answer.              *)
LEMMA AFKVHandlerLast ==
    ASSUME Shared, AFInv, NEW s \in Servers, KVHandler(s), Complete(Head(to_server[s]))
    PROVE  Shared' /\ AFInv'
<1> USE DEF AFInv
<1>a. PICK m, h, g, b : /\ m = Head(to_server[s]) /\ h = Handled(s) /\ g = Begun(s)
                        /\ b = BatchAt(Handled(s))
  BY Zenon
<1>b. PICK w : w = Append(batch_data[s], m)
  BY Zenon
<1>1. /\ app = "af" /\ to_server[s] # <<>> /\ ~raced
      /\ to_server' = [to_server EXCEPT ![s] = Tail(@)]
      /\ to_worker' = IF m.op = "push" /\ m.cmd # "single"
                      THEN [to_worker EXCEPT ![s] = Append(@, Answer(s, m, {}, TRUE))]
                      ELSE to_worker
      /\ pending' = [pending EXCEPT ![s] = Append(@, w)]
      /\ batch_data' = [batch_data EXCEPT ![s] = <<>>]
      /\ UNCHANGED serverFrame
      /\ UNCHANGED <<raced, response_queue, server_submitted, server_events>>
  BY <1>a, <1>b, Zenon DEF KVHandler, Running, serverFrame, confVars, tableVars, endVars, programVars,
         pullVars, peerVars, workerVars, senderVars, gpuVars, responderVars, sgpuVars
<1>2. /\ Types /\ batch_data \in [Servers -> Seq(Request)]
      /\ pending \in [Servers -> Seq(Seq(Request))] /\ to_server[s] \in Seq(Request)
      /\ num_servers \in Nat \ {0}
  BY Numbers, Zenon DEF Shared, ServerTypes
<1>3. /\ h \in Timestamps /\ h < Enqueued /\ m = Message(h)
      /\ g \in Timestamps /\ g <= h /\ BatchAt(g) = b /\ BatchAt(h) = b /\ GoodBatch(b)
      /\ b.first = g /\ h \in TimestampsOf(b)
  BY <1>1, <1>2, <1>a, HandlerTakes, Zenon
<1>4. /\ h \in Nat /\ g \in Nat /\ g + Len(batch_data[s]) = h /\ Len(batch_data[s]) \in Nat
      /\ Enqueued \in Nat
  BY <1>2, <1>a, Progress, Zenon
<1>5. m.op = requests[h + 1].op /\ m.ts = h /\ m.cmd = Cmd(b, h)
  BY <1>3, Zenon DEF Message
<1>6. h = LastOf(b) /\ b \in Batch /\ LastOf(b) + 1 = g + Size(b) /\ Size(b) \in Nat
  <2>1. Cmd(b, h) \in {"single", "end"}
    BY <1>5, <1>a, Zenon DEF Complete
  <2> QED
    BY <2>1, <1>2, <1>3, Flags, BatchSizes, Zenon DEF GoodBatch
<1>7. to_worker' = to_worker
  <2> SUFFICES ASSUME m.op = "push", m.cmd # "single"
               PROVE  FALSE
    BY <1>1, Zenon
  <2>1. h < b.first + b.push
    BY <1>3, <1>5, Zenon DEF Calls
  <2>2. b.pull = 1 /\ Size(b) > 1
    BY <1>2, <1>3, <1>5, Flags, Zenon
  <2>3. b.push \in Nat /\ Size(b) = b.push + b.pull
    BY <1>6, BatchSizes, Zenon DEF Size
  <2> QED
    BY <2>1, <2>2, <2>3, <1>3, <1>4, <1>6
<1>8. w = Whole(b) /\ w \in Seq(Request)
  <2>1. m \in Request
    BY <1>1, <1>2, <1>a
  <2>2. batch_data[s] \in Seq(Request)
    BY <1>2
  <2>3. w \in Seq(Request) /\ Len(w) = Len(batch_data[s]) + 1
        /\ w[Len(batch_data[s]) + 1] = m
        /\ \A i \in DOMAIN batch_data[s] : w[i] = batch_data[s][i]
        /\ DOMAIN batch_data[s] = 1 .. Len(batch_data[s])
    BY <1>b, <2>1, <2>2
  <2>4. Len(w) = Size(b)
    BY <2>3, <1>3, <1>4, <1>6
  <2>5. ASSUME NEW k \in 1 .. Size(b)
        PROVE  w[k] = Message(g + k - 1)
    <3>1. CASE k \in 1 .. Len(batch_data[s])
      <4>1. batch_data[s][k] = Message(Begun(s) + k - 1)
        BY <2>3, <3>1 DEF InOrder
      <4> QED
        BY <4>1, <2>3, <3>1, <1>a
    <3>2. CASE k = Len(batch_data[s]) + 1
      <4>1. g + k - 1 = h
        BY <3>2, <1>4
      <4> QED
        BY <4>1, <3>2, <2>3, <1>3, Zenon
    <3>3. k \in 1 .. Len(batch_data[s]) \/ k = Len(batch_data[s]) + 1
      BY <2>3, <2>4, <1>4
    <3> QED
      BY <3>1, <3>2, <3>3, Zenon
  <2>6. w = [k \in 1 .. Size(b) |-> w[k]]
    BY <2>3, <2>4
  <2> QED
    BY <2>3, <2>5, <2>6, <1>3, Zenon DEF Whole
<1>9. /\ Handled(s)' = h + 1
      /\ \A t \in Servers : t # s => /\ Handled(t)' = Handled(t) /\ Begun(t)' = Begun(t)
                                     /\ to_server'[t] = to_server[t]
      /\ to_server' \in [Servers -> Seq(Request)]
      /\ \A i \in DOMAIN to_server'[s] : to_server'[s][i] = Message(h + 1 + i - 1)
  <2>1. \A t \in Servers : t # s => batch_data'[t] = batch_data[t]
    BY <1>1, <1>2, Zenon
  <2> QED
    BY <2>1, <1>1, <1>2, <1>a, HandlerMoves, Zenon
<1>10. /\ batch_data'[s] = <<>> /\ batch_data' \in [Servers -> Seq(Request)]
       /\ \A t \in Servers : t # s => batch_data'[t] = batch_data[t]
  BY <1>1, <1>2
<1>11. Begun(s)' = h + 1
  <2>1. Begun(s)' = Handled(s)' - Len(batch_data'[s])
    BY Zenon DEF Begun
  <2>2. Len(batch_data'[s]) = 0
    BY <1>10
  <2> QED
    BY <2>1, <2>2, <1>4, <1>9
<1>c. PICK n : n = Len(pending[s])
  BY Zenon
<1>12. /\ pending' \in [Servers -> Seq(Seq(Request))]
       /\ \A t \in Servers : t # s => pending'[t] = pending[t]
       /\ n \in Nat /\ DOMAIN pending[s] = 1 .. n /\ DOMAIN pending'[s] = 1 .. n + 1
       /\ \A i \in 1 .. n : pending'[s][i] = pending[s][i]
       /\ pending'[s][n + 1] = w
  BY <1>1, <1>2, <1>8, <1>c
<1>13. /\ \A i \in 1 .. n : PendingTs(s, i)' = PendingTs(s, i)
       /\ \A i : i = n + 1 => PendingTs(s, i)' = h
       /\ \A t \in Servers : t # s => \A i : PendingTs(t, i)' = PendingTs(t, i)
  <2>1. w[Len(w)].ts = h /\ w[1].ts = g
    BY <1>3, <1>6, <1>8, WholeIs, Zenon
  <2> QED
    BY <2>1, <1>12, Zenon DEF PendingTs
<1>14. /\ Servers' = Servers /\ Timestamps' = Timestamps /\ Enqueued' = Enqueued
       /\ SinglePulls' = SinglePulls
       /\ \A ts : /\ BatchAt(ts)' = BatchAt(ts) /\ Message(ts)' = Message(ts)
                  /\ Single(ts)' <=> Single(ts)
       /\ \A x : Whole(x)' = Whole(x)
  BY <1>1, ServerFrame, Zenon
<1>15. \A i \in 1 .. n : PendingTs(s, i) \in Nat /\ PendingTs(s, i) < g
  <2>1. \A i \in DOMAIN pending[s] : \E t \in Timestamps :
           LastOf(BatchAt(t)) < g /\ LastOf(BatchAt(t)) \in Timestamps
           /\ PendingTs(s, i) = LastOf(BatchAt(t))
    BY <1>2, <1>a, PendingCall, Zenon
  <2>2. \A ts \in Timestamps : ts \in Nat
    BY DEF Timestamps
  <2> QED
    BY <2>1, <2>2, <1>12, Zenon
<1>16. ServerTypes'
  BY <1>1, <1>9, <1>10, <1>12, <1>14, Zenon DEF ServerTypes, serverFrame
<1>o. ASSUME NEW t \in Servers, t # s
      PROVE  /\ to_server'[t] = to_server[t] /\ batch_data'[t] = batch_data[t]
             /\ pending'[t] = pending[t] /\ response_queue'[t] = response_queue[t]
  BY <1>o, <1>1, <1>9, <1>10, <1>12, Zenon
<1>17. InOrder'
  <2>1. h + 1 < Enqueued => BatchAt(h + 1).first = h + 1
    BY <1>2, <1>3, <1>6, NextCall, Zenon
  <2>2. ASSUME NEW t \in Servers, NEW x, NEW y, x = Handled(t)', y = Begun(t)'
        PROVE  /\ y >= 0
               /\ \A i \in DOMAIN to_server'[t] : to_server'[t][i] = Message(x + i - 1)
               /\ \A i \in DOMAIN batch_data'[t] : batch_data'[t][i] = Message(y + i - 1)
               /\ y < Enqueued => BatchAt(y).first = y
               /\ batch_data'[t] # <<>> => x <= LastOf(BatchAt(y))
    <3>1. CASE t # s
      <4>1. x = Handled(t) /\ y = Begun(t) /\ InOrder
        BY <3>1, <2>2, <1>9, <1>1, Zenon
      <4> QED
        BY <3>1, <4>1, <1>o, OtherInOrder, Zenon
    <3>2. CASE t = s
      <4>1. h + 1 >= 0 /\ DOMAIN batch_data'[s] = {} /\ x = h + 1 /\ y = h + 1
        BY <3>2, <2>2, <1>4, <1>9, <1>10, <1>11
      <4> QED
        BY <3>2, <4>1, <2>1, <1>9, <1>10, Zenon
    <3> QED
      BY <3>1, <3>2, Zenon
  <2> QED
    BY <2>2, <1>1, InOrderNext, Zenon
<1>18. Waiting'
  <2>1. ASSUME NEW t \in Servers, NEW i \in DOMAIN pending'[t],
               NEW u, u = pending'[t][i][1].ts
        PROVE  /\ u \in Timestamps /\ BatchAt(u).first = u /\ LastOf(BatchAt(u)) < Begun(t)'
               /\ pending'[t][i] = Whole(BatchAt(u))
    <3>1. CASE t # s
      <4>1. Begun(t)' = Begun(t) /\ pending'[t] = pending[t] /\ Waiting
        BY <3>1, <1>9, <1>o, <1>1, Zenon
      <4> QED
        BY <4>1, <2>1, OtherWaiting
    <3>2. CASE t = s /\ i \in 1 .. n
      <4>1. /\ u \in Timestamps /\ BatchAt(u).first = u /\ LastOf(BatchAt(u)) < g
            /\ pending[s][i] = Whole(BatchAt(u))
        BY <3>2, <2>1, <1>12, <1>a DEF Waiting
      <4>2. LastOf(BatchAt(u)) \in Nat
        BY <4>1, <1>2, CallAt, Zenon
      <4> QED
        <5>1. LastOf(BatchAt(u)) < h + 1
          BY <4>1, <4>2, <1>3, <1>4
        <5> QED
          BY <5>1, <4>1, <3>2, <1>11, <1>12, Zenon
    <3>3. CASE t = s /\ i = n + 1
      <4>1. u = g
        BY <3>3, <2>1, <1>3, <1>8, <1>12, WholeIs
      <4>2. LastOf(b) < h + 1
        BY <1>4, <1>6
      <4> QED
        BY <4>1, <4>2, <3>3, <1>3, <1>8, <1>11, <1>12, Zenon
    <3> QED
      BY <3>1, <3>2, <3>3, <1>12
  <2>2. ASSUME NEW t \in Servers, NEW i \in DOMAIN pending'[t], NEW j \in DOMAIN pending'[t], i < j
        PROVE  PendingTs(t, i)' < PendingTs(t, j)'
    <3>1. CASE t # s
      <4>1. pending'[t] = pending[t] /\ \A x : PendingTs(t, x)' = PendingTs(t, x)
        BY <3>1, <1>12, <1>13, Zenon
      <4>2. \A x, y \in DOMAIN pending[t] : x < y => PendingTs(t, x) < PendingTs(t, y)
        BY Zenon DEF Waiting
      <4> QED
        BY <4>1, <4>2, <2>2, Zenon
    <3>2. CASE t = s /\ j \in 1 .. n
      <4>1. i \in 1 .. n
        BY <3>2, <2>2, <1>12
      <4>2. PendingTs(s, i) < PendingTs(s, j)
        BY <3>2, <4>1, <2>2, <1>12, Zenon DEF Waiting
      <4> QED
        BY <3>2, <4>1, <4>2, <1>13, Zenon
    <3>3. CASE t = s /\ j = n + 1
      <4>1. i \in 1 .. n
        BY <3>3, <2>2, <1>12
      <4>2. PendingTs(s, i) < h
        BY <4>1, <1>3, <1>4, <1>15
      <4> QED
        BY <3>3, <4>1, <4>2, <1>13, Zenon
    <3> QED
      BY <3>1, <3>2, <3>3, <1>12
  <2> QED
    BY <2>1, <2>2, <1>1, WaitingNext, Zenon
<1>19. Responses'
  <2>1. ASSUME NEW t \in Servers, NEW i \in DOMAIN response_queue'[t],
               NEW x, x = response_queue'[t][i].msg
        PROVE  /\ x = Null => response_stop[t] /\ response_queue'[t][i].event = 0
               /\ x # Null =>
                     /\ x.ts \in Timestamps
                     /\ x.ts = LastOf(BatchAt(x.ts)) /\ x.ts < Begun(t)' /\ x = Message(x.ts)
                     /\ BatchAt(x.ts).pull = 1 /\ x.cmd # "single"
                     /\ response_queue'[t][i].val = PushTs(BatchAt(x.ts))
                     /\ \A j \in DOMAIN pending'[t] : x.ts < PendingTs(t, j)'
    <3>1. CASE t # s
      <4>1. /\ Begun(t)' = Begun(t) /\ Responses /\ \A k : PendingTs(t, k)' = PendingTs(t, k)
            /\ pending'[t] = pending[t] /\ response_queue'[t] = response_queue[t]
        BY <3>1, <1>9, <1>13, <1>o, <1>1, Zenon
      <4> QED
        BY <4>1, <2>1, OtherResponses
    <3>2. CASE t = s
      <4>1. /\ x = Null => response_stop[t] /\ response_queue[t][i].event = 0
            /\ x # Null =>
                  /\ x.ts \in Timestamps
                  /\ x.ts = LastOf(BatchAt(x.ts)) /\ x.ts < Begun(t) /\ x = Message(x.ts)
                  /\ BatchAt(x.ts).pull = 1 /\ x.cmd # "single"
                  /\ response_queue[t][i].val = PushTs(BatchAt(x.ts))
                  /\ \A j \in DOMAIN pending[t] : x.ts < PendingTs(t, j)
        BY <2>1, <1>1, Zenon DEF Responses
      <4>2. ASSUME x # Null
            PROVE  x.ts < Begun(s)' /\ x.ts < h
        <5>1. x.ts \in Nat /\ x.ts < g
          BY <4>1, <4>2, <3>2, <1>a DEF Timestamps
        <5> QED
          BY <5>1, <1>3, <1>4, <1>11
      <4>3. ASSUME x # Null, NEW j \in DOMAIN pending'[s]
            PROVE  x.ts < PendingTs(s, j)'
        <5>1. CASE j \in 1 .. n
          BY <5>1, <4>1, <4>3, <3>2, <1>12, <1>13, Zenon
        <5>2. CASE j = n + 1
          BY <5>2, <4>2, <4>3, <1>13, Zenon
        <5> QED
          BY <5>1, <5>2, <1>12
      <4> QED
        BY <3>2, <4>1, <4>2, <4>3, <1>1, Zenon
    <3> QED
      BY <3>1, <3>2, Zenon
  <2>2. \A t \in Servers : \A i, j \in DOMAIN response_queue'[t] :
           /\ i < j
           /\ response_queue'[t][i].msg # Null /\ response_queue'[t][j].msg # Null
           => response_queue'[t][i].msg.ts < response_queue'[t][j].msg.ts
    BY <1>1, Zenon DEF Responses
  <2> QED
    BY <2>1, <2>2, <1>1, ResponsesNext, Zenon
<1>20. Answers'
  BY <1>1, <1>7, FrameAnswers, Zenon DEF serverFrame
<1>21. ServerEvents'
  <2>1. \A t : Orphans(t)' = Orphans(t) /\ Recorded(t)' = Recorded(t)
    BY <1>1, Zenon DEF Orphans, InUse, Recorded
  <2>2. \A t \in Servers : AnsweredPulls(t) \subseteq AnsweredPulls(t)'
    <3>1. \A t \in Servers : t # s => AnsweredPulls(t)' = AnsweredPulls(t)
      BY <1>9, <1>12, <1>13, <1>14, Zenon DEF AnsweredPulls
    <3>2. ASSUME NEW ts \in AnsweredPulls(s)
          PROVE  ts \in AnsweredPulls(s)'
      <4>1. /\ ts \in SinglePulls /\ ts < g /\ ts \in Nat
            /\ \A i \in DOMAIN pending[s] : PendingTs(s, i) # ts
        BY <1>a DEF AnsweredPulls, SinglePulls, Timestamps
      <4>2. ts < h + 1 /\ ts # h
        BY <4>1, <1>3, <1>4
      <4>3. \A i \in DOMAIN pending'[s] : PendingTs(s, i)' # ts
        <5>1. \A i \in DOMAIN pending'[s] : i \in 1 .. n \/ i = n + 1
          BY <1>12
        <5> QED
          BY <5>1, <4>1, <4>2, <1>12, <1>13, Zenon
      <4> QED
        BY <4>1, <4>2, <4>3, <1>11, <1>14, Zenon DEF AnsweredPulls
    <3> QED
      BY <3>1, <3>2, Zenon
  <2>3. Types'
    BY <1>1, <1>2, <1>7, <1>14, Zenon DEF Types, serverFrame
  <2>4. ASSUME NEW t \in Servers
        PROVE  Cardinality(Orphans(t)') <= Cardinality(AnsweredPulls(t)')
    <3>1. Cardinality(AnsweredPulls(t)) <= Cardinality(AnsweredPulls(t)')
          /\ Cardinality(AnsweredPulls(t)) \in Nat /\ Cardinality(AnsweredPulls(t)') \in Nat
      <4>1. IsFiniteSet(AnsweredPulls(t)')
        <5>1. AnsweredPulls(t)' \subseteq SinglePulls
          BY <1>14, Zenon DEF AnsweredPulls
        <5> QED
          BY <5>1, <1>2, AnsweredFinite, FS_Subset, Zenon
      <4> QED
        BY <4>1, <2>2, FS_Subset, FS_CardinalityType, Zenon
    <3>2. Cardinality(Orphans(t)) <= Cardinality(AnsweredPulls(t))
      BY Zenon DEF ServerEvents, PoolKept
    <3>3. Cardinality(Orphans(t)) \in Nat
      BY PoolFinite, Zenon
    <3> QED
      BY <2>1, <3>1, <3>2, <3>3
  <2> QED
    BY <1>1, <1>14, <2>1, <2>4, Zenon DEF ServerEvents, PoolKept, InUse, serverFrame
<1>22. Shared'
  <2>1. Types'
    BY <1>1, <1>2, <1>7, <1>14, Zenon DEF Types, serverFrame
  <2>2. ASSUME NEW t \in Servers, NEW ts \in Timestamps
        PROVE  AFOwes(t, ts)' <=> AFOwes(t, ts)
    <3>1. CASE t # s
      BY <3>1, <1>o, <1>1, OtherServer, Zenon
    <3>2. CASE t = s
      <4>1. ts \in Nat
        BY DEF Timestamps
      <4>2. (\E i \in DOMAIN pending'[s] : PendingTs(s, i)' = ts)
               <=> ts = h \/ \E i \in DOMAIN pending[s] : PendingTs(s, i) = ts
        <5>1. /\ \A i \in DOMAIN pending'[s] : i \in 1 .. n \/ i = n + 1
              /\ 1 .. n \subseteq DOMAIN pending'[s] /\ n + 1 \in DOMAIN pending'[s]
          BY <1>12
        <5> QED
          BY <5>1, <1>12, <1>13, Zenon
      <4>3. ts >= h <=> ts = h \/ ts >= h + 1
        BY <4>1, <1>4
      <4> QED
        BY <3>2, <4>2, <4>3, <1>1, <1>9, <1>a, Zenon DEF AFOwes
    <3> QED
      BY <3>1, <3>2, Zenon
  <2>3. app' = app /\ \A t \in Servers, ts \in Timestamps : Owes(t, ts)' <=> Owes(t, ts)
    BY <1>1, <2>2, Zenon DEF Owes, serverFrame
  <2> QED
    BY <1>1, <1>7, <2>1, <2>3, NothingMoves, Zenon DEF Shared, WaitedFinished, serverFrame
<1> QED
  BY <1>1, <1>16, <1>17, <1>18, <1>19, <1>20, <1>21, <1>22, AFServerStep, Zenon

(* A message of a call that is not its last: a push, answered at once.     *)
LEMMA AFKVHandlerMore ==
    ASSUME Shared, AFInv, NEW s \in Servers, KVHandler(s), ~Complete(Head(to_server[s]))
    PROVE  Shared' /\ AFInv'
<1> USE DEF AFInv
<1>a. PICK m, h, g, b : /\ m = Head(to_server[s]) /\ h = Handled(s) /\ g = Begun(s)
                        /\ b = BatchAt(Handled(s))
  OBVIOUS
<1>b. PICK w, a : w = Append(batch_data[s], m) /\ a = Answer(s, m, {}, TRUE)
  BY Zenon
<1>1. /\ app = "af" /\ to_server[s] # <<>> /\ ~raced
      /\ to_server' = [to_server EXCEPT ![s] = Tail(@)]
      /\ to_worker' = IF m.op = "push" /\ m.cmd # "single"
                      THEN [to_worker EXCEPT ![s] = Append(@, a)]
                      ELSE to_worker
      /\ batch_data' = [batch_data EXCEPT ![s] = w]
      /\ UNCHANGED serverFrame
      /\ UNCHANGED <<raced, pending, response_queue, server_submitted, server_events>>
  BY <1>a, <1>b, Zenon DEF KVHandler, Running, serverFrame, confVars, tableVars, endVars, programVars,
         pullVars, peerVars, workerVars, senderVars, gpuVars, responderVars, sgpuVars
<1>u. UNCHANGED serverFrame
  BY <1>1
<1>2. /\ Types /\ batch_data \in [Servers -> Seq(Request)]
      /\ to_server[s] \in Seq(Request) /\ num_servers \in Nat \ {0}
  BY Numbers DEF Shared, ServerTypes
<1>3. /\ h \in Timestamps /\ h < Enqueued /\ m = Message(h)
      /\ g \in Timestamps /\ g <= h /\ BatchAt(g) = b /\ BatchAt(h) = b /\ GoodBatch(b)
      /\ b.first = g /\ h \in TimestampsOf(b)
  BY <1>1, <1>2, <1>a, HandlerTakes, Zenon
<1>4. /\ h \in Nat /\ g \in Nat /\ g + Len(batch_data[s]) = h /\ Len(batch_data[s]) \in Nat
  BY <1>2, <1>a, Progress
<1>5. m.op = requests[h + 1].op /\ m.ts = h /\ m.cmd = Cmd(b, h)
  BY <1>3 DEF Message
<1>6. /\ h # LastOf(b) /\ b \in Batch /\ LastOf(b) + 1 = g + Size(b) /\ Size(b) \in Nat
      /\ LastOf(b) \in Int /\ h <= LastOf(b) /\ m.cmd # "single" /\ b.pull = 1
  <2>1. Cmd(b, h) \notin {"single", "end"} /\ m.cmd # "single"
    BY <1>5, <1>a, Zenon DEF Complete
  <2>2. TimestampsOf(b) = b.first .. LastOf(b) /\ LastOf(b) \in Int
    BY <1>3, BatchSizes, Zenon DEF GoodBatch
  <2> QED
    BY <2>1, <2>2, <1>2, <1>3, <1>4, <1>5, Flags, BatchSizes DEF GoodBatch
<1>7. m.op = "push"
  <2>1. b.push \in Nat /\ Size(b) = b.push + b.pull
    BY <1>6, BatchSizes DEF Size
  <2>2. h < b.first + b.push
    BY <2>1, <1>3, <1>4, <1>6
  <2> QED
    BY <2>2, <1>3, <1>5, Zenon DEF Calls
<1>8. /\ a \in Reply /\ a.ts = h /\ a.op = "push" /\ a.ready
      /\ to_worker' = [to_worker EXCEPT ![s] = Append(@, a)]
  BY <1>1, <1>4, <1>5, <1>6, <1>7, <1>b, Zenon DEF Answer, Reply
<1>9. /\ Handled(s)' = h + 1
      /\ \A t \in Servers : t # s => /\ Handled(t)' = Handled(t) /\ Begun(t)' = Begun(t)
                                     /\ to_server'[t] = to_server[t]
      /\ to_server' \in [Servers -> Seq(Request)]
      /\ \A i \in DOMAIN to_server'[s] : to_server'[s][i] = Message(h + 1 + i - 1)
  <2>1. \A t \in Servers : t # s => batch_data'[t] = batch_data[t]
    BY <1>1, <1>2, Zenon
  <2> QED
    BY <2>1, <1>1, <1>2, <1>a, HandlerMoves, Zenon
<1>c. PICK n : n = Len(batch_data[s])
  BY Zenon
<1>10. /\ batch_data'[s] = w /\ batch_data' \in [Servers -> Seq(Request)]
       /\ \A t \in Servers : t # s => batch_data'[t] = batch_data[t]
       /\ Len(w) = n + 1 /\ DOMAIN w = 1 .. n + 1 /\ w[n + 1] = m
       /\ DOMAIN batch_data[s] = 1 .. n /\ \A i \in 1 .. n : w[i] = batch_data[s][i]
  <2>1. m \in Request
    BY <1>1, <1>2, <1>a
  <2> QED
    BY <2>1, <1>1, <1>2, <1>b, <1>c
<1>11. Begun(s)' = g
  <2>1. Begun(s)' = Handled(s)' - Len(batch_data'[s])
    BY DEF Begun
  <2>2. Begun(s)' = (h + 1) - (n + 1)
    BY <2>1, <1>9, <1>10, Zenon
  <2>3. n \in Nat /\ g + n = h
    BY <1>4, <1>c
  <2> QED
    BY <2>2, <2>3, <1>4
<1>o. ASSUME NEW t \in Servers, t # s
      PROVE  /\ to_server'[t] = to_server[t] /\ batch_data'[t] = batch_data[t]
             /\ pending'[t] = pending[t] /\ response_queue'[t] = response_queue[t]
  BY <1>o, <1>1, <1>9, <1>10, Zenon
<1>12. ServerTypes'
  <2>1. Servers' = Servers
    BY <1>1, ServerFrame, Zenon
  <2> QED
    BY <2>1, <1>1, <1>9, <1>10, Zenon DEF ServerTypes, serverFrame
<1>13. InOrder'
  <2>1. ASSUME NEW t \in Servers, NEW x, NEW y, x = Handled(t)', y = Begun(t)'
        PROVE  /\ y >= 0
               /\ \A i \in DOMAIN to_server'[t] : to_server'[t][i] = Message(x + i - 1)
               /\ \A i \in DOMAIN batch_data'[t] : batch_data'[t][i] = Message(y + i - 1)
               /\ y < Enqueued => BatchAt(y).first = y
               /\ batch_data'[t] # <<>> => x <= LastOf(BatchAt(y))
    <3>1. CASE t # s
      <4>1. x = Handled(t) /\ y = Begun(t)
        BY <3>1, <2>1, <1>o, <1>u, OtherServer, Zenon
      <4> QED
        BY <3>1, <4>1, <1>o, <1>u, OtherInOrder, Zenon
    <3>2. CASE t = s
      <4>1. x = h + 1 /\ y = g /\ y >= 0 /\ x <= LastOf(b)
        BY <3>2, <2>1, <1>4, <1>6, <1>9, <1>11
      <4>2. ASSUME NEW i \in 1 .. n + 1
            PROVE  w[i] = Message(g + i - 1)
        <5>1. CASE i \in 1 .. n
          <6>1. batch_data[s][i] = Message(Begun(s) + i - 1)
            BY <5>1, <1>10, Zenon DEF InOrder
          <6> QED
            BY <5>1, <6>1, <1>10, <1>a, Zenon
        <5>2. CASE i = n + 1
          <6>1. g + i - 1 = h
            BY <5>2, <1>4, <1>c
          <6> QED
            BY <5>2, <6>1, <1>3, <1>10, Zenon
        <5> QED
          BY <5>1, <5>2, <1>4, <1>c
      <4> QED
        BY <3>2, <4>1, <4>2, <1>3, <1>9, <1>10, Zenon
    <3> QED
      BY <3>1, <3>2, Zenon
  <2> QED
    BY <2>1, <1>1, InOrderNext, Zenon
<1>14. /\ \A t \in Servers : Begun(t)' = Begun(t)
       /\ Len(tracker') = Len(tracker)
       /\ UNCHANGED <<num_servers, requests, pending, response_queue, response_stop,
                      server_gpu, server_events>>
  BY <1>1, <1>9, <1>11, <1>a, Zenon DEF serverFrame
<1>15. Waiting' /\ Responses'
  BY <1>14, FrameWaiting, Zenon
<1>16. ServerEvents'
  BY <1>14, FrameServerEvents, Zenon
<1>17. ASSUME NEW t \in Servers, NEW ts \in Timestamps
       PROVE  /\ t # s \/ ts # h => (AFOwes(t, ts)' <=> AFOwes(t, ts))
              /\ t = s /\ ts = h => AFOwes(t, ts) /\ ~AFOwes(t, ts)'
  <2>1. CASE t # s
    BY <2>1, <1>o, <1>1, OtherServer, Zenon
  <2>2. CASE t = s
    <3>1. ts \in Nat
      BY DEF Timestamps
    <3>2. \A i : PendingTs(s, i)' = PendingTs(s, i)
      BY <1>1, Zenon DEF PendingTs
    <3>3. \A i \in DOMAIN pending[s] : PendingTs(s, i) # h
      <4>1. \A i \in DOMAIN pending[s] : \E u \in Timestamps :
               LastOf(BatchAt(u)) < g /\ LastOf(BatchAt(u)) \in Timestamps
               /\ PendingTs(s, i) = LastOf(BatchAt(u))
        BY <1>2, <1>a, PendingCall, Zenon
      <4>2. \A u \in Timestamps : u \in Nat
        BY DEF Timestamps
      <4> QED
        BY <4>1, <4>2, <1>3, <1>4
    <3>4. \A i \in DOMAIN response_queue[s] : response_queue[s][i].msg # Null
             => response_queue[s][i].msg.ts # h
      <4>1. \A i \in DOMAIN response_queue[s] : response_queue[s][i].msg # Null
               => response_queue[s][i].msg.ts \in Timestamps /\ response_queue[s][i].msg.ts < g
        BY <1>a, Zenon DEF Responses
      <4>2. \A u \in Timestamps : u \in Nat
        BY DEF Timestamps
      <4> QED
        BY <4>1, <4>2, <1>3, <1>4
    <3>5. ts >= h + 1 <=> ts >= h /\ ts # h
      BY <3>1, <1>4
    <3>6. AFOwes(s, ts)' <=>
             \/ ts >= h + 1
             \/ \E i \in DOMAIN pending[s] : PendingTs(s, i) = ts
             \/ \E i \in DOMAIN response_queue[s] :
                   response_queue[s][i].msg # Null /\ response_queue[s][i].msg.ts = ts
      BY <3>2, <1>1, <1>9, Zenon DEF AFOwes
    <3>7. AFOwes(s, ts) <=>
             \/ ts >= h
             \/ \E i \in DOMAIN pending[s] : PendingTs(s, i) = ts
             \/ \E i \in DOMAIN response_queue[s] :
                   response_queue[s][i].msg # Null /\ response_queue[s][i].msg.ts = ts
      BY <1>a, Zenon DEF AFOwes
    <3> QED
      BY <2>2, <3>3, <3>4, <3>5, <3>6, <3>7, <1>4
  <2> QED
    BY <2>1, <2>2, Zenon
<1>18. Shared' /\ Answers'
  <2>1. ~Single(h)
    BY <1>3, <1>5, <1>6, Zenon DEF Single
  <2>2. ~raced' /\ a.ts \in Timestamps /\ a.op = requests[a.ts + 1].op /\ a.op # "pull"
    BY <1>1, <1>3, <1>5, <1>7, <1>8, Zenon
  <2>3. AFOwes(s, a.ts) /\ ~AFOwes(s, a.ts)'
    BY <1>3, <1>8, <1>17, Zenon
  <2> QED
    BY <2>1, <2>2, <2>3, <1>1, <1>8, <1>17, ReplyLeaves, Zenon
<1> QED
  BY <1>1, <1>12, <1>13, <1>15, <1>16, <1>18, AFServerStep, Zenon

(* KVHandler, for either kind of message.                                  *)
LEMMA AFKVHandler ==
    ASSUME Shared, AFInv, NEW s \in Servers, KVHandler(s)
    PROVE  Shared' /\ AFInv'
BY AFKVHandlerLast, AFKVHandlerMore, Zenon

(* Every step with AFTensorWorker and AFTensorServer.                      *)
LEMMA AFNext ==
    ASSUME Shared, AFInv, app = "af", Next
    PROVE  Shared' /\ AFInv'
<1> USE DEF afProofVars, confVars, tableVars, endVars, programVars, pullVars, netVars,
            peerVars, kvVars, afVars, workerVars, senderVars, gpuVars, serverVars,
            responderVars, sgpuVars
<1>0. /\ gpu \in Nat /\ submitted \in Nat /\ gpu <= submitted
      /\ server_gpu \in [Servers -> Nat]
      /\ pc \in {"idle", "alloc", "enqueue", "emplace", "wait"}
  BY Zenon DEF AFInv, QueueTypes, ServerTypes, WorkerEvents, ProgramTypes
<1>1. gpu <= gpu /\ \A s \in Servers : server_gpu[s] <= server_gpu[s]
  BY <1>0
<1>2. CASE KVProgram /\ UNCHANGED afVars
  BY <1>2 DEF KVProgram, Call, Wait
<1>3. CASE Grow /\ UNCHANGED afVars
  BY <1>0, <1>1, <1>3, AFQuiet DEF Grow, Running
<1>4. CASE WaitAborts /\ UNCHANGED afVars
  BY <1>0, <1>1, <1>4, AFQuiet DEF WaitAborts, Running
<1>5. CASE CountResponse /\ UNCHANGED afVars
  BY <1>5, AFCountResponse
<1>6. ~CallNewRequest /\ ~Send /\ ~WaitReturns /\ \A s \in Servers : ~Process(s)
  BY <1>0 DEF CallNewRequest, Send, WaitReturns, Process
<1>7. CASE KVStep /\ UNCHANGED afVars
  <2>1. ASSUME NEW s \in Servers, ProcessResponse(s)
        PROVE  Shared' /\ AFInv'
    BY <1>7, <2>1, AFProcessResponse
  <2> QED
    BY <1>3, <1>4, <1>5, <1>6, <1>7, <2>1 DEF KVStep
<1>8. CASE Program
  BY <1>2, <1>8, AFCallBatch, AFWaitBatch, AFDestroyWorker, AFDestroyServer DEF Program
<1>9. ASSUME NEW s \in Servers, CheckResponseStop(s)
      PROVE  Shared' /\ AFInv'
  BY <1>0, <1>1, <1>9, AFQuiet DEF CheckResponseStop, Running
<1>10. CASE Step
  <2>1. ASSUME AllocTimestamp \/ Enqueue \/ Emplace \/ WaitNext
        PROVE  Shared' /\ AFInv'
    BY <2>1, AFAllocTimestamp, AFEnqueue, AFEmplace, AFWaitNext
  <2>2. ASSUME CheckStop \/ PopRequest \/ SendBatch
        PROVE  Shared' /\ AFInv'
    BY <2>2, AFCheckStop, AFPopRequest, AFSendBatch
  <2>3. ASSUME NEW s \in Servers, KVHandler(s) \/ RespondSingle(s) \/ PopResponse(s)
        PROVE  Shared' /\ AFInv'
    BY <2>3, AFKVHandler, AFRespondSingle, AFPopResponse
  <2>4. ASSUME NEW s \in Servers, NEW k \in DOMAIN pending[s], RespondVec(s, k)
        PROVE  Shared' /\ AFInv'
    BY <2>4, AFRespondVec
  <2> QED
    BY <1>7, <1>9, <1>10, <2>1, <2>2, <2>3, <2>4 DEF Step
<1>11. CASE GPUStep
  <2>1. /\ ~raced /\ UNCHANGED afProofVars /\ raced' = raced
    BY <1>11 DEF GPUStep, Running
  <2>2. CASE /\ gpu < submitted /\ gpu' = gpu + 1 /\ UNCHANGED server_gpu
    <3>1. gpu' \in Nat /\ gpu <= gpu' /\ gpu' <= submitted
      BY <2>2, <1>0
    <3> QED
      BY <2>1, <2>2, <3>1, <1>0, <1>1, AFQuiet, Zenon
  <2>3. ASSUME NEW s \in Servers, server_gpu' = [server_gpu EXCEPT ![s] = @ + 1], UNCHANGED gpu
        PROVE  Shared' /\ AFInv'
    <3>1. /\ server_gpu' \in [Servers -> Nat]
          /\ \A t \in Servers : server_gpu[t] <= server_gpu'[t]
      BY <2>3, <1>0
    <3> QED
      BY <2>1, <2>3, <3>1, <1>0, <1>1, AFQuiet, Zenon
  <2> QED
    BY <1>11, <2>2, <2>3 DEF GPUStep
<1>12. CASE Fault
  <2>1. ASSUME Timeout, UNCHANGED afVars
        PROVE  Shared' /\ AFInv'
    BY <2>1, <1>0, <1>1, AFQuiet, Zenon DEF Timeout, Running
  <2>2. ASSUME NEW s \in Servers, Crash(s), UNCHANGED afVars
        PROVE  Shared' /\ AFInv'
    BY <2>2, <1>0, <1>1, AFQuiet, Zenon DEF Crash, Running
  <2> QED
    BY <1>12, <2>1, <2>2 DEF Fault
<1> QED
  BY <1>8, <1>10, <1>11, <1>12 DEF Next

(* The initial states.                                                     *)
LEMMA InitIInv ==
    ASSUME Init
    PROVE  IInv
<1> USE DEF Init, KVInit
<1>1. /\ Timestamps = {} /\ Len(tracker) = 0 /\ tracker = <<>> /\ requests = <<>>
      /\ num_servers \in ServerCounts /\ app \in Apps /\ MaxRequests[num_servers] \in Nat
  BY KVAssumption DEF Timestamps
<1>2. /\ to_server \in [Servers -> {<<>>}] /\ to_worker \in [Servers -> {<<>>}]
      /\ pending \in [Servers -> {<<>>}] /\ response_queue \in [Servers -> {<<>>}]
      /\ batch_data \in [Servers -> {<<>>}]
  OBVIOUS
<1>3. /\ \A s \in Servers : /\ to_server[s] = <<>> /\ to_worker[s] = <<>> /\ pending[s] = <<>>
                            /\ response_queue[s] = <<>> /\ batch_data[s] = <<>>
      /\ pc = "idle" /\ waited = {} /\ rcv = Null /\ ~raced
  OBVIOUS
<1>4. DOMAIN <<>> = {} /\ Len(<<>>) = 0
  OBVIOUS
<1>5. Shared
  <2>1. Types
    <3>1. /\ tracker \in Seq(Counter) /\ to_worker \in [Servers -> Seq(KVReply \union Reply)]
      BY <1>1, <1>2
    <3>2. /\ recv_kvs \in [0 .. MaxRequests[num_servers] - 1 -> Seq(Part)]
          /\ \A ts \in DOMAIN recv_kvs : recv_kvs[ts] = <<>>
      OBVIOUS
    <3> QED
      BY <1>1, <1>3, <3>1, <3>2 DEF Types
  <2>2. Counted /\ WaitedFinished
    BY <1>1, <1>3 DEF Counted, WaitedFinished
  <2>3. Once
    BY <1>3, <1>4 DEF Once
  <2>4. RaceNeedsOverlap
    BY <1>3 DEF RaceNeedsOverlap
  <2> QED
    BY <2>1, <2>2, <2>3, <2>4 DEF Shared
<1>6. KVInv
  <2>1. KVAlone
    BY <1>3 DEF KVAlone, Loop
  <2>2. KVTypes
    <3>1. requests \in Seq(KVRequest) /\ to_server \in [Servers -> Seq(KVMessage)]
          /\ store \in [Servers -> SUBSET Nat]
      BY <1>1, <1>2
    <3> QED
      BY <1>1, <1>3, <3>1 DEF KVTypes
  <2>3. KVMessages
    BY <1>3, <1>4 DEF KVMessages
  <2>4. KVSeen /\ KVGot
    BY <1>1 DEF KVSeen, KVGot
  <2> QED
    BY <2>1, <2>2, <2>3, <2>4 DEF KVInv
<1>7. FreeEvent \in Event /\ FreeEvent.released
  BY DEF FreeEvent, Event
<1>8. /\ [i \in 1 .. NumEvents |-> FreeEvent] \in Seq(Event)
      /\ InUse([i \in 1 .. NumEvents |-> FreeEvent]) = {}
  <2>1. NumEvents \in Nat
    BY AFAssumption
  <2>2. [i \in 1 .. NumEvents |-> FreeEvent] \in [1 .. NumEvents -> Event]
    BY <1>7
  <2> QED
    BY <2>1, <2>2, <1>7 DEF InUse
<1>9. AFInv
  <2>1. /\ pushpull_queue = <<>> /\ sender.at = "pop" /\ Enqueued = 0 /\ ~pushpull_stop
        /\ batch_timestamps = {} /\ \A s \in Servers : ~response_stop[s]
    BY <1>1, <1>3 DEF Enqueued, Loop
  <2>2. Sent = 0
    BY <2>1, <1>4 DEF Sent, QueueFirst
  <2>3. \A s \in Servers : Handled(s) = 0 /\ Begun(s) = 0
    <3>1. ASSUME NEW s \in Servers
          PROVE  Len(to_server[s]) = 0 /\ Len(batch_data[s]) = 0
      BY <1>3, <1>4
    <3> HIDE DEF Init, KVInit
    <3> QED
      BY <2>2, <3>1 DEF Handled, Begun
  <2>4. ProgramTypes
    <3>1. requests \in Seq(AFRequest)
      BY <1>1
    <3> QED
      BY <1>1, <1>3, <3>1 DEF ProgramTypes
  <2>5. QueueTypes
    <3>1. pushpull_queue \in Seq(Item) /\ pushpull_stop \in BOOLEAN
      <4>1. pushpull_queue = <<>> /\ pushpull_stop = FALSE
        OBVIOUS
      <4>2. <<>> \in Seq(Item)
        OBVIOUS
      <4> QED
        BY ONLY <4>1, <4>2, Zenon
    <3>2. Empty \in Item
      BY DEF Empty, Item
    <3>3. sender \in [at : {"check", "pop", "send", "ended"}, next : Nat, req : Item]
      BY <3>2 DEF Loop
    <3> QED
      BY <3>1, <3>3, <1>8 DEF QueueTypes
  <2>6. ServerTypes
    <3>1. /\ to_server \in [Servers -> Seq(Request)] /\ batch_data \in [Servers -> Seq(Request)]
          /\ pending \in [Servers -> Seq(Seq(Request))]
          /\ response_queue \in [Servers -> Seq(ResponseItem)]
      BY <1>2
    <3>2. /\ response_stop \in [Servers -> BOOLEAN]
          /\ server_submitted \in [Servers -> Nat] /\ server_gpu \in [Servers -> Nat]
      OBVIOUS
    <3>3. server_events \in [Servers -> Seq(Event)]
      BY <1>8
    <3> QED
      BY <3>1, <3>2, <3>3, Zenon DEF ServerTypes
  <2>7. Calls /\ Parts
    BY <1>1, Zenon DEF Calls, Parts
  <2>8. Waits
    BY <1>3, <2>1, Zenon DEF Waits, Stopping
  <2>9. Chain
    BY <2>1, <1>4, Zenon DEF Chain
  <2>10. InOrder
    BY <2>1, <2>3, <1>3, <1>4 DEF InOrder
  <2>11. Waiting /\ Responses /\ Answers
    BY <1>3, <1>4, Zenon DEF Waiting, Responses, Answers
  <2>12. WorkerEvents
    <3>1. gpu = 0 /\ submitted = 0 /\ InUse(events) = {}
      BY <1>8, Zenon
    <3> HIDE DEF Init, KVInit
    <3> QED
      BY <2>1, <1>4, <3>1 DEF WorkerEvents
  <2>13. ServerEvents
    <3>1. ASSUME NEW s \in Servers
          PROVE  PoolKept(s)
      <4>1. InUse(server_events[s]) = {}
        BY <1>8, Zenon
      <4>2. Recorded(s) = {}
        BY <1>3, <1>4, Zenon DEF Recorded
      <4>3. Orphans(s) = {}
        BY <4>1, Zenon DEF Orphans
      <4>4. SinglePulls = {}
        BY <1>1, Zenon DEF SinglePulls
      <4>5. AnsweredPulls(s) = {}
        BY <4>4, Zenon DEF AnsweredPulls
      <4>6. Cardinality({}) <= Cardinality({})
        BY FS_EmptySet
      <4> QED
        BY <4>1, <4>2, <4>3, <4>5, <4>6, <1>3, <1>4, Zenon DEF PoolKept
    <3> QED
      BY <3>1 DEF ServerEvents
  <2> QED
    BY <2>4, <2>5, <2>6, <2>7, <2>8, <2>9, <2>10, <2>11, <2>12, <2>13 DEF AFInv
<1> QED
  BY <1>5, <1>6, <1>9, Zenon DEF IInv

(* A process has one application.                                          *)
LEMMA AppFixed ==
    ASSUME [Next]_vars
    PROVE  app' = app
<1> USE DEF confVars, kvVars
<1>1. CASE Program
  BY <1>1, Zenon DEF Program, KVProgram, Call, Wait, CallBatch, WaitBatch, DestroyWorker, DestroyServer
<1>2. CASE KVStep
  BY <1>2, Zenon DEF KVStep, Grow, CallNewRequest, Send, WaitReturns, WaitAborts, CountResponse,
              Process, ProcessResponse
<1>3. CASE AllocTimestamp \/ Enqueue \/ Emplace \/ WaitNext
  BY <1>3, Zenon DEF AllocTimestamp, Enqueue, Emplace, WaitNext
<1>4. CASE CheckStop \/ PopRequest \/ SendBatch
  BY <1>4, Zenon DEF CheckStop, PopRequest, SendBatch
<1>5. ASSUME NEW s \in Servers, KVHandler(s) \/ RespondSingle(s) \/ CheckResponseStop(s)
      PROVE  app' = app
  BY <1>5, Zenon DEF KVHandler, RespondSingle, CheckResponseStop
<1>6. ASSUME NEW s \in Servers, PopResponse(s) \/ \E k \in DOMAIN pending[s] : RespondVec(s, k)
      PROVE  app' = app
  BY <1>6, Zenon DEF PopResponse, RespondVec
<1>7. CASE GPUStep \/ Fault
  BY <1>7, Zenon DEF GPUStep, Fault, Timeout, Crash
<1>8. CASE UNCHANGED vars
  BY <1>8 DEF vars
<1> QED
  BY <1>1, <1>2, <1>3, <1>4, <1>5, <1>6, <1>7, <1>8, Zenon DEF Next, Step

(* Every step, and every step of something else, preserves the invariant.  *)
LEMMA NextIInv ==
    ASSUME IInv, [Next]_vars
    PROVE  IInv'
<1>1. app' = app /\ app \in {"kv", "af"} /\ Shared
  BY AppFixed, KVAssumption, Zenon DEF IInv, Shared, Types
<1>2. CASE app = "kv" /\ Next
  BY <1>1, <1>2, KVNext DEF IInv
<1>3. CASE app = "af" /\ Next
  BY <1>1, <1>3, AFNext DEF IInv
<1>4. CASE app = "kv" /\ UNCHANGED vars
  <2> USE DEF vars, kvProofVars, confVars, tableVars, endVars, programVars, pullVars, netVars,
              peerVars, kvVars, afVars, workerVars, senderVars, serverVars
  <2>1. KVInv /\ KVTypes
    BY <1>4, Zenon DEF IInv, KVInv
  <2>2. waited \subseteq Timestamps /\ \A ts \in waited : Finished(ts)
    BY <1>1, Zenon DEF Shared, Types, WaitedFinished
  <2>3. Shared' /\ KVInv'
    BY <1>1, <1>4, <2>1, <2>2, KVProgramSteps, Zenon DEF KVTypes
  <2> QED
    BY <1>1, <1>4, <2>3, Zenon DEF IInv
<1>5. CASE app = "af" /\ UNCHANGED vars
  <2> USE DEF vars, afProofVars, confVars, tableVars, endVars, programVars, pullVars, netVars,
              peerVars, kvVars, afVars, workerVars, senderVars, gpuVars, serverVars,
              responderVars, sgpuVars
  <2>1. AFInv /\ gpu \in Nat /\ gpu <= submitted /\ server_gpu \in [Servers -> Nat]
    BY <1>5, Zenon DEF IInv, AFInv, QueueTypes, ServerTypes, WorkerEvents
  <2>2. gpu <= gpu /\ \A s \in Servers : server_gpu[s] <= server_gpu[s]
    BY <2>1
  <2>3. UNCHANGED afProofVars /\ gpu' = gpu /\ server_gpu' = server_gpu /\ raced' = raced
    BY <1>5, Zenon
  <2>4. Shared' /\ AFInv'
    BY <1>1, <1>5, <2>1, <2>2, <2>3, AFQuiet, Zenon
  <2> QED
    BY <1>1, <1>5, <2>4, Zenon DEF IInv
<1> QED
  BY <1>1, <1>2, <1>3, <1>4, <1>5

-----------------------------------------------------------------------------
(***************************************************************************)
(* The invariant holds for every number of servers, every bound and every  *)
(* set of calls of AFAssumption, with crashes and timeouts.                *)
(***************************************************************************)
THEOREM Invariant == Spec => []IInv
<1>1. Init => IInv
  BY InitIInv
<1>2. IInv /\ [Next]_vars => IInv'
  BY NextIInv
<1> QED
  BY <1>1, <1>2, PTL DEF Spec

(***************************************************************************)
(* The receiving thread meets a tracker_ that NewRequest is moving only    *)
(* while a request is not waited for.                                      *)
(***************************************************************************)
THEOREM RaceNeedsOverlapHolds == Spec => []RaceNeedsOverlap
<1>1. IInv => RaceNeedsOverlap
  BY DEF IInv, Shared
<1> QED
  BY <1>1, Invariant, PTL

(***************************************************************************)
(* KVWorker::Wait of a push returns after every server with keys of it has *)
(* added it; that of a pull with one part from each of them, which has all *)
(* the pushes that were waited for before the pull was called.             *)
(***************************************************************************)
THEOREM PartsReceivedHolds == Spec => []PartsReceived
<1>1. ASSUME IInv
      PROVE  PartsReceived
  <2> SUFFICES ASSUME app = "kv", NEW ts \in waited, NEW s \in requests[ts + 1].slice
               PROVE  /\ requests[ts + 1].op = "push" => ts \in store[s]
                      /\ requests[ts + 1].op = "pull" /\ ts \notin filled =>
                            /\ Cardinality(Got(ts, s)) = 1
                            /\ \A i \in Got(ts, s) : Mine(ts, s) \subseteq recv_kvs[ts][i].val
    BY Zenon DEF PartsReceived, Got
  <2>1. Types /\ Counted /\ WaitedFinished /\ KVTypes /\ KVGot
    BY <1>1 DEF IInv, Shared, KVInv
  <2>2. ts \in Timestamps /\ s \in Servers
    BY <2>1 DEF Types, KVTypes
  <2>3. Unanswered(ts) = {}
    BY <2>1, <2>2, FinishedAnswered DEF WaitedFinished
  <2>4. ~KVOwes(s, ts) /\ ~Out(s, ts)
    BY <2>2, <2>3 DEF Unanswered, Owes
  <2> QED
    BY <2>1, <2>2, <2>4 DEF KVGot
<1> QED
  BY <1>1, Invariant, PTL

(***************************************************************************)
(* AFTensorWorker::Wait returns after every server has acknowledged every  *)
(* push and sent every pull of the call, computed from its pushes alone.   *)
(***************************************************************************)
THEOREM BatchAnsweredHolds == Spec => []BatchAnswered
<1>1. ASSUME IInv
      PROVE  BatchAnswered
  <2> SUFFICES ASSUME app = "af", NEW h \in waited, NEW ts \in TimestampsOf(BatchAt(h))
               PROVE  /\ Finished(ts)
                      /\ ts \notin PushTs(BatchAt(h)) /\ Cmd(BatchAt(h), ts) # "single" =>
                            /\ Len(recv_kvs[ts]) = num_servers
                            /\ \A i \in DOMAIN recv_kvs[ts] :
                                  recv_kvs[ts][i].val = PushTs(BatchAt(h))
    BY Zenon DEF BatchAnswered, BatchAt, PushTs
  <2>1. Types /\ Counted /\ WaitedFinished /\ Waits /\ Parts /\ Calls
    BY <1>1 DEF IInv, Shared, AFInv
  <2>2. ts \in waited /\ ts \in Timestamps /\ h \in Timestamps
    BY <2>1 DEF Types, Waits
  <2>3. Finished(ts) /\ Taken(ts) = 0
    BY <2>1, <2>2, FinishedAnswered DEF WaitedFinished
  <2>4. /\ BatchAt(ts) = BatchAt(h) /\ BatchAt(h) \in Batch
        /\ requests[ts + 1].op = IF ts < BatchAt(ts).first + BatchAt(ts).push
                                 THEN "push" ELSE "pull"
    BY <2>1, <2>2 DEF Calls, GoodBatch
  <2>5. ts \notin PushTs(BatchAt(h)) => requests[ts + 1].op = "pull"
    <3>1. /\ BatchAt(h).first \in Nat /\ BatchAt(h).push \in Nat
          /\ ts \in Nat /\ ts >= BatchAt(h).first
      BY <2>1, <2>2, <2>4, Numbers DEF Batch, TimestampsOf, Timestamps, Size
    <3> QED
      BY <2>4, <3>1 DEF PushTs
  <2>6. tracker[ts + 1].response_count = num_servers
    BY <2>1, <2>2, <2>3, Entries DEF Finished
  <2>7. num_servers \in Nat
    BY <2>1, Numbers
  <2> QED
    BY <2>1, <2>2, <2>3, <2>4, <2>5, <2>6, <2>7 DEF Parts, Single
<1> QED
  BY <1>1, Invariant, PTL

(***************************************************************************)
(* PushPullWorker and ResponseWorker send a tensor of a batch only after   *)
(* the work it comes from: events that are reused are not mixed up, and    *)
(* the event of the first response of respond_vec covers the others.       *)
(***************************************************************************)
THEOREM SentReadyHolds == Spec => []SentReady
<1>1. ASSUME IInv
      PROVE  SentReady
  <2> SUFFICES ASSUME app = "af", NEW s \in Servers
               PROVE  /\ \A i \in DOMAIN to_server[s] : to_server[s][i].ready
                      /\ \A i \in DOMAIN to_worker[s] :
                            ~Single(to_worker[s][i].ts) => to_worker[s][i].ready
    BY Zenon DEF SentReady, Single, BatchAt
  <2>1. InOrder /\ Answers
    BY <1>1 DEF IInv, AFInv
  <2>2. \A ts : Message(ts).ready
    BY DEF Message
  <2> QED
    BY <2>1, <2>2 DEF InOrder, Answers
<1> QED
  BY <1>1, Invariant, PTL

(***************************************************************************)
(* GetEvent and Release: an occupied event of the worker belongs to a      *)
(* request in its queue; those of a server are at most as many as the      *)
(* queued responses with an event and the pulls that were answered alone.  *)
(***************************************************************************)
THEOREM EventsAccountedHolds == Spec => []EventsAccounted
<1>1. ASSUME IInv, app = "af"
      PROVE  InUse(events) = {pushpull_queue[i].event : i \in DOMAIN pushpull_queue} \ {0}
  <2>1. WorkerEvents /\ Chain /\ QueueTypes
    BY <1>1 DEF IInv, AFInv
  <2>2. 0 \notin DOMAIN events
    BY <2>1 DEF QueueTypes
  <2>3. Empty.event = 0
    BY DEF Empty
  <2>4. ASSUME NEW i \in DOMAIN pushpull_queue, pushpull_queue[i].event # 0
        PROVE  pushpull_queue[i].event \in InUse(events)
    <3>1. pushpull_queue[i] # Empty
      BY <2>3, <2>4
    <3>2. /\ pushpull_queue[i].event \in DOMAIN events
          /\ events[pushpull_queue[i].event] =
                [released |-> FALSE, recorded |-> pushpull_queue[i].work]
      BY <2>1, <3>1 DEF WorkerEvents
    <3>3. ~events[pushpull_queue[i].event].released
      BY <3>2
    <3> QED
      BY <3>2, <3>3 DEF InUse
  <2>5. ASSUME NEW e \in InUse(events)
        PROVE  e # 0 /\ \E i \in DOMAIN pushpull_queue : pushpull_queue[i].event = e
    BY <2>1, <2>2 DEF WorkerEvents, InUse
  <2> QED
    BY <2>4, <2>5
<1>2. ASSUME IInv, app = "af", NEW s \in Servers
      PROVE  Cardinality(InUse(server_events[s])) <=
                  Cardinality({i \in DOMAIN response_queue[s] :
                                  response_queue[s][i].event # 0})
                    + Cardinality(SinglePulls)
  <2>1. ServerTypes /\ Types /\ PoolKept(s)
    BY <1>2 DEF IInv, AFInv, Shared, ServerEvents
  <2> DEFINE I == {i \in DOMAIN response_queue[s] : response_queue[s][i].event # 0}
             f == [i \in I |-> response_queue[s][i].event]
  <2>2. IsFiniteSet(I)
    <3>1. response_queue[s] \in Seq(ResponseItem)
      BY <2>1 DEF ServerTypes
    <3>2. IsFiniteSet(DOMAIN response_queue[s])
      BY <3>1, FS_Interval
    <3> QED
      BY <3>2, FS_Subset
  <2>3. f \in Surjection(I, Recorded(s))
    BY Zenon DEF Surjection, Recorded
  <2>4. IsFiniteSet(Recorded(s)) /\ Cardinality(Recorded(s)) <= Cardinality(I)
    BY <2>2, <2>3, FS_Surjection
  <2>5. IsFiniteSet(Orphans(s)) /\ Cardinality(Orphans(s)) <= Cardinality(AnsweredPulls(s))
    BY <2>1, PoolFinite, Zenon DEF PoolKept
  <2>6. IsFiniteSet(SinglePulls)
    <3>1. IsFiniteSet(Timestamps)
      BY <2>1, Numbers, FS_Interval DEF Timestamps
    <3> QED
      BY <3>1, FS_Subset DEF SinglePulls
  <2>7. /\ IsFiniteSet(AnsweredPulls(s))
        /\ Cardinality(AnsweredPulls(s)) <= Cardinality(SinglePulls)
    <3>1. AnsweredPulls(s) \subseteq SinglePulls
      BY DEF AnsweredPulls
    <3> QED
      BY <2>6, <3>1, FS_Subset
  <2>8. /\ InUse(server_events[s]) = Recorded(s) \union Orphans(s)
        /\ Recorded(s) \intersect Orphans(s) = {}
    BY <2>1, Zenon DEF PoolKept, Orphans
  <2>9. Cardinality(InUse(server_events[s])) = Cardinality(Recorded(s)) + Cardinality(Orphans(s))
    <3>1. Cardinality({}) = 0
      BY FS_EmptySet
    <3>2. Cardinality(Recorded(s)) \in Nat /\ Cardinality(Orphans(s)) \in Nat
      BY <2>4, <2>5, FS_CardinalityType, Zenon
    <3>3. Cardinality(Recorded(s) \union Orphans(s)) =
              Cardinality(Recorded(s)) + Cardinality(Orphans(s))
                - Cardinality(Recorded(s) \intersect Orphans(s))
      BY <2>4, <2>5, FS_Union
    <3>4. /\ Cardinality(Recorded(s) \intersect Orphans(s)) = 0
          /\ Cardinality(InUse(server_events[s])) = Cardinality(Recorded(s) \union Orphans(s))
      BY <2>8, <3>1
    <3> QED
      BY <3>2, <3>3, <3>4
  <2>10. /\ Cardinality(Recorded(s)) \in Nat /\ Cardinality(Orphans(s)) \in Nat
         /\ Cardinality(AnsweredPulls(s)) \in Nat /\ Cardinality(SinglePulls) \in Nat
         /\ Cardinality(I) \in Nat
    BY <2>2, <2>4, <2>5, <2>6, <2>7, FS_CardinalityType, Zenon
  <2> HIDE DEF I
  <2>11. Cardinality(InUse(server_events[s])) <= Cardinality(I) + Cardinality(SinglePulls)
    BY <2>4, <2>5, <2>7, <2>9, <2>10
  <2> QED
    BY <2>11 DEF I
<1>3. IInv => EventsAccounted
  BY <1>1, <1>2, Zenon DEF EventsAccounted
<1> QED
  BY <1>3, Invariant, PTL

(***************************************************************************)
(* ~AFTensorServer after the program has waited for its calls: the queue   *)
(* of ResponseWorker, which drops what it pops from then on, holds only    *)
(* the empty response.                                                     *)
(***************************************************************************)
THEOREM NothingDroppedHolds == Spec => []NothingDropped
<1>1. ASSUME IInv, NEW s \in Servers, response_stop[s],
             NEW i \in DOMAIN response_queue[s]
      PROVE  response_queue[s][i].msg = Null
  <2>1. Shared /\ app \in {"kv", "af"}
    BY <1>1, KVAssumption, Zenon DEF IInv, Shared, Types
  <2>2. app = "af" /\ AFInv
    <3>1. app = "kv" => response_queue[s] = <<>>
      BY <1>1 DEF IInv, KVInv, KVAlone
    <3>2. DOMAIN <<>> = {}
      OBVIOUS
    <3> QED
      BY <1>1, <2>1, <3>1, <3>2 DEF IInv
  <2>3. AllWaited
    BY <1>1, <2>2 DEF AFInv, Waits, Stopping
  <2> QED
    BY <2>1, <2>2, <2>3, AllAnswered, Zenon
<1>2. IInv => NothingDropped
  BY <1>1 DEF NothingDropped
<1> QED
  BY <1>2, Invariant, PTL

=============================================================================
