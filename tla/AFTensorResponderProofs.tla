----------------------- MODULE AFTensorResponderProofs -----------------------
(***************************************************************************)
(* The invariant of AFTensorAppInv, third part: what the servers do with   *)
(* the calls they have collected.  The program responds, and the responder *)
(* takes the response off its queue.                                       *)
(***************************************************************************)
EXTENDS KVAppProofs

-----------------------------------------------------------------------------
(* The servers.                                                            *)
(* A step of a server leaves the program and the sending thread alone.     *)
LEMMA ServerFrame ==
    ASSUME UNCHANGED serverFrame
    PROVE  /\ Servers' = Servers /\ Timestamps' = Timestamps /\ Enqueued' = Enqueued
           /\ Sent' = Sent /\ SinglePulls' = SinglePulls
           /\ \A ts : /\ BatchAt(ts)' = BatchAt(ts) /\ Message(ts)' = Message(ts)
                      /\ Single(ts)' <=> Single(ts)
           /\ \A b : Whole(b)' = Whole(b)
<1>1. Servers' = Servers /\ Timestamps' = Timestamps /\ Enqueued' = Enqueued
  BY DEF serverFrame, Servers, Timestamps, Enqueued
<1>2. Sent' = Sent
  BY <1>1 DEF serverFrame, Sent, QueueFirst
<1>3. SinglePulls' = SinglePulls
  BY DEF serverFrame, SinglePulls, Timestamps, Cmd
<1> QED
  BY <1>1, <1>2, <1>3, FrameMessages, Zenon DEF serverFrame

(* What remains to be shown for a step of a server.                        *)
LEMMA AFServerStep ==
    ASSUME Shared, AFInv, app = "af", UNCHANGED serverFrame,
           Shared', ServerTypes', InOrder', Waiting', Responses', Answers', ServerEvents'
    PROVE  Shared' /\ AFInv'
<1> USE DEF AFInv
<1>0. UNCHANGED <<app, num_servers, tracker, requests, pc, cur, waited, recv_kvs, rcv,
                  pushpull_queue, batch_timestamps, pushpull_stop, sender, submitted, gpu,
                  events, response_stop, server_gpu>>
  BY DEF serverFrame
<1>1. ProgramTypes' /\ Calls' /\ Waits' /\ Enqueued' = Enqueued
  <2>1. \A ts : Finished(ts)' <=> Finished(ts)
    BY <1>0 DEF Finished
  <2> QED
    BY <1>0, <2>1, FrameProgram, Zenon DEF Shared
<1>2. Chain'
  BY <1>0, <1>1, FrameChain, Zenon
<1>3. Parts'
  BY <1>0, FrameParts
<1>4. QueueTypes' /\ WorkerEvents'
  BY <1>0 DEF QueueTypes, WorkerEvents, InUse
<1> QED
  BY <1>1, <1>2, <1>3, <1>4

(* What is to be shown after a step of a server, with the state before it. *)
LEMMA InOrderNext ==
    ASSUME UNCHANGED serverFrame,
           \A t \in Servers : \A h, g : h = Handled(t)' /\ g = Begun(t)' =>
              /\ g >= 0
              /\ \A i \in DOMAIN to_server'[t] : to_server'[t][i] = Message(h + i - 1)
              /\ \A i \in DOMAIN batch_data'[t] : batch_data'[t][i] = Message(g + i - 1)
              /\ g < Enqueued => BatchAt(g).first = g
              /\ batch_data'[t] # <<>> => h <= LastOf(BatchAt(g))
    PROVE  InOrder'
<1>1. /\ Servers' = Servers /\ Enqueued' = Enqueued
      /\ \A ts : BatchAt(ts)' = BatchAt(ts) /\ Message(ts)' = Message(ts)
  BY ServerFrame, Zenon
<1>2. ASSUME NEW t \in Servers
      PROVE  (/\ Begun(t) >= 0
              /\ \A i \in DOMAIN to_server[t] : to_server[t][i] = Message(Handled(t) + i - 1)
              /\ \A i \in DOMAIN batch_data[t] : batch_data[t][i] = Message(Begun(t) + i - 1)
              /\ Begun(t) < Enqueued => BatchAt(Begun(t)).first = Begun(t)
              /\ batch_data[t] # <<>> => Handled(t) <= LastOf(BatchAt(Begun(t))))'
  <2>1. PICK h, g : h = Handled(t)' /\ g = Begun(t)'
    BY Zenon
  <2>2. /\ g >= 0
        /\ \A i \in DOMAIN to_server'[t] : to_server'[t][i] = Message(h + i - 1)'
        /\ \A i \in DOMAIN batch_data'[t] : batch_data'[t][i] = Message(g + i - 1)'
        /\ g < Enqueued => BatchAt(g)'.first = g
        /\ batch_data'[t] # <<>> => h <= LastOf(BatchAt(g)')
    BY <2>1, <1>1
  <2>3. LastOf(BatchAt(g))' = LastOf(BatchAt(g)')
    BY Zenon DEF LastOf, Size
  <2>4. /\ g >= 0
        /\ \A i \in DOMAIN to_server'[t] : to_server'[t][i] = Message(h + i - 1)'
        /\ \A i \in DOMAIN batch_data'[t] : batch_data'[t][i] = Message(g + i - 1)'
        /\ g < Enqueued' => BatchAt(g)'.first = g
        /\ batch_data'[t] # <<>> => h <= LastOf(BatchAt(g))'
    BY <2>2, <2>3, <1>1, Zenon
  <2> QED
    BY <2>1, <2>4, Zenon
<1> QED
  BY <1>1, <1>2, Zenon DEF InOrder

(* The same for the waiting calls.                                         *)
LEMMA WaitingNext ==
    ASSUME UNCHANGED serverFrame,
           \A t \in Servers : \A i \in DOMAIN pending'[t] : \A u : u = pending'[t][i][1].ts =>
              /\ u \in Timestamps /\ BatchAt(u).first = u /\ LastOf(BatchAt(u)) < Begun(t)'
              /\ pending'[t][i] = Whole(BatchAt(u)),
           \A t \in Servers : \A i, j \in DOMAIN pending'[t] :
              i < j => PendingTs(t, i)' < PendingTs(t, j)'
    PROVE  Waiting'
<1>1. /\ Servers' = Servers /\ Timestamps' = Timestamps
      /\ \A ts : BatchAt(ts)' = BatchAt(ts)
      /\ \A b : Whole(b)' = Whole(b)
  BY ServerFrame, Zenon
<1>2. ASSUME NEW t \in Servers, NEW i \in DOMAIN pending'[t]
      PROVE  (LET u == pending[t][i][1].ts
              IN  /\ u \in Timestamps
                  /\ BatchAt(u).first = u /\ LastOf(BatchAt(u)) < Begun(t)
                  /\ pending[t][i] = Whole(BatchAt(u)))'
  <2>1. PICK u : u = pending'[t][i][1].ts
    BY Zenon
  <2>2. PICK b : b = BatchAt(u)
    BY Zenon
  <2>3. /\ u \in Timestamps' /\ b.first = u /\ LastOf(b) < Begun(t)'
        /\ pending'[t][i] = Whole(b)' /\ BatchAt(u)' = b
    BY <2>1, <2>2, <1>1
  <2>4. /\ u \in Timestamps' /\ BatchAt(u)'.first = u /\ LastOf(BatchAt(u))' < Begun(t)'
        /\ pending'[t][i] = Whole(BatchAt(u))'
    BY <2>3, Zenon DEF LastOf, Size
  <2> QED
    BY <2>1, <2>4, Zenon
<1> QED
  BY <1>1, <1>2, Zenon DEF Waiting

(* The same for the queued responses.                                      *)
LEMMA ResponsesNext ==
    ASSUME UNCHANGED serverFrame,
           \A t \in Servers : \A i \in DOMAIN response_queue'[t] :
              \A m : m = response_queue'[t][i].msg =>
                 /\ m = Null => response_stop[t] /\ response_queue'[t][i].event = 0
                 /\ m # Null =>
                       /\ m.ts \in Timestamps
                       /\ m.ts = LastOf(BatchAt(m.ts)) /\ m.ts < Begun(t)' /\ m = Message(m.ts)
                       /\ BatchAt(m.ts).pull = 1 /\ m.cmd # "single"
                       /\ response_queue'[t][i].val = PushTs(BatchAt(m.ts))
                       /\ \A j \in DOMAIN pending'[t] : m.ts < PendingTs(t, j)',
           \A t \in Servers : \A i, j \in DOMAIN response_queue'[t] :
              /\ i < j
              /\ response_queue'[t][i].msg # Null /\ response_queue'[t][j].msg # Null
              => response_queue'[t][i].msg.ts < response_queue'[t][j].msg.ts
    PROVE  Responses'
<1>1. /\ Servers' = Servers /\ Timestamps' = Timestamps
      /\ \A ts : BatchAt(ts)' = BatchAt(ts) /\ Message(ts)' = Message(ts)
      /\ response_stop' = response_stop
  BY ServerFrame, Zenon DEF serverFrame
<1>2. ASSUME NEW t \in Servers, NEW i \in DOMAIN response_queue'[t]
      PROVE  (LET m == response_queue[t][i].msg
                  b == BatchAt(m.ts)
              IN  IF m = Null THEN response_stop[t] /\ response_queue[t][i].event = 0
                  ELSE /\ m.ts \in Timestamps
                       /\ m.ts = LastOf(b) /\ m.ts < Begun(t) /\ m = Message(m.ts)
                       /\ b.pull = 1 /\ m.cmd # "single"
                       /\ response_queue[t][i].val = PushTs(b)
                       /\ \A j \in DOMAIN pending[t] : m.ts < PendingTs(t, j))'
  <2>1. PICK m : m = response_queue'[t][i].msg
    BY Zenon
  <2>2. CASE m = Null
    <3>1. response_stop'[t] /\ response_queue'[t][i].event = 0
      BY <2>1, <2>2, <1>1, Zenon
    <3> QED
      BY <2>1, <2>2, <3>1, Zenon
  <2>3. CASE m # Null
    <3>1. PICK b : b = BatchAt(m.ts)
      BY Zenon
    <3>2. /\ m.ts \in Timestamps' /\ BatchAt(m.ts)' = b
          /\ m.ts = LastOf(b) /\ m.ts < Begun(t)' /\ m = Message(m.ts)'
          /\ b.pull = 1 /\ m.cmd # "single"
          /\ response_queue'[t][i].val = PushTs(b)
          /\ \A j \in DOMAIN pending'[t] : m.ts < PendingTs(t, j)'
      BY <2>1, <2>3, <3>1, <1>1
    <3>3. /\ m.ts \in Timestamps'
          /\ m.ts = LastOf(BatchAt(m.ts))' /\ m.ts < Begun(t)' /\ m = Message(m.ts)'
          /\ BatchAt(m.ts)'.pull = 1 /\ m.cmd # "single"
          /\ response_queue'[t][i].val = PushTs(BatchAt(m.ts))'
          /\ \A j \in DOMAIN pending'[t] : m.ts < PendingTs(t, j)'
      BY <3>2, Zenon DEF LastOf, Size, PushTs
    <3> QED
      BY <2>1, <2>3, <3>3, Zenon
  <2> QED
    BY <2>2, <2>3, Zenon
<1> QED
  BY <1>1, <1>2, Zenon DEF Responses

(* Each pull that was answered alone is one of finitely many.              *)
LEMMA AnsweredFinite ==
    ASSUME Types, NEW s
    PROVE  IsFiniteSet(AnsweredPulls(s)) /\ IsFiniteSet(SinglePulls)
           /\ AnsweredPulls(s) \subseteq SinglePulls
<1>1. IsFiniteSet(Timestamps)
  <2>1. Len(tracker) \in Nat
    BY Numbers
  <2> QED
    BY <2>1, FS_Interval DEF Timestamps
<1>2. SinglePulls \subseteq Timestamps /\ AnsweredPulls(s) \subseteq SinglePulls
  BY Zenon DEF SinglePulls, AnsweredPulls
<1> QED
  BY <1>1, <1>2, FS_Subset

(* How many events and how many single pulls there are is finite.          *)
LEMMA PoolFinite ==
    ASSUME ServerTypes, NEW s \in Servers
    PROVE  /\ IsFiniteSet(InUse(server_events[s])) /\ IsFiniteSet(Orphans(s))
           /\ Cardinality(Orphans(s)) \in Nat
<1>1. server_events[s] \in Seq(Event)
  BY DEF ServerTypes
<1>2. IsFiniteSet(DOMAIN server_events[s])
  BY <1>1, FS_Interval
<1>3. /\ InUse(server_events[s]) \subseteq DOMAIN server_events[s]
      /\ Orphans(s) \subseteq DOMAIN server_events[s]
  BY DEF InUse, Orphans
<1> QED
  BY <1>2, <1>3, FS_Subset, FS_CardinalityType

(* The events of the other servers.                                        *)
LEMMA OtherPool ==
    ASSUME ServerEvents, UNCHANGED serverFrame, NEW t \in Servers,
           Recorded(t)' = Recorded(t), AnsweredPulls(t)' = AnsweredPulls(t),
           response_queue'[t] = response_queue[t], server_events'[t] = server_events[t]
    PROVE  PoolKept(t)'
<1>1. PoolKept(t)
  BY DEF ServerEvents
<1>2. server_gpu' = server_gpu
  BY Zenon DEF serverFrame
<1>3. InUse(server_events[t])' = InUse(server_events[t])
  BY DEF InUse
<1>4. Orphans(t)' = Orphans(t)
  BY <1>3 DEF Orphans
<1> QED
  BY <1>1, <1>2, <1>3, <1>4, Zenon DEF PoolKept

(* Server s is done with the first k of the waiting calls.                 *)
LEMMA PendingDropped ==
    ASSUME Types, AFInv, UNCHANGED serverFrame,
           NEW s \in Servers, NEW k, NEW n, Dropped(s, k, n)
    PROVE  /\ \A t : Handled(t)' = Handled(t) /\ Begun(t)' = Begun(t)
           /\ DOMAIN pending[s] = 1 .. n /\ DOMAIN pending'[s] = 1 .. n - k
           /\ \A i \in 1 .. n - k : PendingTs(s, i)' = PendingTs(s, i + k) /\ i + k \in 1 .. n
           /\ \A t \in Servers : t # s => \A i : PendingTs(t, i)' = PendingTs(t, i)
           /\ InOrder' /\ Waiting'
<1> USE DEF AFInv
<1>0. /\ k \in Nat /\ k <= n /\ n = Len(pending[s])
      /\ pending'[s] \in Seq(Seq(Request)) /\ Len(pending'[s]) = n - k
      /\ \A i \in 1 .. n - k : pending'[s][i] = pending[s][i + k]
      /\ \A t \in Servers : t # s => pending'[t] = pending[t]
      /\ UNCHANGED <<to_server, batch_data>>
  BY Zenon DEF Dropped
<1>1. \A t : Handled(t)' = Handled(t)
  BY <1>0, ServerFrame, Zenon DEF Handled
<1>2. \A t : Begun(t)' = Begun(t)
  BY <1>0, <1>1, Zenon DEF Begun
<1>3. /\ pending[s] \in Seq(Seq(Request)) /\ DOMAIN pending[s] = 1 .. n /\ n \in Nat
      /\ DOMAIN pending'[s] = 1 .. n - k
  BY <1>0 DEF ServerTypes
<1>4. \A i \in 1 .. n - k : i + k \in 1 .. n
  BY <1>0, <1>3
<1>5. \A i \in 1 .. n - k : PendingTs(s, i)' = PendingTs(s, i + k)
  BY <1>0, Zenon DEF PendingTs
<1>6. \A t \in Servers : t # s => \A i : PendingTs(t, i)' = PendingTs(t, i)
  BY <1>0, Zenon DEF PendingTs
<1>7. InOrder'
  <2>1. ASSUME NEW t \in Servers, NEW x, NEW y, x = Handled(t)', y = Begun(t)'
        PROVE  /\ y >= 0
               /\ \A i \in DOMAIN to_server'[t] : to_server'[t][i] = Message(x + i - 1)
               /\ \A i \in DOMAIN batch_data'[t] : batch_data'[t][i] = Message(y + i - 1)
               /\ y < Enqueued => BatchAt(y).first = y
               /\ batch_data'[t] # <<>> => x <= LastOf(BatchAt(y))
    <3>1. x = Handled(t) /\ y = Begun(t)
      BY <2>1, <1>1, <1>2, Zenon
    <3> QED
      BY <3>1, <1>0, Zenon DEF InOrder
  <2> QED
    BY <2>1, InOrderNext, Zenon
<1>8. Waiting'
  <2>1. ASSUME NEW t \in Servers, NEW i \in DOMAIN pending'[t]
        PROVE  \E j \in DOMAIN pending[t] : pending'[t][i] = pending[t][j]
    <3>1. CASE t # s
      BY <3>1, <1>0, Zenon
    <3>2. CASE t = s
      BY <3>2, <1>0, <1>3, <1>4, Zenon
    <3> QED
      BY <3>1, <3>2, Zenon
  <2>2. ASSUME NEW t \in Servers, NEW i \in DOMAIN pending'[t],
               NEW u, u = pending'[t][i][1].ts
        PROVE  /\ u \in Timestamps /\ BatchAt(u).first = u /\ LastOf(BatchAt(u)) < Begun(t)'
               /\ pending'[t][i] = Whole(BatchAt(u))
    <3>1. PICK j \in DOMAIN pending[t] : pending'[t][i] = pending[t][j]
      BY <2>1, Zenon
    <3>2. u = pending[t][j][1].ts
      BY <2>2, <3>1, Zenon
    <3>3. /\ u \in Timestamps /\ BatchAt(u).first = u /\ LastOf(BatchAt(u)) < Begun(t)
          /\ pending[t][j] = Whole(BatchAt(u))
      BY <3>2, Zenon DEF Waiting
    <3> QED
      BY <3>1, <3>3, <1>2, Zenon
  <2>3. ASSUME NEW t \in Servers, NEW i \in DOMAIN pending'[t], NEW j \in DOMAIN pending'[t], i < j
        PROVE  PendingTs(t, i)' < PendingTs(t, j)'
    <3>1. CASE t # s
      <4>1. pending'[t] = pending[t] /\ \A x : PendingTs(t, x)' = PendingTs(t, x)
        BY <3>1, <1>0, <1>6, Zenon
      <4>2. \A x, y \in DOMAIN pending[t] : x < y => PendingTs(t, x) < PendingTs(t, y)
        BY Zenon DEF Waiting
      <4> QED
        BY <4>1, <4>2, <2>3
    <3>2. CASE t = s
      <4>1. i + k \in DOMAIN pending[s] /\ j + k \in DOMAIN pending[s] /\ i + k < j + k
        <5>1. i \in 1 .. n - k /\ j \in 1 .. n - k
          BY <3>2, <1>3, Zenon
        <5>2. i + k \in DOMAIN pending[s] /\ j + k \in DOMAIN pending[s]
          BY <5>1, <1>3, <1>4, Zenon
        <5>3. k \in Nat /\ n \in Nat
          BY <1>0, <1>3, Zenon
        <5>4. i + k < j + k
          BY <5>1, <5>3, <2>3
        <5> QED
          BY <5>2, <5>4
      <4>2. PendingTs(s, i + k) < PendingTs(s, j + k)
        BY <4>1, Zenon DEF Waiting
      <4> QED
        <5>1. PendingTs(s, i)' = PendingTs(s, i + k) /\ PendingTs(s, j)' = PendingTs(s, j + k)
          BY <3>2, <1>3, <1>5, Zenon
        <5> QED
          BY <3>2, <4>2, <5>1, Zenon
    <3> QED
      BY <3>1, <3>2, Zenon
  <2> QED
    BY <2>2, <2>3, WaitingNext, Zenon
<1> QED
  BY <1>1, <1>2, <1>3, <1>4, <1>5, <1>6, <1>7, <1>8, Zenon

(* A server sends the answer a.                                            *)
LEMMA ReplyLeaves ==
    ASSUME Shared, AFInv, app = "af", UNCHANGED serverFrame, ~raced',
           NEW s \in Servers, NEW a \in Reply,
           to_worker' = [to_worker EXCEPT ![s] = Append(@, a)],
           a.ts \in Timestamps, a.op = requests[a.ts + 1].op,
           ~Single(a.ts) => a.ready,
           a.op = "pull" /\ ~Single(a.ts) => a.val = PushTs(BatchAt(a.ts)),
           AFOwes(s, a.ts), ~AFOwes(s, a.ts)',
           \A t \in Servers, ts \in Timestamps :
               t # s \/ ts # a.ts => (AFOwes(t, ts)' <=> AFOwes(t, ts))
    PROVE  Shared' /\ Answers'
<1>1. to_worker \in [Servers -> Seq(KVReply \union Reply)]
  BY Zenon DEF Shared, Types
<1>2. /\ to_worker' \in [Servers -> Seq(KVReply \union Reply)]
      /\ \A t \in Servers : t # s => to_worker'[t] = to_worker[t]
      /\ to_worker'[s] = Append(to_worker[s], a) /\ to_worker[s] \in Seq(KVReply \union Reply)
  BY <1>1
<1>3. /\ Servers' = Servers /\ Timestamps' = Timestamps
      /\ \A ts : BatchAt(ts)' = BatchAt(ts) /\ (Single(ts)' <=> Single(ts))
  BY ServerFrame, Zenon
<1>4. /\ app' = app /\ num_servers' = num_servers /\ tracker' = tracker /\ waited' = waited
      /\ rcv' = rcv /\ recv_kvs' = recv_kvs /\ requests' = requests
  BY Zenon DEF serverFrame
<1>5. Types'
  BY <1>2, <1>3, <1>4, Zenon DEF Types, Shared
<1>6. Shared'
  <2>1. \A t \in Servers, ts \in Timestamps : (Owes(t, ts) <=> AFOwes(t, ts))
    BY AFOwesIs, Zenon DEF Owes
  <2>2. \A t, ts : (Owes(t, ts)' <=> AFOwes(t, ts)')
    BY <1>4, Zenon DEF Owes
  <2>3. PICK x : x = a.ts
    BY Zenon
  <2>4. Owes(s, x) /\ ~Owes(s, x)'
    BY <2>1, <2>2, <2>3, Zenon
  <2> QED
    BY <1>4, <1>5, <2>1, <2>2, <2>3, <2>4, AnswerLeaves, Zenon
<1>7. ASSUME NEW t \in Servers, NEW i \in DOMAIN to_worker'[t]
      PROVE  (LET m == to_worker[t][i]
              IN  /\ m.op = requests[m.ts + 1].op
                  /\ ~Single(m.ts) => m.ready
                  /\ m.op = "pull" /\ ~Single(m.ts) => m.val = PushTs(BatchAt(m.ts)))'
  <2>1. PICK m : m = to_worker'[t][i]
    BY Zenon
  <2>2. \/ i \in DOMAIN to_worker[t] /\ m = to_worker[t][i]
        \/ m = a
    <3>1. CASE t # s
      BY <3>1, <2>1, <1>2, Zenon
    <3>2. CASE t = s
      BY <3>2, <2>1, <1>2
    <3> QED
      BY <3>1, <3>2, Zenon
  <2>3. /\ m.op = requests[m.ts + 1].op
        /\ ~Single(m.ts) => m.ready
        /\ m.op = "pull" /\ ~Single(m.ts) => m.val = PushTs(BatchAt(m.ts))
    <3>1. CASE i \in DOMAIN to_worker[t] /\ m = to_worker[t][i]
      BY <3>1, Zenon DEF AFInv, Answers
    <3>2. CASE m = a
      BY <3>2, Zenon
    <3> QED
      BY <2>2, <3>1, <3>2, Zenon
  <2>4. /\ m.op = requests'[m.ts + 1].op
        /\ ~Single(m.ts)' => m.ready
        /\ m.op = "pull" /\ ~Single(m.ts)' => m.val = PushTs(BatchAt(m.ts))'
    BY <2>3, <1>3, <1>4, Zenon DEF PushTs
  <2> QED
    BY <2>1, <2>4, Zenon
<1> QED
  BY <1>3, <1>6, <1>7, Zenon DEF Answers

(* The pull of a call, and the pushes that its answer is computed from.    *)
LEMMA WholePull ==
    ASSUME Types, AFInv, NEW t \in Timestamps, NEW b, b = BatchAt(t), b.first = t,
           LastOf(b) \in Timestamps, Cmd(b, t) # "single"
    PROVE  /\ PullOf(Whole(b)) = Message(LastOf(b)) /\ PushesOf(Whole(b)) = PushTs(b)
           /\ BatchAt(LastOf(b)) = b /\ b.pull = 1 /\ Cmd(b, LastOf(b)) # "single"
<1> USE DEF AFInv
<1>1. /\ t \in Nat /\ GoodBatch(b) /\ b \in Batch /\ LastOf(b) \in Nat
      /\ \A u \in Timestamps : u \in t .. LastOf(b) => BatchAt(u) = b
  BY CallAt, Zenon
<1>2. /\ b.push \in Nat /\ Size(b) \in Nat /\ LastOf(b) + 1 = t + Size(b)
      /\ t \in TimestampsOf(b) /\ LastOf(b) \in TimestampsOf(b)
  BY <1>1, BatchSizes, Zenon
<1>3. /\ b.pull = 1 /\ Cmd(b, LastOf(b)) # "single"
  <2>1. num_servers \in Nat \ {0}
    BY Numbers
  <2> QED
    BY <2>1, <1>1, <1>2, Flags
<1>4. Size(b) = b.push + 1 /\ LastOf(b) = t + b.push
  <2>1. Size(b) = b.push + 1
    BY <1>2, <1>3 DEF Size
  <2> QED
    BY <2>1, <1>1, <1>2
<1>5. /\ DOMAIN Whole(b) = 1 .. b.push + 1
      /\ \A k \in 1 .. b.push + 1 : Whole(b)[k] = Message(t + k - 1)
  BY <1>1, <1>4, WholeIs
<1>6. ASSUME NEW k \in 1 .. b.push + 1
      PROVE  /\ Whole(b)[k].ts = t + k - 1
             /\ Whole(b)[k].op = IF k = b.push + 1 THEN "pull" ELSE "push"
  <2>1. PICK u : u = t + k - 1
    OBVIOUS
  <2>3. u \in Timestamps
    <3>1. u \in Nat /\ u <= LastOf(b)
      BY <2>1, <1>1, <1>2, <1>4
    <3> QED
      BY <3>1, Numbers DEF Timestamps
  <2>4. BatchAt(u) = b
    BY <2>1, <2>3, <1>1, <1>2, <1>4
  <2>5. requests[u + 1].op = IF u < t + b.push THEN "push" ELSE "pull"
    BY <2>3, <2>4, CallAt, Zenon
  <2>6. Whole(b)[k] = Message(u)
    BY <2>1, <1>5
  <2>7. u < t + b.push <=> k # b.push + 1
    BY <2>1, <1>1, <1>2
  <2> QED
    BY <2>1, <2>5, <2>6, <2>7 DEF Message
<1>7. PullOf(Whole(b)) = Message(LastOf(b))
  <2>1. \A k \in DOMAIN Whole(b) : Whole(b)[k].op = "pull" <=> k = b.push + 1
    BY <1>5, <1>6
  <2>2. b.push + 1 \in DOMAIN Whole(b)
    BY <1>2, <1>5
  <2>3. PullOf(Whole(b)) = Whole(b)[b.push + 1]
    BY <2>1, <2>2 DEF PullOf
  <2>4. t + (b.push + 1) - 1 = LastOf(b)
    BY <1>1, <1>2, <1>4
  <2> QED
    BY <2>2, <2>3, <2>4, <1>5
<1>8. PushesOf(Whole(b)) = PushTs(b)
  <2>1. {j \in DOMAIN Whole(b) : Whole(b)[j].op = "push"} = 1 .. b.push
    <3>1. \A j \in DOMAIN Whole(b) : Whole(b)[j].op = "push" <=> j # b.push + 1
      BY <1>5, <1>6
    <3>2. \A j : j \in 1 .. b.push <=> j \in 1 .. b.push + 1 /\ j # b.push + 1
      BY <1>2
    <3> QED
      BY <3>1, <3>2, <1>5
  <2>2. PushesOf(Whole(b)) = {Whole(b)[i].ts : i \in 1 .. b.push}
    BY <2>1 DEF PushesOf
  <2>3. \A i \in 1 .. b.push : Whole(b)[i].ts = t + i - 1
    BY <1>2, <1>6
  <2>4. PushTs(b) = t .. t + b.push - 1
    BY DEF PushTs
  <2>5. \A i \in 1 .. b.push : t + i - 1 \in t .. t + b.push - 1
    BY <1>1, <1>2
  <2>6. \A u \in t .. t + b.push - 1 : u - t + 1 \in 1 .. b.push /\ t + (u - t + 1) - 1 = u
    BY <1>1, <1>2
  <2> QED
    BY <2>2, <2>3, <2>4, <2>5, <2>6
<1>9. BatchAt(LastOf(b)) = b
  BY <1>1, <1>2, <1>4
<1> QED
  BY <1>3, <1>7, <1>8, <1>9

(* What is queued for the i-th waiting call.                               *)
LEMMA QueuedIs ==
    ASSUME Types, AFInv, NEW s \in Servers, NEW i \in DOMAIN pending[s],
           pending[s][i][1].cmd # "single", NEW w \in Nat, NEW e \in Nat,
           NEW x, x = Queued(pending[s][i], w, e)
    PROVE  /\ x \in ResponseItem /\ x.work = w /\ x.event = e /\ x.msg # Null
           /\ x.msg.ts = PendingTs(s, i) /\ x.msg.ts \in Timestamps
           /\ x.msg.ts = LastOf(BatchAt(x.msg.ts)) /\ x.msg.ts < Begun(s)
           /\ x.msg = Message(x.msg.ts) /\ BatchAt(x.msg.ts).pull = 1 /\ x.msg.cmd # "single"
           /\ x.val = PushTs(BatchAt(x.msg.ts))
<1> USE DEF AFInv
<1>1. PICK t \in Timestamps :
         /\ BatchAt(t).first = t /\ LastOf(BatchAt(t)) < Begun(s)
         /\ pending[s][i] = Whole(BatchAt(t)) /\ GoodBatch(BatchAt(t))
         /\ LastOf(BatchAt(t)) \in Timestamps
         /\ PendingTs(s, i) = LastOf(BatchAt(t))
  BY PendingCall, Zenon
<1>2. PICK b, l : b = BatchAt(t) /\ l = LastOf(BatchAt(t))
  BY Zenon
<1>3. Cmd(b, t) # "single"
  <2>1. /\ Size(b) \in Nat /\ Size(b) > 0
    BY <1>1, <1>2, BatchSizes, Zenon DEF GoodBatch
  <2>2. pending[s][i][1] = Message(t + 1 - 1) /\ t \in Nat
    BY <2>1, <1>1, <1>2, WholeIs DEF Timestamps
  <2>3. pending[s][i][1] = Message(t)
    BY <2>2
  <2> QED
    BY <2>3, <1>2 DEF Message
<1>4. /\ PullOf(Whole(b)) = Message(l) /\ PushesOf(Whole(b)) = PushTs(b)
      /\ BatchAt(l) = b /\ b.pull = 1 /\ Cmd(b, l) # "single"
  BY <1>1, <1>2, <1>3, WholePull, Zenon
<1>5. x = [msg |-> Message(l), val |-> PushTs(b), work |-> w, event |-> e]
  BY <1>1, <1>2, <1>4, Zenon DEF Queued
<1>6. Message(l) \in Request /\ Message(l).ts = l /\ Message(l).cmd = Cmd(b, l)
  <2>1. requests[l + 1].op \in Ops /\ l \in Nat
    BY <1>1, <1>2, CallAt, Zenon
  <2>2. Cmd(b, l) \in {"single", "start", "end", "middle"}
    BY Zenon DEF Cmd
  <2>3. Message(l) = [op |-> requests[l + 1].op, ts |-> l, cmd |-> Cmd(b, l), ready |-> TRUE]
    BY <1>4, Zenon DEF Message
  <2> QED
    BY <2>1, <2>2, <2>3 DEF Request, Ops
<1>7. PushTs(b) \in SUBSET Nat
  BY <1>1, <1>2, BatchSizes DEF PushTs, GoodBatch
<1>8. x \in ResponseItem
  BY <1>5, <1>6, <1>7 DEF ResponseItem
<1>9. Message(l) # Null
  BY <1>6, AFAssumption
<1> QED
  BY <1>1, <1>2, <1>4, <1>5, <1>6, <1>8, <1>9

(* respond_vec.                                                            *)
LEMMA AFRespondVec ==
    ASSUME Shared, AFInv, app = "af", NEW s \in Servers, NEW k \in DOMAIN pending[s],
           RespondVec(s, k)
    PROVE  Shared' /\ AFInv'
<1> USE DEF AFInv
<1>a. PICK n, w, pool, ev, rq, l :
         /\ n = Len(pending[s]) /\ w = server_submitted[s] + 1
         /\ pool = server_events[s] /\ ev = GetEvent(server_events[s])
         /\ rq = response_queue[s] /\ l = Len(response_queue[s])
  BY Zenon
<1>b. PICK new : new = [i \in 1 .. k |-> Queued(pending[s][i], w, IF i = 1 THEN ev ELSE 0)]
  BY Zenon
<1>0. /\ pending \in [Servers -> Seq(Seq(Request))] /\ pending[s] \in Seq(Seq(Request))
      /\ server_events \in [Servers -> Seq(Event)] /\ pool \in Seq(Event)
      /\ response_queue \in [Servers -> Seq(ResponseItem)] /\ rq \in Seq(ResponseItem)
      /\ server_submitted \in [Servers -> Nat] /\ w \in Nat /\ n \in Nat /\ l \in Nat
      /\ DOMAIN pending[s] = 1 .. n /\ DOMAIN rq = 1 .. l /\ k \in 1 .. n
  BY <1>a DEF ServerTypes
<1>1. /\ ~raced /\ \A i \in 1 .. k : pending[s][i][1].cmd # "single"
      /\ pending' = [pending EXCEPT ![s] = SubSeq(@, k + 1, Len(@))]
      /\ server_submitted' = [server_submitted EXCEPT ![s] = w]
      /\ response_queue' = [response_queue EXCEPT ![s] = @ \o new]
      /\ server_events' = [server_events EXCEPT ![s] = Occupied(@, ev, w)]
      /\ UNCHANGED serverFrame
      /\ UNCHANGED <<raced, to_server, to_worker, batch_data>>
  BY <1>a, <1>b, Zenon DEF RespondVec, Running, serverFrame, kvVars, confVars, tableVars, endVars,
         programVars, pullVars, netVars, peerVars, workerVars, senderVars, gpuVars, responderVars
<1>u. UNCHANGED serverFrame
  BY <1>1, Zenon
<1>2. Types
  BY DEF Shared
<1>3. ev \in 1 .. Len(pool) + 1 /\ ev \notin InUse(pool) /\ ev \in Nat /\ ev # 0
  BY <1>0, <1>a, GetEventFree
<1>4. ASSUME NEW i \in 1 .. k
      PROVE  /\ new[i] \in ResponseItem /\ new[i].work = w
             /\ new[i].event = IF i = 1 THEN ev ELSE 0
             /\ new[i].msg # Null
             /\ new[i].msg.ts = PendingTs(s, i) /\ new[i].msg.ts \in Timestamps
             /\ new[i].msg.ts = LastOf(BatchAt(new[i].msg.ts)) /\ new[i].msg.ts < Begun(s)
             /\ new[i].msg = Message(new[i].msg.ts) /\ BatchAt(new[i].msg.ts).pull = 1
             /\ new[i].msg.cmd # "single"
             /\ new[i].val = PushTs(BatchAt(new[i].msg.ts))
  <2>1. PICK e : e = IF i = 1 THEN ev ELSE 0
    BY Zenon
  <2>2. e \in Nat /\ new[i] = Queued(pending[s][i], w, e)
    BY <2>1, <1>3, <1>b, Zenon
  <2>3. i \in DOMAIN pending[s] /\ pending[s][i][1].cmd # "single"
    <3>1. i \in 1 .. n
      BY <1>0
    <3> QED
      BY <3>1, <1>0, <1>1, Zenon
  <2>4. PICK x : x = new[i]
    BY Zenon
  <2>5. /\ x \in ResponseItem /\ x.work = w /\ x.event = e /\ x.msg # Null
        /\ x.msg.ts = PendingTs(s, i) /\ x.msg.ts \in Timestamps
        /\ x.msg.ts = LastOf(BatchAt(x.msg.ts)) /\ x.msg.ts < Begun(s)
        /\ x.msg = Message(x.msg.ts) /\ BatchAt(x.msg.ts).pull = 1 /\ x.msg.cmd # "single"
        /\ x.val = PushTs(BatchAt(x.msg.ts))
    <3>1. x = Queued(pending[s][i], w, e) /\ w \in Nat
      BY <2>2, <2>4, <1>0
    <3> QED
      BY <3>1, <2>2, <2>3, <1>2, QueuedIs
  <2> QED
    BY <2>1, <2>4, <2>5, Zenon
<1>5. new \in Seq(ResponseItem) /\ Len(new) = k /\ DOMAIN new = 1 .. k
  <2>1. new \in [1 .. k -> ResponseItem]
    BY <1>4, <1>b, Zenon
  <2>2. k \in Nat
    BY <1>0
  <2> QED
    BY <2>1, <2>2
<1>6. /\ \A x \in Servers : x # s => response_queue'[x] = response_queue[x]
      /\ response_queue' \in [Servers -> Seq(ResponseItem)]
      /\ DOMAIN response_queue'[s] = 1 .. l + k
      /\ \A i \in 1 .. l : response_queue'[s][i] = rq[i]
      /\ \A i \in 1 .. k : response_queue'[s][l + i] = new[i]
  <2>1. /\ response_queue'[s] = rq \o new
        /\ \A x \in Servers : x # s => response_queue'[x] = response_queue[x]
    BY <1>0, <1>1, <1>a, Zenon
  <2>2. /\ rq \o new \in Seq(ResponseItem) /\ DOMAIN (rq \o new) = 1 .. l + k
        /\ \A i \in 1 .. l : (rq \o new)[i] = rq[i]
        /\ \A i \in 1 .. k : (rq \o new)[l + i] = new[i]
    BY <1>0, <1>5, <1>a
  <2>3. response_queue' \in [Servers -> Seq(ResponseItem)]
    BY <2>1, <2>2, <1>0, <1>1, <1>a, Zenon
  <2> QED
    BY <2>1, <2>2, <2>3, Zenon
<1>c. \A i \in 1 .. l + k : i \in 1 .. l \/ (i - l \in 1 .. k /\ i = l + (i - l))
  BY <1>0
<1>d. \A y \in 1 .. l + k :
         \/ y \in 1 .. l /\ response_queue'[s][y] = rq[y]
         \/ \E i \in 1 .. k : y = l + i /\ response_queue'[s][y] = new[i]
  BY <1>c, <1>6
<1>7. /\ pending'[s] \in Seq(Seq(Request)) /\ Len(pending'[s]) = n - k
      /\ \A i \in 1 .. n - k : pending'[s][i] = pending[s][i + k]
      /\ \A x \in Servers : x # s => pending'[x] = pending[x]
      /\ pending' \in [Servers -> Seq(Seq(Request))]
  <2>1. pending'[s] = SubSeq(pending[s], k + 1, n)
        /\ \A x \in Servers : x # s => pending'[x] = pending[x]
    BY <1>0, <1>1, <1>a, Zenon
  <2>2. /\ SubSeq(pending[s], k + 1, n) \in Seq(Seq(Request))
        /\ Len(SubSeq(pending[s], k + 1, n)) = n - k
        /\ \A i \in 1 .. n - k : SubSeq(pending[s], k + 1, n)[i] = pending[s][i + k]
    <3>1. PICK p : p = pending[s]
      OBVIOUS
    <3>2. p \in Seq(Seq(Request)) /\ Len(p) = n /\ n \in Nat /\ k \in 1 .. n
      BY <3>1, <1>0, <1>a, Zenon
    <3>3. SubSeq(p, k + 1, n) = [i \in 1 .. (n - (k + 1) + 1) |-> p[i + (k + 1) - 1]]
      BY <3>2
    <3>4. /\ n - (k + 1) + 1 = n - k /\ n - k \in Nat
          /\ \A i \in 1 .. n - k : i + (k + 1) - 1 = i + k /\ i + k \in 1 .. n
      BY <3>2
    <3>5. SubSeq(p, k + 1, n) = [i \in 1 .. n - k |-> p[i + k]]
      BY <3>3, <3>4, Zenon
    <3>6. \A i \in 1 .. n - k : p[i + k] \in Seq(Request)
      BY <3>2, <3>4
    <3>7. SubSeq(p, k + 1, n) \in [1 .. n - k -> Seq(Request)]
      BY <3>5, <3>6, Zenon
    <3> QED
      <4>1. PICK z : z = SubSeq(p, k + 1, n)
        BY Zenon
      <4>2. PICK d \in Nat : d = n - k
        BY <3>4
      <4>3. z \in [1 .. d -> Seq(Request)]
        BY <3>7, <4>1, <4>2, Zenon
      <4>4. z \in Seq(Seq(Request)) /\ Len(z) = d
        BY <4>3
      <4>5. \A i \in 1 .. d : z[i] = p[i + k]
        BY <3>5, <4>1, <4>2, Zenon
      <4> QED
        BY <3>1, <4>1, <4>2, <4>4, <4>5, Zenon
  <2>3. pending' \in [Servers -> Seq(Seq(Request))]
    BY <2>1, <2>2, <1>0, <1>1, <1>a, Zenon
  <2> QED
    BY <2>1, <2>2, <2>3, Zenon
<1>8. /\ \A x : Handled(x)' = Handled(x) /\ Begun(x)' = Begun(x)
      /\ DOMAIN pending'[s] = 1 .. n - k
      /\ \A i \in 1 .. n - k : PendingTs(s, i)' = PendingTs(s, i + k) /\ i + k \in 1 .. n
      /\ \A x \in Servers : x # s => \A i : PendingTs(x, i)' = PendingTs(x, i)
      /\ InOrder' /\ Waiting'
  <2>1. k \in Nat /\ k <= n /\ n = Len(pending[s])
    BY <1>0, <1>a
  <2>2. UNCHANGED <<to_server, batch_data>>
    BY <1>1, Zenon
  <2>3. Dropped(s, k, n)
    BY <2>1, <2>2, <1>7, Zenon DEF Dropped
  <2> QED
    BY <2>3, <1>2, <1>u, PendingDropped, Zenon
<1>9. /\ \A i, j \in 1 .. n : i < j => PendingTs(s, i) < PendingTs(s, j)
      /\ \A i \in 1 .. l : rq[i].msg # Null =>
            \A j \in 1 .. n : rq[i].msg.ts < PendingTs(s, j)
  BY <1>0, <1>a, Zenon DEF Waiting, Responses
<1>10. Responses'
  <2>1. ASSUME NEW x \in Servers, NEW i \in DOMAIN response_queue'[x],
               NEW m, m = response_queue'[x][i].msg
        PROVE  /\ m = Null => response_stop[x] /\ response_queue'[x][i].event = 0
               /\ m # Null =>
                     /\ m.ts \in Timestamps
                     /\ m.ts = LastOf(BatchAt(m.ts)) /\ m.ts < Begun(x)' /\ m = Message(m.ts)
                     /\ BatchAt(m.ts).pull = 1 /\ m.cmd # "single"
                     /\ response_queue'[x][i].val = PushTs(BatchAt(m.ts))
                     /\ \A j \in DOMAIN pending'[x] : m.ts < PendingTs(x, j)'
    <3>1. ASSUME i \in DOMAIN response_queue[x], response_queue'[x][i] = response_queue[x][i]
          PROVE  /\ m = Null => response_stop[x] /\ response_queue'[x][i].event = 0
                 /\ m # Null =>
                     /\ m.ts \in Timestamps
                     /\ m.ts = LastOf(BatchAt(m.ts)) /\ m.ts < Begun(x) /\ m = Message(m.ts)
                     /\ BatchAt(m.ts).pull = 1 /\ m.cmd # "single"
                     /\ response_queue'[x][i].val = PushTs(BatchAt(m.ts))
                     /\ \A j \in DOMAIN pending[x] : m.ts < PendingTs(x, j)
      BY <2>1, <3>1 DEF Responses
    <3>2. CASE x # s
      <4>1. response_queue'[x] = response_queue[x] /\ pending'[x] = pending[x]
        BY <3>2, <1>6, <1>7, Zenon
      <4> QED
        BY <4>1, <3>1, <3>2, <1>8, Zenon
    <3>3. CASE x = s /\ i \in 1 .. l
      <4>1. i \in DOMAIN response_queue[x] /\ response_queue'[x][i] = response_queue[x][i]
        BY <3>3, <1>0, <1>6, <1>a, Zenon
      <4>2. ASSUME m # Null, NEW j \in DOMAIN pending'[s]
            PROVE  m.ts < PendingTs(s, j)'
        BY <4>1, <4>2, <3>1, <3>3, <1>0, <1>8, ZenonT(30)
      <4> QED
        BY <4>1, <4>2, <3>1, <3>3, <1>8, Zenon
    <3>4. CASE x = s /\ i - l \in 1 .. k /\ i = l + (i - l)
      <4>1. PICK y \in 1 .. k : response_queue'[s][i] = new[y]
        BY <3>4, <1>6, Zenon
      <4>2. m = new[y].msg /\ m # Null /\ m.ts = PendingTs(s, y)
        BY <4>1, <3>4, <2>1, <1>4
      <4>3. ASSUME NEW j \in DOMAIN pending'[s]
            PROVE  m.ts < PendingTs(s, j)'
        <5>1. y \in 1 .. n /\ j + k \in 1 .. n /\ y < j + k /\ PendingTs(s, j)' = PendingTs(s, j + k)
          <6>1. j \in 1 .. n - k /\ y \in 1 .. k /\ k \in 1 .. n /\ n \in Nat
            BY <1>0, <1>8, Zenon
          <6>2. y \in 1 .. n /\ y < j + k
            BY <6>1
          <6> QED
            BY <6>1, <6>2, <1>8, Zenon
        <5> QED
          BY <5>1, <4>2, <1>9, Zenon
      <4> QED
        BY <4>1, <4>2, <4>3, <3>4, <1>4, <1>8, Zenon
    <3> QED
      BY <3>2, <3>3, <3>4, <1>6, <1>c, Zenon
  <2>2. ASSUME NEW x \in Servers, NEW i \in DOMAIN response_queue'[x],
               NEW j \in DOMAIN response_queue'[x], i < j,
               response_queue'[x][i].msg # Null, response_queue'[x][j].msg # Null
        PROVE  response_queue'[x][i].msg.ts < response_queue'[x][j].msg.ts
    <3>1. CASE x # s
      <4>1. response_queue'[x] = response_queue[x]
        BY <3>1, <1>6, Zenon
      <4> QED
        BY <4>1, <2>2, Zenon DEF Responses
    <3>2. CASE x = s /\ j \in 1 .. l
      <4>1. i \in 1 .. l
        BY <3>2, <2>2, <1>0, <1>6
      <4>2. rq[i].msg # Null /\ rq[j].msg # Null
            /\ response_queue'[x][i] = rq[i] /\ response_queue'[x][j] = rq[j]
        BY <4>1, <3>2, <2>2, <1>6, Zenon
      <4>3. rq[i].msg.ts < rq[j].msg.ts
        BY <4>1, <4>2, <3>2, <2>2, <1>0, <1>a, Zenon DEF Responses
      <4> QED
        BY <4>2, <4>3, Zenon
    <3>3. CASE x = s /\ i \in 1 .. l /\ j - l \in 1 .. k /\ j = l + (j - l)
      <4>1. response_queue'[x][i] = rq[i] /\ response_queue'[x][j] = new[j - l]
        BY <3>3, <1>6, Zenon
      <4>2. j - l \in 1 .. n
        BY <3>3, <1>0
      <4>3. new[j - l].msg.ts = PendingTs(s, j - l)
        BY <3>3, <1>4, Zenon
      <4>4. rq[i].msg.ts < PendingTs(s, j - l)
        BY <4>1, <4>2, <3>3, <2>2, <1>9, Zenon
      <4> QED
        BY <4>1, <4>3, <4>4, Zenon
    <3>4. CASE x = s /\ i - l \in 1 .. k /\ i = l + (i - l) /\ j - l \in 1 .. k /\ j = l + (j - l)
      <4>1. response_queue'[x][i] = new[i - l] /\ response_queue'[x][j] = new[j - l]
        BY <3>4, <1>6, Zenon
      <4>2. i - l \in 1 .. n /\ j - l \in 1 .. n /\ i - l < j - l
        <5>1. i \in 1 .. l + k /\ j \in 1 .. l + k /\ i < j
          BY <3>4, <2>2, <1>6, Zenon
        <5> QED
          BY <5>1, <3>4, <1>0
      <4>3. new[i - l].msg.ts = PendingTs(s, i - l) /\ new[j - l].msg.ts = PendingTs(s, j - l)
        BY <3>4, <1>4, Zenon
      <4> QED
        BY <4>1, <4>2, <4>3, <1>9, Zenon
    <3>5. x = s => /\ i \in 1 .. l \/ (i - l \in 1 .. k /\ i = l + (i - l))
                   /\ j \in 1 .. l \/ (j - l \in 1 .. k /\ j = l + (j - l))
      BY <1>6, <1>c, Zenon
    <3> QED
      BY <3>1, <3>2, <3>3, <3>4, <3>5, Zenon
  <2> QED
    BY <2>1, <2>2, <1>u, ResponsesNext, Zenon
<1>11. ASSUME NEW x \in Servers, NEW ts \in Timestamps
       PROVE  AFOwes(x, ts)' <=> AFOwes(x, ts)
  <2>1. CASE x # s
    BY <2>1, <1>6, <1>7, <1>8 DEF AFOwes
  <2>2. CASE x = s
    <3>1. (\E i \in DOMAIN pending'[s] : PendingTs(s, i)' = ts)
             <=> \E i \in 1 .. n : i > k /\ PendingTs(s, i) = ts
      <4>1. \A i \in 1 .. n - k : i + k \in 1 .. n /\ i + k > k
        BY <1>0
      <4>2. \A i \in 1 .. n : i > k => i - k \in 1 .. n - k /\ (i - k) + k = i
        BY <1>0
      <4> QED
        BY <4>1, <4>2, <1>8
    <3>2. (\E i \in DOMAIN response_queue'[s] :
              response_queue'[s][i].msg # Null /\ response_queue'[s][i].msg.ts = ts)
             <=> \/ \E i \in 1 .. l : rq[i].msg # Null /\ rq[i].msg.ts = ts
                 \/ \E i \in 1 .. k : PendingTs(s, i) = ts
      <4>1. /\ \A i \in 1 .. l : i \in 1 .. l + k
            /\ \A i \in 1 .. k : l + i \in 1 .. l + k
        BY <1>0
      <4>2. \A i \in 1 .. k : new[i].msg # Null /\ new[i].msg.ts = PendingTs(s, i)
        BY <1>4, Zenon
      <4>3. ASSUME NEW i \in DOMAIN response_queue'[s],
                   response_queue'[s][i].msg # Null, response_queue'[s][i].msg.ts = ts
            PROVE  \/ \E j \in 1 .. l : rq[j].msg # Null /\ rq[j].msg.ts = ts
                   \/ \E j \in 1 .. k : PendingTs(s, j) = ts
        BY <4>2, <4>3, <1>d, <1>6
      <4>4. ASSUME NEW i \in 1 .. l, rq[i].msg # Null, rq[i].msg.ts = ts
            PROVE  \E j \in DOMAIN response_queue'[s] :
                      response_queue'[s][j].msg # Null /\ response_queue'[s][j].msg.ts = ts
        BY <4>1, <4>4, <1>6, Zenon
      <4>5. ASSUME NEW i \in 1 .. k, PendingTs(s, i) = ts
            PROVE  \E j \in DOMAIN response_queue'[s] :
                      response_queue'[s][j].msg # Null /\ response_queue'[s][j].msg.ts = ts
        <5>1. l + i \in DOMAIN response_queue'[s] /\ response_queue'[s][l + i] = new[i]
          BY <4>1, <1>6, Zenon
        <5> QED
          BY <5>1, <4>2, <4>5, Zenon
      <4> QED
        BY <4>3, <4>4, <4>5, Zenon
    <3>3. (\E i \in 1 .. n : PendingTs(s, i) = ts)
             <=> \/ \E i \in 1 .. n : i > k /\ PendingTs(s, i) = ts
                 \/ \E i \in 1 .. k : PendingTs(s, i) = ts
      <4>1. /\ \A i \in 1 .. n : i > k \/ i \in 1 .. k
            /\ \A i \in 1 .. k : i \in 1 .. n
        BY <1>0
      <4> QED
        BY <4>1, Zenon
    <3>4. AFOwes(s, ts)' <=>
             \/ ts >= Handled(s)
             \/ \E i \in 1 .. n : i > k /\ PendingTs(s, i) = ts
             \/ \E i \in 1 .. l : rq[i].msg # Null /\ rq[i].msg.ts = ts
             \/ \E i \in 1 .. k : PendingTs(s, i) = ts
      BY <3>1, <3>2, <1>8, Zenon DEF AFOwes
    <3>5. AFOwes(s, ts) <=>
             \/ ts >= Handled(s)
             \/ \E i \in 1 .. n : PendingTs(s, i) = ts
             \/ \E i \in 1 .. l : rq[i].msg # Null /\ rq[i].msg.ts = ts
      BY <1>0, <1>a, Zenon DEF AFOwes
    <3> QED
      BY <2>2, <3>3, <3>4, <3>5, Zenon
  <2> QED
    BY <2>1, <2>2, Zenon
<1>12. Shared'
  <2>1. Servers' = Servers /\ Timestamps' = Timestamps
    BY <1>u, ServerFrame, Zenon
  <2>2. Types'
    BY <2>1, <1>1, <1>2, Zenon DEF Types, serverFrame
  <2>3. app' = app /\ \A x \in Servers, ts \in Timestamps : Owes(x, ts)' <=> Owes(x, ts)
    BY <1>1, <1>11, Zenon DEF Owes, serverFrame
  <2> QED
    BY <1>1, <2>2, <2>3, NothingMoves, Zenon DEF Shared, WaitedFinished, serverFrame
<1>13. Answers'
  BY <1>1, FrameAnswers, Zenon DEF serverFrame
<1>e. EventTaken(pool, ev, w, Occupied(pool, ev, w))
  <2>1. CanOccupy(pool, ev, w)
    BY <1>0, <1>3, Zenon DEF CanOccupy
  <2> QED
    BY <2>1, OccupiedPool, Zenon
<1>14. /\ server_events' \in [Servers -> Seq(Event)]
       /\ \A x \in Servers : x # s => server_events'[x] = server_events[x]
       /\ server_events'[s] = Occupied(pool, ev, w)
  <2>1. Occupied(pool, ev, w) \in Seq(Event)
    BY <1>e, Zenon DEF EventTaken
  <2> QED
    BY <2>1, <1>0, <1>1, <1>a, Zenon
<1>15. ServerTypes'
  <2>1. Servers' = Servers
    BY <1>u, ServerFrame, Zenon
  <2>2. server_submitted' \in [Servers -> Nat]
    BY <2>1, <1>0, <1>1, Zenon
  <2> QED
    BY <2>1, <2>2, <1>1, <1>6, <1>7, <1>14, Zenon DEF ServerTypes, serverFrame
<1>16. ASSUME NEW x \in Servers
       PROVE  PoolKept(x)'
  <2>1. Servers' = Servers /\ SinglePulls' = SinglePulls /\ server_gpu' = server_gpu
    BY <1>u, ServerFrame, Zenon DEF serverFrame
  <2>2. CASE x # s
    <3>1. AnsweredPulls(x)' = AnsweredPulls(x) /\ Recorded(x)' = Recorded(x)
      BY <2>1, <2>2, <1>6, <1>7, <1>8 DEF AnsweredPulls, Recorded
    <3> QED
      BY <2>2, <3>1, <1>6, <1>14, <1>u, OtherPool, Zenon
  <2>3. CASE x = s
    <3>1. PoolKept(s)
      BY Zenon DEF ServerEvents
    <3>2. PICK q : q = server_events'[s]
      BY Zenon
    <3>3. /\ InUse(q) = InUse(pool) \union {ev} /\ \A e \in InUse(pool) : q[e] = pool[e]
          /\ q[ev].recorded = w
      <4>1. EventTaken(pool, ev, w, q)
        BY <3>2, <1>e, <1>14, Zenon
      <4>2. q[ev] = [released |-> FALSE, recorded |-> w]
        BY <4>1, Zenon DEF EventTaken
      <4>3. q[ev].recorded = w
        BY <4>2
      <4> QED
        BY <4>1, <4>3, Zenon DEF EventTaken
    <3>4. InUse(server_events[s])' = InUse(q) /\ InUse(server_events[s]) = InUse(pool)
      BY <3>2, <1>a, Zenon DEF InUse
    <3>5. Recorded(s) \subseteq InUse(pool)
      BY <3>1, <3>4, Zenon DEF PoolKept
    <3>6. \A i \in 1 .. l : rq[i].event # 0 => rq[i].event \in InUse(pool)
      BY <3>5, <1>0, <1>a, Zenon DEF Recorded
    <3>7. Recorded(s)' = Recorded(s) \union {ev}
      <4>1. Recorded(s)' = {response_queue'[s][i].event : i \in 1 .. l + k} \ {0}
        BY <1>6, Zenon DEF Recorded
      <4>2. Recorded(s) = {rq[i].event : i \in 1 .. l} \ {0}
        BY <1>0, <1>a, Zenon DEF Recorded
      <4>3. \A i \in 1 .. l : i \in 1 .. l + k
        BY <1>0
      <4>4. l + 1 \in 1 .. l + k /\ 1 \in 1 .. k
        BY <1>0
      <4>5. response_queue'[s][l + 1].event = ev
        BY <4>4, <1>4, <1>6
      <4>6. \A i \in 1 .. k : response_queue'[s][l + i].event \in {0, ev}
        <5>1. \A i \in 1 .. k : new[i].event \in {0, ev}
          BY <1>4, Zenon
        <5> QED
          BY <5>1, <1>6, Zenon
      <4>7. \A i \in 1 .. l + k : response_queue'[s][i].event \in {0, ev}
               \/ \E j \in 1 .. l : response_queue'[s][i].event = rq[j].event
        BY <4>6, <1>d, Zenon
      <4>8. ASSUME NEW e \in Recorded(s)'
            PROVE  e \in Recorded(s) \union {ev}
        BY <4>1, <4>2, <4>7, Zenon
      <4>9. ASSUME NEW e \in Recorded(s)
            PROVE  e \in Recorded(s)'
        BY <4>1, <4>2, <4>3, <1>6, Zenon
      <4>10. ev \in Recorded(s)'
        BY <4>1, <4>4, <4>5, <1>3, Zenon
      <4> QED
        BY <4>8, <4>9, <4>10, Zenon
    <3>8. Cardinality(Orphans(s)') <= Cardinality(AnsweredPulls(s)')
      <4>1. /\ Cardinality(Orphans(s)) <= Cardinality(AnsweredPulls(s))
            /\ IsFiniteSet(Orphans(s)) /\ Cardinality(Orphans(s)) \in Nat
        BY <3>1, PoolFinite, Zenon DEF PoolKept
      <4>2. IsFiniteSet(AnsweredPulls(s)) /\ IsFiniteSet(SinglePulls)
        BY <1>2, AnsweredFinite, Zenon
      <4>3. AnsweredPulls(s) \subseteq AnsweredPulls(s)'
        <5>1. ASSUME NEW ts \in AnsweredPulls(s)
              PROVE  ts \in AnsweredPulls(s)'
          <6>1. /\ ts \in SinglePulls /\ ts < Begun(s)
                /\ \A i \in 1 .. n : PendingTs(s, i) # ts
            BY <1>0, Zenon DEF AnsweredPulls
          <6>2. \A i \in DOMAIN pending'[s] : PendingTs(s, i)' # ts
            BY <6>1, <1>8, Zenon
          <6> QED
            BY <6>1, <6>2, <2>1, <1>8, Zenon DEF AnsweredPulls
        <5> QED
          BY <5>1, Zenon
      <4>4. AnsweredPulls(s)' \subseteq SinglePulls
        BY <2>1, Zenon DEF AnsweredPulls
      <4>5. IsFiniteSet(AnsweredPulls(s)')
        BY <4>2, <4>4, FS_Subset, Zenon
      <4>6. Orphans(s)' = Orphans(s)
        BY <3>3, <3>4, <3>7, <1>3, Zenon DEF Orphans
      <4>7. /\ Cardinality(AnsweredPulls(s)) <= Cardinality(AnsweredPulls(s)')
            /\ Cardinality(AnsweredPulls(s)) \in Nat /\ Cardinality(AnsweredPulls(s)') \in Nat
        BY <4>2, <4>3, <4>5, FS_Subset, FS_CardinalityType, Zenon
      <4> QED
        BY <4>1, <4>6, <4>7
    <3>9. ASSUME NEW i \in 1 .. l + k, response_queue'[s][i].msg # Null
          PROVE  \/ response_queue'[s][i].work <= server_gpu[s]
                 \/ \E j \in 1 .. i :
                       /\ response_queue'[s][j].event # 0
                       /\ response_queue'[s][i].work <= q[response_queue'[s][j].event].recorded
      <4>1. CASE i \in 1 .. l
        <5>1. response_queue'[s][i] = rq[i]
          BY <4>1, <1>6, Zenon
        <5>2. \/ rq[i].work <= server_gpu[s]
              \/ \E j \in 1 .. i : /\ rq[j].event # 0
                                   /\ rq[i].work <= pool[rq[j].event].recorded
          BY <5>1, <4>1, <3>1, <3>9, <1>0, <1>a, Zenon DEF PoolKept
        <5>3. CASE rq[i].work <= server_gpu[s]
          BY <5>1, <5>3, Zenon
        <5>4. ASSUME NEW j \in 1 .. i, rq[j].event # 0, rq[i].work <= pool[rq[j].event].recorded
              PROVE  /\ response_queue'[s][j].event # 0
                     /\ response_queue'[s][i].work <= q[response_queue'[s][j].event].recorded
          <6>1. j \in 1 .. l
            BY <4>1, <1>0
          <6>2. response_queue'[s][j] = rq[j] /\ rq[j].event \in InUse(pool)
            BY <6>1, <5>4, <3>6, <1>6, Zenon
          <6>3. q[rq[j].event] = pool[rq[j].event]
            BY <6>2, <3>3, Zenon
          <6> QED
            BY <6>2, <6>3, <5>1, <5>4, Zenon
        <5> QED
          BY <5>2, <5>3, <5>4, Zenon
      <4>2. CASE i - l \in 1 .. k /\ i = l + (i - l)
        <5>1. response_queue'[s][i].work = w
          <6>1. PICK y \in 1 .. k : response_queue'[s][i] = new[y]
            BY <4>2, <1>6, Zenon
          <6> QED
            BY <6>1, <1>4, Zenon
        <5>2. l + 1 \in 1 .. i /\ 1 \in 1 .. k
          BY <4>2, <1>0
        <5>3. response_queue'[s][l + 1].event = ev
          BY <5>2, <1>4, <1>6
        <5>4. w <= q[ev].recorded
          BY <3>3, <1>0
        <5> QED
          BY <5>1, <5>2, <5>3, <5>4, <1>3, Zenon
      <4> QED
        BY <4>1, <4>2, <1>c, Zenon
    <3>10. Recorded(s)' \subseteq InUse(server_events[s])'
      BY <3>3, <3>4, <3>5, <3>7, Zenon
    <3>11. ASSUME NEW i \in 1 .. l + k, NEW j \in 1 .. l + k, response_queue'[s][i].event # 0,
                  response_queue'[s][i].event = response_queue'[s][j].event
           PROVE  i = j
      <4>1. \A y \in 1 .. l + k : y \notin 1 .. l /\ response_queue'[s][y].event # 0
               => y = l + 1 /\ response_queue'[s][y].event = ev
        <5>1. ASSUME NEW y \in 1 .. l + k, y \notin 1 .. l, response_queue'[s][y].event # 0
              PROVE  y = l + 1 /\ response_queue'[s][y].event = ev
          <6>1. y - l \in 1 .. k /\ y = l + (y - l)
            BY <5>1, <1>c, Zenon
          <6>2. response_queue'[s][y] = new[y - l]
            BY <6>1, <1>6, Zenon
          <6>3. new[y - l].event = IF y - l = 1 THEN ev ELSE 0
            BY <6>1, <1>4, Zenon
          <6>4. y - l = 1
            BY <6>2, <6>3, <5>1, Zenon
          <6> QED
            BY <6>1, <6>2, <6>3, <6>4, Zenon
        <5> QED
          BY <5>1, Zenon
      <4>2. \A y \in 1 .. l : response_queue'[s][y] = rq[y]
               /\ (rq[y].event # 0 => rq[y].event # ev)
        BY <3>6, <1>3, <1>6, Zenon
      <4>3. CASE i \in 1 .. l /\ j \in 1 .. l
        BY <4>2, <4>3, <3>1, <3>11, <1>0, <1>a, Zenon DEF PoolKept
      <4>4. CASE ~(i \in 1 .. l /\ j \in 1 .. l)
        BY <4>1, <4>2, <4>4, <3>11, Zenon
      <4> QED
        BY <4>3, <4>4, Zenon
    <3> QED
      BY <2>1, <2>3, <3>2, <3>8, <3>9, <3>10, <3>11, <1>6, Zenon DEF PoolKept
  <2> QED
    BY <2>2, <2>3, Zenon
<1>17. ServerEvents'
  BY <1>16, <1>u, ServerFrame, Zenon DEF ServerEvents
<1> QED
  BY <1>8, <1>10, <1>12, <1>13, <1>15, <1>17, <1>u, AFServerStep, Zenon

(* Response to a call of a single message.                                 *)
LEMMA AFRespondSingle ==
    ASSUME Shared, AFInv, app = "af", NEW s \in Servers, RespondSingle(s)
    PROVE  Shared' /\ AFInv'
<1> USE DEF AFInv
<1>a. PICK p, n, pool, ev : /\ p = pending[s][1] /\ n = Len(pending[s])
                            /\ pool = server_events[s] /\ ev = GetEvent(server_events[s])
  BY Zenon
<1>b. PICK a : a = Answer(s, p[1], {}, FALSE)
  BY Zenon
<1>0. /\ pending \in [Servers -> Seq(Seq(Request))] /\ pending[s] \in Seq(Seq(Request))
      /\ server_events \in [Servers -> Seq(Event)] /\ pool \in Seq(Event) /\ n \in Nat
      /\ DOMAIN pending[s] = 1 .. n
  BY <1>a DEF ServerTypes
<1>1. /\ pending[s] # <<>> /\ Head(pending[s]) = p /\ n > 0 /\ 1 \in DOMAIN pending[s]
  <2>1. pending[s] # <<>>
    BY Zenon DEF RespondSingle
  <2> QED
    BY <2>1, <1>0, <1>a
<1>2. /\ p[1].cmd = "single" /\ ~raced
      /\ pending' = [pending EXCEPT ![s] = Tail(@)]
      /\ server_submitted' = [server_submitted EXCEPT ![s] = @ + 1]
      /\ server_events' = IF p[1].op = "pull"
              THEN [server_events EXCEPT ![s] = Occupied(@, GetEvent(@), 0)]
              ELSE server_events
      /\ to_worker' = [to_worker EXCEPT ![s] = Append(@, a)]
      /\ UNCHANGED serverFrame
      /\ UNCHANGED <<raced, to_server, batch_data, response_queue>>
  BY <1>1, <1>b, Zenon DEF RespondSingle, Running, serverFrame, confVars, tableVars, endVars, programVars,
         pullVars, peerVars, workerVars, senderVars, gpuVars, responderVars
<1>u. UNCHANGED serverFrame
  BY <1>2
<1>3. Types /\ num_servers \in Nat \ {0}
  BY Numbers DEF Shared
<1>4. PICK t \in Timestamps :
         /\ BatchAt(t).first = t /\ LastOf(BatchAt(t)) < Begun(s)
         /\ p = Whole(BatchAt(t)) /\ GoodBatch(BatchAt(t))
         /\ PendingTs(s, 1) = LastOf(BatchAt(t))
  BY <1>1, <1>3, <1>a, PendingCall
<1>5. /\ p[1] = Message(t) /\ Cmd(BatchAt(t), t) = "single" /\ Single(t)
      /\ p[1].op = requests[t + 1].op /\ p[1].ts = t
  <2>1. /\ Size(BatchAt(t)) \in Nat /\ Size(BatchAt(t)) > 0
    BY <1>4, BatchSizes, Zenon DEF GoodBatch
  <2>2. 1 \in 1 .. Size(BatchAt(t)) /\ t + 1 - 1 = t
    BY <2>1 DEF Timestamps
  <2>3. p[1] = Message(t + 1 - 1)
    BY <2>2, <1>4, WholeIs, Zenon
  <2>4. p[1] = Message(t)
    BY <2>2, <2>3, Zenon
  <2> QED
    BY <2>4, <1>2 DEF Message, Single
<1>6. LastOf(BatchAt(t)) = t /\ t \in Nat /\ PendingTs(s, 1) = t /\ t < Begun(s)
  <2>1. t \in TimestampsOf(BatchAt(t)) /\ t \in Nat
    BY DEF Calls, Timestamps
  <2>2. Size(BatchAt(t)) = 1
    BY <2>1, <1>3, <1>4, <1>5, Flags, Zenon
  <2> QED
    BY <2>1, <2>2, <1>4 DEF LastOf
<1>7. requests[t + 1].op \in Ops
  BY <1>3, CallAt, Zenon
<1>8. /\ a \in Reply /\ a.ts = t /\ a.op = requests[t + 1].op
  BY <1>5, <1>6, <1>7, <1>b, Zenon DEF Answer, Reply, Ops
<1>9. /\ pending'[s] \in Seq(Seq(Request)) /\ Len(pending'[s]) = n - 1
      /\ \A i \in 1 .. n - 1 : pending'[s][i] = pending[s][i + 1]
      /\ \A x \in Servers : x # s => pending'[x] = pending[x]
      /\ pending' \in [Servers -> Seq(Seq(Request))]
  BY <1>0, <1>1, <1>2, <1>a
<1>10. /\ \A x : Handled(x)' = Handled(x) /\ Begun(x)' = Begun(x)
       /\ DOMAIN pending'[s] = 1 .. n - 1
       /\ \A i \in 1 .. n - 1 : PendingTs(s, i)' = PendingTs(s, i + 1) /\ i + 1 \in 1 .. n
       /\ \A x \in Servers : x # s => \A i : PendingTs(x, i)' = PendingTs(x, i)
       /\ InOrder' /\ Waiting'
  <2>1. 1 \in Nat /\ 1 <= n
    BY <1>0, <1>1
  <2>2. Dropped(s, 1, n)
    BY <2>1, <1>2, <1>9, <1>a, Zenon DEF Dropped
  <2> QED
    BY <2>2, <1>3, <1>u, PendingDropped, Zenon
<1>11. Responses'
  <2>1. ASSUME NEW x \in Servers, NEW i \in DOMAIN response_queue'[x],
               NEW m, m = response_queue'[x][i].msg
        PROVE  /\ m = Null => response_stop[x] /\ response_queue'[x][i].event = 0
               /\ m # Null =>
                     /\ m.ts \in Timestamps
                     /\ m.ts = LastOf(BatchAt(m.ts)) /\ m.ts < Begun(x)' /\ m = Message(m.ts)
                     /\ BatchAt(m.ts).pull = 1 /\ m.cmd # "single"
                     /\ response_queue'[x][i].val = PushTs(BatchAt(m.ts))
                     /\ \A j \in DOMAIN pending'[x] : m.ts < PendingTs(x, j)'
    <3>1. /\ m = Null => response_stop[x] /\ response_queue[x][i].event = 0
          /\ m # Null =>
                /\ m.ts \in Timestamps
                /\ m.ts = LastOf(BatchAt(m.ts)) /\ m.ts < Begun(x) /\ m = Message(m.ts)
                /\ BatchAt(m.ts).pull = 1 /\ m.cmd # "single"
                /\ response_queue[x][i].val = PushTs(BatchAt(m.ts))
                /\ \A j \in DOMAIN pending[x] : m.ts < PendingTs(x, j)
      BY <2>1, <1>2, Zenon DEF Responses
    <3>2. ASSUME m # Null, NEW j \in DOMAIN pending'[x]
          PROVE  m.ts < PendingTs(x, j)'
      <4>1. CASE x # s
        BY <4>1, <3>1, <3>2, <1>9, <1>10, Zenon
      <4>2. CASE x = s
        BY <4>2, <3>1, <3>2, <1>0, <1>10, ZenonT(30)
      <4> QED
        BY <4>1, <4>2, Zenon
    <3> QED
      BY <3>1, <3>2, <1>2, <1>10, Zenon
  <2>2. \A x \in Servers : \A i, j \in DOMAIN response_queue'[x] :
           /\ i < j
           /\ response_queue'[x][i].msg # Null /\ response_queue'[x][j].msg # Null
           => response_queue'[x][i].msg.ts < response_queue'[x][j].msg.ts
    BY <1>2, Zenon DEF Responses
  <2> QED
    BY <2>1, <2>2, <1>u, ResponsesNext, Zenon
<1>12. ASSUME NEW x \in Servers, NEW ts \in Timestamps
       PROVE  /\ x # s \/ ts # t => (AFOwes(x, ts)' <=> AFOwes(x, ts))
              /\ x = s /\ ts = t => AFOwes(x, ts) /\ ~AFOwes(x, ts)'
  <2>1. CASE x # s
    BY <2>1, <1>2, <1>9, <1>10, Zenon DEF AFOwes
  <2>2. CASE x = s
    <3>1. Handled(s) \in Nat /\ Begun(s) \in Nat /\ t < Handled(s)
      <4>1. /\ Len(batch_data[s]) \in Nat /\ Handled(s) \in Nat
            /\ Begun(s) \in Nat /\ Begun(s) + Len(batch_data[s]) = Handled(s)
        BY <1>3, Progress, Zenon
      <4> QED
        BY <4>1, <1>6
    <3>2. \A i \in 1 .. n : i # 1 => t < PendingTs(s, i)
      <4>1. \A i, j \in DOMAIN pending[s] : i < j => PendingTs(s, i) < PendingTs(s, j)
        BY Zenon DEF Waiting
      <4>2. \A i \in 1 .. n : i # 1 => 1 < i
        BY <1>0
      <4> QED
        BY <4>1, <4>2, <1>0, <1>1, <1>6, Zenon
    <3>3. \A i \in DOMAIN response_queue[s] : response_queue[s][i].msg # Null
             => response_queue[s][i].msg.ts < t
      BY <1>1, <1>6, Zenon DEF Responses
    <3>4. (\E i \in DOMAIN pending'[s] : PendingTs(s, i)' = ts)
             <=> \E i \in 1 .. n : i # 1 /\ PendingTs(s, i) = ts
      <4>1. \A i \in 1 .. n - 1 : i + 1 \in 1 .. n /\ i + 1 # 1
        BY <1>0
      <4>2. \A i \in 1 .. n : i # 1 => i - 1 \in 1 .. n - 1 /\ (i - 1) + 1 = i
        BY <1>0
      <4> QED
        BY <4>1, <4>2, <1>10
    <3>5. AFOwes(s, ts)' <=>
             \/ ts >= Handled(s)
             \/ \E i \in 1 .. n : i # 1 /\ PendingTs(s, i) = ts
             \/ \E i \in DOMAIN response_queue[s] :
                   response_queue[s][i].msg # Null /\ response_queue[s][i].msg.ts = ts
      BY <3>4, <1>2, <1>10, Zenon DEF AFOwes
    <3>6. AFOwes(s, ts) <=>
             \/ ts >= Handled(s)
             \/ \E i \in 1 .. n : PendingTs(s, i) = ts
             \/ \E i \in DOMAIN response_queue[s] :
                   response_queue[s][i].msg # Null /\ response_queue[s][i].msg.ts = ts
      BY <1>0, Zenon DEF AFOwes
    <3>7. CASE ts # t
      BY <3>5, <3>6, <3>7, <2>2, <1>0, <1>1, <1>6, Zenon
    <3>8. CASE ts = t
      <4>1. AFOwes(s, ts)
        BY <3>6, <3>8, <1>0, <1>1, <1>6, Zenon
      <4>2. ~(ts >= Handled(s))
        BY <3>1, <3>8, <1>6
      <4>3. ~\E i \in 1 .. n : i # 1 /\ PendingTs(s, i) = ts
        BY <3>2, <3>8, <1>6
      <4>4. ~\E i \in DOMAIN response_queue[s] :
                response_queue[s][i].msg # Null /\ response_queue[s][i].msg.ts = ts
        BY <3>3, <3>8, <1>6
      <4> QED
        BY <4>1, <4>2, <4>3, <4>4, <3>5, <3>8, <2>2, Zenon
    <3> QED
      BY <3>7, <3>8, Zenon
  <2> QED
    BY <2>1, <2>2, Zenon
<1>13. Shared' /\ Answers'
  <2>1. ~raced' /\ a.ts \in Timestamps /\ a.op = requests[a.ts + 1].op /\ Single(a.ts)
    BY <1>2, <1>5, <1>8, Zenon
  <2>2. AFOwes(s, a.ts) /\ ~AFOwes(s, a.ts)'
    BY <1>8, <1>12, Zenon
  <2> QED
    BY <2>1, <2>2, <1>2, <1>8, <1>12, ReplyLeaves, Zenon
<1>14. /\ ev \in 1 .. Len(pool) + 1 /\ ev \notin InUse(pool)
  BY <1>0, <1>a, GetEventFree, Zenon
<1>e. EventTaken(pool, ev, 0, Occupied(pool, ev, 0))
  <2>1. CanOccupy(pool, ev, 0)
    BY <1>0, <1>14 DEF CanOccupy
  <2> QED
    BY <2>1, OccupiedPool, Zenon
<1>15. /\ server_events' \in [Servers -> Seq(Event)]
       /\ \A x \in Servers : x # s => server_events'[x] = server_events[x]
       /\ server_events'[s] = IF p[1].op = "pull" THEN Occupied(pool, ev, 0) ELSE pool
  <2>1. Occupied(pool, ev, 0) \in Seq(Event)
    BY <1>e, Zenon DEF EventTaken
  <2> QED
    BY <2>1, <1>0, <1>2, <1>a, Zenon
<1>16. ServerTypes'
  <2>1. Servers' = Servers /\ server_submitted' \in [Servers -> Nat]
    <3>1. server_submitted \in [Servers -> Nat]
      BY Zenon DEF ServerTypes
    <3>2. Servers' = Servers
      BY <1>u, ServerFrame, Zenon
    <3> QED
      BY <3>1, <3>2, <1>2
  <2> QED
    BY <2>1, <1>2, <1>9, <1>15, Zenon DEF ServerTypes, serverFrame
<1>17. ASSUME NEW x \in Servers
       PROVE  PoolKept(x)'
  <2>1. Servers' = Servers /\ SinglePulls' = SinglePulls /\ server_gpu' = server_gpu
    BY <1>u, ServerFrame, Zenon DEF serverFrame
  <2>2. Recorded(x)' = Recorded(x)
    BY <1>2, Zenon DEF Recorded
  <2>3. CASE x # s
    <3>1. AnsweredPulls(x)' = AnsweredPulls(x)
      BY <2>1, <2>3, <1>9, <1>10, Zenon DEF AnsweredPulls
    <3> QED
      BY <2>2, <2>3, <3>1, <1>2, <1>15, <1>u, OtherPool, Zenon
  <2>4. CASE x = s
    <3>1. PoolKept(s)
      BY DEF ServerEvents
    <3>2. PICK q : q = server_events'[s]
      OBVIOUS
    <3>3. /\ InUse(pool) \subseteq InUse(q) /\ \A e \in InUse(pool) : q[e] = pool[e]
          /\ InUse(q) = IF p[1].op = "pull" THEN InUse(pool) \union {ev} ELSE InUse(pool)
      <4>1. CASE p[1].op = "pull"
        <5>1. q = Occupied(pool, ev, 0)
          BY <4>1, <3>2, <1>15, Zenon
        <5>2. InUse(q) = InUse(pool) \union {ev} /\ \A e \in InUse(pool) : q[e] = pool[e]
          <6>1. EventTaken(pool, ev, 0, q)
            BY <5>1, <1>e, Zenon
          <6> QED
            BY <6>1, Zenon DEF EventTaken
        <5> QED
          BY <4>1, <5>2, Zenon
      <4>2. CASE p[1].op # "pull"
        BY <4>2, <3>2, <1>15, Zenon
      <4> QED
        BY <4>1, <4>2, Zenon
    <3>4. InUse(server_events[s])' = InUse(q) /\ InUse(server_events[s]) = InUse(pool)
      BY <3>2, <1>a, Zenon DEF InUse
    <3>5. Recorded(s) \subseteq InUse(pool)
      BY <3>1, <3>4, Zenon DEF PoolKept
    <3>6. Cardinality(Orphans(s)') <= Cardinality(AnsweredPulls(s)')
      <4>1. /\ Cardinality(Orphans(s)) <= Cardinality(AnsweredPulls(s))
            /\ IsFiniteSet(Orphans(s)) /\ Cardinality(Orphans(s)) \in Nat
        BY <3>1, PoolFinite, Zenon DEF PoolKept
      <4>2. IsFiniteSet(AnsweredPulls(s)) /\ IsFiniteSet(SinglePulls)
        BY <1>3, AnsweredFinite, Zenon
      <4>3. AnsweredPulls(s) \subseteq AnsweredPulls(s)'
        <5>1. ASSUME NEW ts \in AnsweredPulls(s)
              PROVE  ts \in AnsweredPulls(s)'
          <6>1. /\ ts \in SinglePulls /\ ts < Begun(s)
                /\ \A i \in 1 .. n : PendingTs(s, i) # ts
            BY <1>0, Zenon DEF AnsweredPulls
          <6>2. \A i \in DOMAIN pending'[s] : PendingTs(s, i)' # ts
            BY <6>1, <1>10, Zenon
          <6> QED
            BY <6>1, <6>2, <2>1, <1>10, Zenon DEF AnsweredPulls
        <5> QED
          BY <5>1, Zenon
      <4>4. AnsweredPulls(s)' \subseteq SinglePulls
        BY <2>1, Zenon DEF AnsweredPulls
      <4>5. IsFiniteSet(AnsweredPulls(s)')
        BY <4>2, <4>4, FS_Subset, Zenon
      <4>6. CASE p[1].op # "pull"
        <5>1. Orphans(s)' = Orphans(s)
          BY <4>6, <2>2, <2>4, <3>3, <3>4, Zenon DEF Orphans
        <5>2. /\ Cardinality(AnsweredPulls(s)) <= Cardinality(AnsweredPulls(s)')
              /\ Cardinality(AnsweredPulls(s)) \in Nat /\ Cardinality(AnsweredPulls(s)') \in Nat
          BY <4>2, <4>3, <4>5, FS_Subset, FS_CardinalityType, Zenon
        <5> QED
          BY <4>1, <5>1, <5>2
      <4>7. CASE p[1].op = "pull"
        <5>1. Orphans(s)' = Orphans(s) \union {ev} /\ ev \notin Orphans(s)
          BY <4>7, <2>2, <2>4, <3>3, <3>4, <3>5, <1>14, Zenon DEF Orphans
        <5>2. Cardinality(Orphans(s)') = Cardinality(Orphans(s)) + 1
          BY <5>1, <4>1, FS_AddElement, Zenon
        <5>3. t \in SinglePulls
          BY <4>7, <1>5, Zenon DEF SinglePulls, BatchAt
        <5>4. t \notin AnsweredPulls(s)
          BY <1>1, <1>6, Zenon DEF AnsweredPulls
        <5>5. t \in AnsweredPulls(s)'
          <6>1. \A i, j \in DOMAIN pending[s] : i < j => PendingTs(s, i) < PendingTs(s, j)
            BY Zenon DEF Waiting
          <6>2. \A i \in 1 .. n - 1 : i + 1 \in DOMAIN pending[s] /\ 1 < i + 1
            BY <1>0
          <6>3. \A i \in 1 .. n - 1 : t < PendingTs(s, i + 1)
            BY <6>1, <6>2, <1>1, <1>6, Zenon
          <6>4. \A i \in DOMAIN pending'[s] : PendingTs(s, i)' # t
            BY <6>3, <1>6, <1>10
          <6> QED
            BY <6>4, <5>3, <2>1, <1>6, <1>10, Zenon DEF AnsweredPulls
        <5>6. AnsweredPulls(s) \union {t} \subseteq AnsweredPulls(s)'
          BY <4>3, <5>5, Zenon
        <5>7. /\ Cardinality(AnsweredPulls(s) \union {t}) = Cardinality(AnsweredPulls(s)) + 1
              /\ IsFiniteSet(AnsweredPulls(s) \union {t})
          BY <4>2, <5>4, FS_AddElement, Zenon
        <5>8. /\ Cardinality(AnsweredPulls(s) \union {t}) <= Cardinality(AnsweredPulls(s)')
              /\ Cardinality(AnsweredPulls(s)') \in Nat /\ Cardinality(AnsweredPulls(s)) \in Nat
          BY <4>2, <4>5, <5>6, FS_Subset, FS_CardinalityType, Zenon
        <5> QED
          BY <4>1, <5>2, <5>7, <5>8
      <4> QED
        BY <4>6, <4>7, Zenon
    <3>7. ASSUME NEW i \in DOMAIN response_queue[s], response_queue[s][i].msg # Null
          PROVE  \/ response_queue[s][i].work <= server_gpu[s]
                 \/ \E j \in 1 .. i :
                       /\ response_queue[s][j].event # 0
                       /\ response_queue[s][i].work <= q[response_queue[s][j].event].recorded
      <4>1. CASE response_queue[s][i].work <= server_gpu[s]
        BY <4>1, Zenon
      <4>2. CASE \E j \in 1 .. i :
                    /\ response_queue[s][j].event # 0
                    /\ response_queue[s][i].work <= pool[response_queue[s][j].event].recorded
        <5>1. PICK j \in 1 .. i :
                 /\ response_queue[s][j].event # 0
                 /\ response_queue[s][i].work <= pool[response_queue[s][j].event].recorded
          BY <4>2, Zenon
        <5>2. j \in DOMAIN response_queue[s]
          <6>1. response_queue[s] \in Seq(ResponseItem)
            BY Zenon DEF ServerTypes
          <6> QED
            BY <6>1
        <5>3. response_queue[s][j].event \in InUse(pool)
          BY <5>1, <5>2, <3>5, Zenon DEF Recorded
        <5>4. q[response_queue[s][j].event] = pool[response_queue[s][j].event]
          BY <5>3, <3>3, Zenon
        <5> QED
          BY <5>1, <5>4, Zenon
      <4> QED
        BY <4>1, <4>2, <3>1, <3>7, <1>a, Zenon DEF PoolKept
    <3>8. Recorded(s)' \subseteq InUse(server_events[s])'
      BY <2>2, <2>4, <3>3, <3>4, <3>5, Zenon
    <3>9. \A i, j \in DOMAIN response_queue[s] :
             /\ response_queue[s][i].event # 0
             /\ response_queue[s][i].event = response_queue[s][j].event
             => i = j
      BY <3>1, Zenon DEF PoolKept
    <3> QED
      BY <2>1, <2>4, <3>2, <3>6, <3>7, <3>8, <3>9, <1>2, Zenon DEF PoolKept
  <2> QED
    BY <2>3, <2>4
<1>18. ServerEvents'
  BY <1>17, <1>u, ServerFrame, Zenon DEF ServerEvents
<1> QED
  BY <1>10, <1>11, <1>13, <1>16, <1>18, <1>u, AFServerStep, Zenon

(* The responder of server s takes the first item of its queue.            *)
LEMMA ResponseTaken ==
    ASSUME Shared, AFInv, NEW s \in Servers, response_queue[s] # <<>>,
           UNCHANGED serverFrame,
           UNCHANGED <<to_server, batch_data, pending, server_submitted>>,
           response_queue' = [response_queue EXCEPT ![s] = Tail(@)],
           NEW l, l = Len(response_queue[s])
    PROVE  /\ l \in Nat /\ l > 0 /\ DOMAIN response_queue[s] = 1 .. l
           /\ DOMAIN response_queue'[s] = 1 .. l - 1
           /\ \A i \in 1 .. l - 1 : /\ response_queue'[s][i] = response_queue[s][i + 1]
                                    /\ i + 1 \in 1 .. l
           /\ \A t \in Servers : t # s => response_queue'[t] = response_queue[t]
           /\ response_queue' \in [Servers -> Seq(ResponseItem)]
           /\ \A t : /\ Handled(t)' = Handled(t) /\ Begun(t)' = Begun(t)
                     /\ AnsweredPulls(t)' = AnsweredPulls(t)
           /\ \A t, i : PendingTs(t, i)' = PendingTs(t, i)
           /\ InOrder' /\ Waiting' /\ Responses'
<1> USE DEF AFInv
<1>0. response_queue \in [Servers -> Seq(ResponseItem)] /\ response_queue[s] \in Seq(ResponseItem)
  BY DEF ServerTypes
<1>1. /\ l \in Nat /\ l > 0 /\ DOMAIN response_queue[s] = 1 .. l
      /\ DOMAIN response_queue'[s] = 1 .. l - 1
      /\ \A i \in 1 .. l - 1 : /\ response_queue'[s][i] = response_queue[s][i + 1]
                               /\ i + 1 \in 1 .. l
      /\ \A t \in Servers : t # s => response_queue'[t] = response_queue[t]
      /\ response_queue' \in [Servers -> Seq(ResponseItem)]
  BY <1>0
<1>2. \A t : Handled(t)' = Handled(t)
  BY ServerFrame DEF Handled
<1>3. \A t : Begun(t)' = Begun(t)
  BY <1>2 DEF Begun
<1>4. \A t, i : PendingTs(t, i)' = PendingTs(t, i)
  BY DEF PendingTs
<1>5. InOrder'
  <2>1. ASSUME NEW t \in Servers, NEW x, NEW y, x = Handled(t)', y = Begun(t)'
        PROVE  /\ y >= 0
               /\ \A i \in DOMAIN to_server'[t] : to_server'[t][i] = Message(x + i - 1)
               /\ \A i \in DOMAIN batch_data'[t] : batch_data'[t][i] = Message(y + i - 1)
               /\ y < Enqueued => BatchAt(y).first = y
               /\ batch_data'[t] # <<>> => x <= LastOf(BatchAt(y))
    <3>1. x = Handled(t) /\ y = Begun(t)
      BY <2>1, <1>2, <1>3
    <3> QED
      BY <3>1 DEF InOrder
  <2> QED
    BY <2>1, InOrderNext
<1>6. Waiting'
  <2>1. ASSUME NEW t \in Servers, NEW i \in DOMAIN pending'[t],
               NEW u, u = pending'[t][i][1].ts
        PROVE  /\ u \in Timestamps /\ BatchAt(u).first = u /\ LastOf(BatchAt(u)) < Begun(t)'
               /\ pending'[t][i] = Whole(BatchAt(u))
    BY <2>1, <1>3, Zenon DEF Waiting
  <2>2. \A t \in Servers : \A i, j \in DOMAIN pending'[t] : i < j => PendingTs(t, i)' < PendingTs(t, j)'
    BY <1>4, Zenon DEF Waiting
  <2> QED
    BY <2>1, <2>2, WaitingNext
<1>7. Responses'
  <2>1. ASSUME NEW t \in Servers, NEW i \in DOMAIN response_queue'[t]
        PROVE  \E j \in DOMAIN response_queue[t] : response_queue'[t][i] = response_queue[t][j]
    <3>1. CASE t # s
      BY <3>1, <1>1
    <3>2. CASE t = s
      BY <3>2, <1>1
    <3> QED
      BY <3>1, <3>2
  <2>2. ASSUME NEW t \in Servers, NEW i \in DOMAIN response_queue'[t],
               NEW m, m = response_queue'[t][i].msg
        PROVE  /\ m = Null => response_stop[t] /\ response_queue'[t][i].event = 0
               /\ m # Null =>
                     /\ m.ts \in Timestamps
                     /\ m.ts = LastOf(BatchAt(m.ts)) /\ m.ts < Begun(t)' /\ m = Message(m.ts)
                     /\ BatchAt(m.ts).pull = 1 /\ m.cmd # "single"
                     /\ response_queue'[t][i].val = PushTs(BatchAt(m.ts))
                     /\ \A j \in DOMAIN pending'[t] : m.ts < PendingTs(t, j)'
    <3>1. PICK k \in DOMAIN response_queue[t] : response_queue'[t][i] = response_queue[t][k]
      BY <2>1
    <3>2. m = response_queue[t][k].msg
      BY <3>1, <2>2
    <3>3. /\ m = Null => response_stop[t] /\ response_queue[t][k].event = 0
          /\ m # Null =>
                /\ m.ts \in Timestamps
                /\ m.ts = LastOf(BatchAt(m.ts)) /\ m.ts < Begun(t) /\ m = Message(m.ts)
                /\ BatchAt(m.ts).pull = 1 /\ m.cmd # "single"
                /\ response_queue[t][k].val = PushTs(BatchAt(m.ts))
                /\ \A j \in DOMAIN pending[t] : m.ts < PendingTs(t, j)
      BY <3>2, Zenon DEF Responses
    <3> QED
      BY <3>1, <3>3, <1>3, <1>4, Zenon
  <2>3. ASSUME NEW t \in Servers, NEW i \in DOMAIN response_queue'[t],
               NEW j \in DOMAIN response_queue'[t], i < j,
               response_queue'[t][i].msg # Null, response_queue'[t][j].msg # Null
        PROVE  response_queue'[t][i].msg.ts < response_queue'[t][j].msg.ts
    <3>1. CASE t # s
      <4>1. response_queue'[t] = response_queue[t]
        BY <3>1, <1>1
      <4> QED
        BY <4>1, <2>3, Zenon DEF Responses
    <3>2. CASE t = s
      <4>1. /\ i + 1 \in DOMAIN response_queue[s] /\ j + 1 \in DOMAIN response_queue[s]
            /\ i + 1 < j + 1
            /\ response_queue'[s][i] = response_queue[s][i + 1]
            /\ response_queue'[s][j] = response_queue[s][j + 1]
        BY <3>2, <2>3, <1>1
      <4>2. response_queue[s][i + 1].msg.ts < response_queue[s][j + 1].msg.ts
        BY <4>1, <3>2, <2>3 DEF Responses
      <4> QED
        BY <4>1, <4>2, <3>2, Zenon
    <3> QED
      BY <3>1, <3>2, Zenon
  <2> QED
    BY <2>2, <2>3, ResponsesNext, Zenon
<1>8. \A t : AnsweredPulls(t)' = AnsweredPulls(t)
  BY <1>3, <1>4, ServerFrame, Zenon DEF AnsweredPulls
<1> QED
  BY <1>1, <1>2, <1>3, <1>4, <1>5, <1>6, <1>7, <1>8, Zenon

(* The thread finds the stop flag: what it throws away is empty.           *)
LEMMA AFPopStopped ==
    ASSUME Shared, AFInv, app = "af", NEW s \in Servers, PopResponse(s), response_stop[s]
    PROVE  Shared' /\ AFInv'
<1> USE DEF AFInv
<1>a. PICK l : l = Len(response_queue[s])
  BY Zenon
<1>1. /\ ~raced /\ response_queue[s] # <<>>
      /\ response_queue' = [response_queue EXCEPT ![s] = Tail(@)]
      /\ UNCHANGED serverFrame
      /\ UNCHANGED <<raced, to_server, to_worker, batch_data, pending, server_submitted,
                     server_events>>
  BY Zenon DEF PopResponse, Running, serverFrame, confVars, tableVars, endVars, programVars,
         pullVars, peerVars, workerVars, senderVars, gpuVars, sgpuVars
<1>u. UNCHANGED serverFrame
  BY <1>1, Zenon
<1>2. /\ l \in Nat /\ DOMAIN response_queue[s] = 1 .. l
      /\ DOMAIN response_queue'[s] = 1 .. l - 1
      /\ \A i \in 1 .. l - 1 : /\ response_queue'[s][i] = response_queue[s][i + 1]
                               /\ i + 1 \in 1 .. l
      /\ \A t \in Servers : t # s => response_queue'[t] = response_queue[t]
      /\ response_queue' \in [Servers -> Seq(ResponseItem)]
      /\ \A t : /\ Handled(t)' = Handled(t) /\ Begun(t)' = Begun(t)
                /\ AnsweredPulls(t)' = AnsweredPulls(t)
      /\ \A t, i : PendingTs(t, i)' = PendingTs(t, i)
      /\ InOrder' /\ Waiting' /\ Responses'
  BY <1>1, <1>a, ResponseTaken, ZenonT(30)
<1>3. \A i \in 1 .. l : response_queue[s][i].msg = Null /\ response_queue[s][i].event = 0
  <2>1. AllWaited
    BY Zenon DEF Waits, Stopping
  <2>2. \A i \in DOMAIN response_queue[s] : response_queue[s][i].msg = Null
    BY <2>1, AllAnswered, Zenon
  <2> QED
    <3>1. \A i \in DOMAIN response_queue[s] : response_queue[s][i].msg = Null =>
             response_queue[s][i].event = 0
      BY Zenon DEF Responses
    <3> QED
      BY <3>1, <2>2, <1>2, Zenon
<1>4. \A i \in 1 .. l - 1 : response_queue'[s][i].msg = Null /\ response_queue'[s][i].event = 0
  <2> TAKE i \in 1 .. l - 1
  <2>1. response_queue'[s][i] = response_queue[s][i + 1] /\ i + 1 \in 1 .. l
    BY <1>2, Zenon
  <2>2. response_queue[s][i + 1].msg = Null /\ response_queue[s][i + 1].event = 0
    BY <1>3, <2>1, Zenon
  <2> QED
    BY <2>1, <2>2, Zenon
<1>5. ASSUME NEW t \in Servers, NEW ts \in Timestamps
      PROVE  AFOwes(t, ts)' <=> AFOwes(t, ts)
  <2>1. CASE t # s
    BY <2>1, <1>1, <1>2, Zenon DEF AFOwes
  <2>2. CASE t = s
    BY <2>2, <1>1, <1>2, <1>3, <1>4, Zenon DEF AFOwes
  <2> QED
    BY <2>1, <2>2
<1>6. Shared'
  <2>1. Servers' = Servers /\ Timestamps' = Timestamps
    BY <1>u, ServerFrame
  <2>2. Types'
    BY <2>1, <1>1, Zenon DEF Shared, Types, serverFrame
  <2>3. app' = app /\ \A t \in Servers, ts \in Timestamps : Owes(t, ts)' <=> Owes(t, ts)
    BY <1>1, <1>5 DEF Owes, serverFrame
  <2> QED
    BY <1>1, <2>2, <2>3, NothingMoves, Zenon DEF Shared, WaitedFinished, serverFrame
<1>7. Answers'
  BY <1>1, FrameAnswers, Zenon DEF serverFrame
<1>8. ServerTypes'
  <2>1. Servers' = Servers
    BY <1>u, ServerFrame
  <2> QED
    BY <2>1, <1>1, <1>2, Zenon DEF ServerTypes, serverFrame
<1>9. ASSUME NEW t \in Servers
      PROVE  PoolKept(t)'
  <2>1. Recorded(t)' = Recorded(t)
    <3>1. CASE t # s
      BY <3>1, <1>2 DEF Recorded
    <3>2. CASE t = s
      <4>1. Recorded(s) = {}
        BY <1>2, <1>3, Zenon DEF Recorded
      <4>2. Recorded(s)' = {}
        BY <1>2, <1>4, Zenon DEF Recorded
      <4> QED
        BY <3>2, <4>1, <4>2
    <3> QED
      BY <3>1, <3>2
  <2>2. CASE t # s
    BY <2>1, <2>2, <1>1, <1>2, <1>u, OtherPool, Zenon
  <2>3. CASE t = s
    <3>1. PoolKept(s)
      BY DEF ServerEvents
    <3>2. InUse(server_events[s])' = InUse(server_events[s])
      BY <1>1, Zenon DEF InUse
    <3>3. Orphans(s)' = Orphans(s)
      BY <2>1, <2>3, <3>2, Zenon DEF Orphans
    <3> QED
      BY <2>1, <2>3, <3>1, <3>2, <3>3, <1>2, <1>4, Zenon DEF PoolKept
  <2> QED
    BY <2>2, <2>3
<1>10. ServerEvents'
  BY <1>9, <1>u, ServerFrame DEF ServerEvents
<1> QED
  BY <1>2, <1>6, <1>7, <1>8, <1>10, <1>u, AFServerStep, Zenon

=============================================================================
