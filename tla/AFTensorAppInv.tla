--------------------------- MODULE AFTensorAppInv ---------------------------
(***************************************************************************)
(* The inductive invariant of KVApp and AFTensorApp, for every number of   *)
(* servers, every bound and every set of calls.  AFTensorWorkerProofs and  *)
(* AFTensorAppProofs prove it.                                             *)
(*                                                                         *)
(* The invariant IInv has a part for both applications, Shared, and one    *)
(* for each of them.  Shared says where the answer of every server to      *)
(* every request is, so that a count that is complete leaves nothing       *)
(* outstanding.  KVInv says what the stores and the parts of a pull hold.  *)
(* AFInv follows the timestamps in order from the program to the answer,   *)
(* and the events from GetEvent to Release.                                *)
(***************************************************************************)
EXTENDS AFTensorApp

-----------------------------------------------------------------------------
Ops == {"push", "pull"}
Event == [released : BOOLEAN, recorded : Nat]
Counter == [count : Nat, response_count : Nat]
KVRequest == [op : Ops, slice : SUBSET Nat, seen : SUBSET Nat]
KVMessage == [op : Ops, ts : Nat, cmd : {0}]
AFRequest == [op : Ops, batch : Batch]
Item == [batch : Batch \union {Null}, event : Nat, work : Nat]
ResponseItem == [msg : Request \union {Null}, val : SUBSET Nat, work : Nat, event : Nat]
Part == [server : Nat, val : SUBSET Nat]

LastOf(b) == b.first + Size(b) - 1
BatchAt(ts) == requests[ts + 1].batch
PushTs(b) == b.first .. b.first + b.push - 1

(***************************************************************************)
(* The program has given timestamps below Enqueued to the sending thread,  *)
(* which has sent those below Sent.  Server s has handled those below      *)
(* Handled(s); the unfinished batch begins at Begun(s).                    *)
(***************************************************************************)
Enqueued == IF pc \in {"alloc", "enqueue"} THEN cur.first ELSE Len(tracker)

QueueFirst(i) ==
    IF i \in DOMAIN pushpull_queue /\ pushpull_queue[i] # Empty
    THEN pushpull_queue[i].batch.first ELSE Enqueued

Sent == IF sender.at = "send" THEN sender.next ELSE QueueFirst(1)
Handled(s) == Sent - Len(to_server[s])
Begun(s) == Handled(s) - Len(batch_data[s])

(* Server s has still to answer ts; its answer is under way.               *)
KVOwes(s, ts) ==
    \/ pc = "send" /\ ts = Len(tracker) - 1
    \/ \E i \in DOMAIN to_server[s] : to_server[s][i].ts = ts

PendingTs(s, i) == pending[s][i][Len(pending[s][i])].ts

AFOwes(s, ts) ==
    \/ ts >= Handled(s)
    \/ \E i \in DOMAIN pending[s] : PendingTs(s, i) = ts
    \/ \E i \in DOMAIN response_queue[s] :
          response_queue[s][i].msg # Null /\ response_queue[s][i].msg.ts = ts

Owes(s, ts) == (app = "kv" /\ KVOwes(s, ts)) \/ (app = "af" /\ AFOwes(s, ts))

Out(s, ts) == \E i \in DOMAIN to_worker[s] : to_worker[s][i].ts = ts

Unanswered(ts) == {s \in Servers : Owes(s, ts) \/ Out(s, ts)}
Taken(ts) == IF rcv # Null /\ rcv.ts = ts THEN 1 ELSE 0

-----------------------------------------------------------------------------
(* Both applications.                                                      *)
Types ==
    /\ app \in Apps /\ num_servers \in ServerCounts
    /\ tracker \in Seq(Counter)
    /\ Len(tracker) <= MaxRequests[num_servers]
    /\ \A ts \in Timestamps : tracker[ts + 1].count = num_servers
    /\ waited \subseteq Timestamps
    /\ recv_kvs \in [0 .. MaxRequests[num_servers] - 1 -> Seq(Part)]
    /\ \A ts \in DOMAIN recv_kvs : ts >= Len(tracker) => recv_kvs[ts] = <<>>
    /\ to_worker \in [Servers -> Seq(KVReply \union Reply)]
    /\ rcv \in KVReply \union Reply \union {Null}
    /\ rcv # Null => rcv.ts \in Timestamps

Counted ==
    \A ts \in Timestamps :
        tracker[ts + 1].response_count + Cardinality(Unanswered(ts)) + Taken(ts)
            = num_servers

Once ==
    \A s \in Servers :
        /\ \A i \in DOMAIN to_worker[s] :
              /\ to_worker[s][i].ts \in Timestamps
              /\ ~Owes(s, to_worker[s][i].ts)
        /\ \A i, j \in DOMAIN to_worker[s] :
              to_worker[s][i].ts = to_worker[s][j].ts => i = j

WaitedFinished == \A ts \in waited : Finished(ts)

Shared == Types /\ Counted /\ Once /\ WaitedFinished /\ RaceNeedsOverlap

-----------------------------------------------------------------------------
(* KVWorker and KVServer.                                                  *)
KVTypes ==
    /\ Len(requests) = Len(tracker)
    /\ requests \in Seq(KVRequest)
    /\ \A ts \in Timestamps : requests[ts + 1].slice \subseteq Servers
    /\ pc \in {"idle", "alloc", "send", "wait"}
    /\ pc \in {"alloc", "send"} => cur \in [op : Ops, slice : SUBSET Servers]
    /\ pc = "alloc" => Len(tracker) < MaxRequests[num_servers]
    /\ pc = "send" => /\ tracker # <<>>
                      /\ requests[Len(tracker)].op = cur.op
                      /\ requests[Len(tracker)].slice = cur.slice
    /\ to_server \in [Servers -> Seq(KVMessage)]
    /\ pc = "wait" => cur.ts \in Timestamps
    /\ store \in [Servers -> SUBSET Nat]
    /\ \A ts \in Timestamps : requests[ts + 1].seen \subseteq Timestamps

ForServer(s, m) ==
    /\ m.ts \in Timestamps
    /\ m.op = requests[m.ts + 1].op
    /\ s \in requests[m.ts + 1].slice

KVMessages ==
    \A s \in Servers :
        /\ \A i \in DOMAIN to_server[s] :
              /\ ForServer(s, to_server[s][i])
              /\ pc = "send" => to_server[s][i].ts # Len(tracker) - 1
        /\ \A i, j \in DOMAIN to_server[s] :
              to_server[s][i].ts = to_server[s][j].ts => i = j
        /\ \A i \in DOMAIN to_worker[s] :
              LET m == to_worker[s][i]
              IN  /\ ForServer(s, m)
                  /\ m.op = "push" => m.ts \in store[s]
                  /\ m.op = "pull" => Mine(m.ts, s) \subseteq m.val

KVSeen == \A ts \in Timestamps, s \in Servers : Mine(ts, s) \subseteq store[s]

Got(ts, s) == {i \in DOMAIN recv_kvs[ts] : recv_kvs[ts][i].server = s}

KVGot ==
    \A ts \in Timestamps : \A s \in requests[ts + 1].slice :
        /\ requests[ts + 1].op = "push" /\ ~KVOwes(s, ts) => ts \in store[s]
        /\ requests[ts + 1].op = "pull" =>
              IF KVOwes(s, ts) \/ Out(s, ts) THEN Got(ts, s) = {}
              ELSE ts \notin filled =>
                      /\ Cardinality(Got(ts, s)) = 1
                      /\ \A i \in Got(ts, s) : Mine(ts, s) \subseteq recv_kvs[ts][i].val

(* AFTensorWorker and AFTensorServer do nothing.                           *)
KVAlone ==
    /\ pushpull_queue = <<>> /\ sender.at = "pop"
    /\ \A s \in Servers : pending[s] = <<>> /\ response_queue[s] = <<>>

KVInv == KVAlone /\ KVTypes /\ KVMessages /\ KVSeen /\ KVGot

-----------------------------------------------------------------------------
(* AFTensorWorker and AFTensorServer.                                      *)
GoodBatch(b) ==
    /\ b \in Batch
    /\ b.pull = 1 \/ (b.push = 1 /\ b.pull = 0)
    /\ num_servers > 1 => b.push > 0

Message(ts) ==
    [op |-> requests[ts + 1].op, ts |-> ts, cmd |-> Cmd(BatchAt(ts), ts),
     ready |-> TRUE]

Whole(b) == [k \in 1 .. Size(b) |-> Message(b.first + k - 1)]

ProgramTypes ==
    /\ Len(requests) = Len(tracker)
    /\ requests \in Seq(AFRequest)
    /\ pc \in {"idle", "alloc", "enqueue", "emplace", "wait"}
    /\ pc \in {"alloc", "enqueue", "emplace"} =>
          /\ GoodBatch(cur)
          /\ LastOf(cur) < MaxRequests[num_servers]
          /\ \A ts \in waited : ts < cur.first
          /\ IF pc = "alloc" THEN Len(tracker) \in cur.first .. LastOf(cur)
                             ELSE Len(tracker) = LastOf(cur) + 1

QueueTypes ==
    /\ pushpull_queue \in Seq(Item)
    /\ pushpull_stop \in BOOLEAN
    /\ sender \in [at : {"check", "pop", "send", "ended"}, next : Nat, req : Item]
    /\ submitted \in Nat /\ gpu \in Nat
    /\ events \in Seq(Event)

ServerTypes ==
    /\ to_server \in [Servers -> Seq(Request)]
    /\ batch_data \in [Servers -> Seq(Request)]
    /\ pending \in [Servers -> Seq(Seq(Request))]
    /\ response_queue \in [Servers -> Seq(ResponseItem)]
    /\ response_stop \in [Servers -> BOOLEAN]
    /\ server_submitted \in [Servers -> Nat] /\ server_gpu \in [Servers -> Nat]
    /\ server_events \in [Servers -> Seq(Event)]

(* A timestamp and its call.                                               *)
Calls ==
    \A ts \in Timestamps :
        LET b == BatchAt(ts)
        IN  /\ GoodBatch(b)
            /\ ts \in TimestampsOf(b)
            /\ requests[ts + 1].op = IF ts < b.first + b.push THEN "push" ELSE "pull"
            /\ \A t \in TimestampsOf(b) \intersect Timestamps : BatchAt(t) = b
            /\ IF ts < Enqueued THEN LastOf(b) < Enqueued ELSE b = cur

(* What is waited for.                                                     *)
Waits ==
    /\ \A b \in batch_timestamps :
          /\ b \in Batch
          /\ b.first \in Timestamps /\ b.first < Enqueued /\ BatchAt(b.first) = b
          /\ \A t \in TimestampsOf(b) : t \notin waited
    /\ \A h \in waited : TimestampsOf(BatchAt(h)) \subseteq waited
    /\ pc = "wait" =>
          \E b \in batch_timestamps :
              /\ cur.ts \in TimestampsOf(b)
              /\ \A t \in b.first .. cur.ts - 1 : Finished(t)
    /\ pc = "emplace" => BatchAt(cur.first) = cur
    /\ Stopping => AllWaited

(* The queue and the sending thread.                                       *)
Chain ==
    /\ \A i \in DOMAIN pushpull_queue :
          LET b == pushpull_queue[i].batch
          IN  IF pushpull_stop THEN pushpull_queue[i] = Empty
              ELSE /\ b \in Batch
                   /\ b.first < Enqueued /\ BatchAt(b.first) = b
                   /\ LastOf(b) + 1 = QueueFirst(i + 1)
    /\ sender.at = "send" =>
          LET b == sender.req.batch
          IN  /\ b \in Batch
              /\ b.first < Enqueued /\ BatchAt(b.first) = b
              /\ sender.next \in TimestampsOf(b)
              /\ LastOf(b) + 1 = QueueFirst(1)

(* A server gets the timestamps in order.                                  *)
InOrder ==
    \A s \in Servers :
        /\ Begun(s) >= 0
        /\ \A i \in DOMAIN to_server[s] : to_server[s][i] = Message(Handled(s) + i - 1)
        /\ \A i \in DOMAIN batch_data[s] : batch_data[s][i] = Message(Begun(s) + i - 1)
        /\ Begun(s) < Enqueued => BatchAt(Begun(s)).first = Begun(s)
        /\ batch_data[s] # <<>> => Handled(s) <= LastOf(BatchAt(Begun(s)))

Waiting ==
    \A s \in Servers :
        /\ \A i \in DOMAIN pending[s] :
              LET t == pending[s][i][1].ts
              IN  /\ t \in Timestamps
                  /\ BatchAt(t).first = t /\ LastOf(BatchAt(t)) < Begun(s)
                  /\ pending[s][i] = Whole(BatchAt(t))
        /\ \A i, j \in DOMAIN pending[s] : i < j => PendingTs(s, i) < PendingTs(s, j)

Responses ==
    \A s \in Servers :
        /\ \A i \in DOMAIN response_queue[s] :
              LET m == response_queue[s][i].msg
                  b == BatchAt(m.ts)
              IN  IF m = Null THEN response_stop[s] /\ response_queue[s][i].event = 0
                  ELSE /\ m.ts \in Timestamps
                       /\ m.ts = LastOf(b) /\ m.ts < Begun(s) /\ m = Message(m.ts)
                       /\ b.pull = 1 /\ m.cmd # "single"
                       /\ response_queue[s][i].val = PushTs(b)
                       /\ \A j \in DOMAIN pending[s] : m.ts < PendingTs(s, j)
        /\ \A i, j \in DOMAIN response_queue[s] :
              /\ i < j
              /\ response_queue[s][i].msg # Null /\ response_queue[s][j].msg # Null
              => response_queue[s][i].msg.ts < response_queue[s][j].msg.ts

Single(ts) == Cmd(BatchAt(ts), ts) = "single"

Answers ==
    \A s \in Servers : \A i \in DOMAIN to_worker[s] :
        LET m == to_worker[s][i]
        IN  /\ m.op = requests[m.ts + 1].op
            /\ ~Single(m.ts) => m.ready
            /\ m.op = "pull" /\ ~Single(m.ts) => m.val = PushTs(BatchAt(m.ts))

Parts ==
    \A ts \in Timestamps : requests[ts + 1].op = "pull" =>
        /\ Len(recv_kvs[ts]) = tracker[ts + 1].response_count + Taken(ts)
        /\ ~Single(ts) =>
              \A i \in DOMAIN recv_kvs[ts] : recv_kvs[ts][i].val = PushTs(BatchAt(ts))

(* The events of the worker.                                               *)
WorkerEvents ==
    /\ gpu <= submitted
    /\ sender.at = "send" => sender.req.work <= gpu
    /\ \A i \in DOMAIN pushpull_queue : pushpull_queue[i] # Empty =>
          /\ pushpull_queue[i].event \in DOMAIN events
          /\ events[pushpull_queue[i].event] =
                [released |-> FALSE, recorded |-> pushpull_queue[i].work]
    /\ \A i, j \in DOMAIN pushpull_queue :
          /\ pushpull_queue[i] # Empty /\ pushpull_queue[j] # Empty
          /\ pushpull_queue[i].event = pushpull_queue[j].event
          => i = j
    /\ \A e \in InUse(events) : \E i \in DOMAIN pushpull_queue : pushpull_queue[i].event = e

(* The events of a server.  An orphan was taken for a single pull.         *)
Recorded(s) == {response_queue[s][i].event : i \in DOMAIN response_queue[s]} \ {0}
Orphans(s) == InUse(server_events[s]) \ Recorded(s)

AnsweredPulls(s) ==
    {ts \in SinglePulls : ts < Begun(s) /\ \A i \in DOMAIN pending[s] : PendingTs(s, i) # ts}

PoolKept(s) ==
    /\ Recorded(s) \subseteq InUse(server_events[s])
    /\ \A i, j \in DOMAIN response_queue[s] :
          /\ response_queue[s][i].event # 0
          /\ response_queue[s][i].event = response_queue[s][j].event
          => i = j
    /\ \A i \in DOMAIN response_queue[s] : response_queue[s][i].msg # Null =>
          \/ response_queue[s][i].work <= server_gpu[s]
          \/ \E j \in 1 .. i :
                /\ response_queue[s][j].event # 0
                /\ response_queue[s][i].work <=
                      server_events[s][response_queue[s][j].event].recorded
    /\ Cardinality(Orphans(s)) <= Cardinality(AnsweredPulls(s))

ServerEvents == \A s \in Servers : PoolKept(s)

AFInv ==
    /\ ProgramTypes /\ QueueTypes /\ ServerTypes
    /\ Calls /\ Waits /\ Chain /\ InOrder /\ Waiting /\ Responses
    /\ Answers /\ Parts /\ WorkerEvents /\ ServerEvents

IInv == Shared /\ (app = "kv" => KVInv) /\ (app = "af" => AFInv)

-----------------------------------------------------------------------------
(* What the invariant reads with KVWorker, and with AFTensorWorker; what a *)
(* step of an AFTensorServer leaves alone.                                 *)
kvProofVars == <<app, num_servers, tracker, requests, to_server, to_worker, rcv,
                 recv_kvs, filled, store, pushpull_queue, sender, pending,
                 response_queue>>

afProofVars == <<app, num_servers, tracker, requests, pc, cur, waited, recv_kvs,
                 to_server, to_worker, rcv, pushpull_queue, batch_timestamps,
                 pushpull_stop, sender, submitted, events, batch_data, pending,
                 response_queue, response_stop, server_submitted, server_events>>

serverFrame == <<app, num_servers, tracker, requests, pc, cur, waited, recv_kvs, rcv,
                 pushpull_queue, batch_timestamps, pushpull_stop, sender, submitted, gpu,
                 events, response_stop, server_gpu>>

(* Server s is done with the first k of its n waiting calls.               *)
Dropped(s, k, n) ==
    /\ k \in Nat /\ k <= n /\ n = Len(pending[s])
    /\ pending'[s] \in Seq(Seq(Request)) /\ Len(pending'[s]) = n - k
    /\ \A i \in 1 .. n - k : pending'[s][i] = pending[s][i + k]
    /\ \A t \in Servers : t # s => pending'[t] = pending[t]
    /\ UNCHANGED <<to_server, batch_data>>


(* Event ev of a pool is free, and q is the pool once it is taken.         *)
CanOccupy(pool, ev, n) ==
    /\ pool \in Seq(Event) /\ n \in Nat
    /\ ev \in 1 .. Len(pool) + 1 /\ ev \notin InUse(pool)

EventTaken(pool, ev, n, q) ==
    /\ q \in Seq(Event) /\ DOMAIN q = DOMAIN pool \union {ev}
    /\ q[ev] = [released |-> FALSE, recorded |-> n]
    /\ \A j \in DOMAIN pool : j # ev => q[j] = pool[j]
    /\ InUse(q) = InUse(pool) \union {ev}
    /\ \A e \in InUse(pool) : q[e] = pool[e]

=============================================================================
