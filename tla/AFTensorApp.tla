----------------------------- MODULE AFTensorApp -----------------------------
(***************************************************************************)
(* A push-pull call from its beginning to its end: AFTensorWorker, its     *)
(* sending thread and its events, and the response side of AFTensorServer  *)
(* (include/ps/af_tensor_app.h), on top of KVApp.  AFTensorServer.tla      *)
(* shows that batches are put together under any order of delivery; here   *)
(* the van keeps the order, and a server has one unfinished batch.         *)
(*                                                                         *)
(* The program computes the tensors of a call, and a server those of an    *)
(* answer, on a GPU: the n-th piece of work of a stream is done when the   *)
(* GPU's counter has reached n.  An event records the number of the last   *)
(* piece.  The servers answer as respond_vec does: one piece of work for   *)
(* some waiting calls, and an event for the first of them only.            *)
(***************************************************************************)
EXTENDS KVApp

CONSTANTS Shapes,   \* <<pushes, pulls from each server>> of the calls
          NumEvents \* kDefaultEventBufferSize: events of a new pool

(* A call with its timestamps, a message of it and the answer to one.      *)
Batch == [first : Nat, push : Nat, pull : Nat]
Request == [op : {"push", "pull"}, ts : Nat,
            cmd : {"single", "start", "end", "middle"}, ready : BOOLEAN]
Reply == [op : {"push", "pull"}, ts : Nat, val : SUBSET Nat, ready : BOOLEAN]

(* respond_vec has one tensor for each call, and respond checks that a     *)
(* call asks for as many: the calls have one pull, or are a single push.   *)
ASSUME AFAssumption ==
    /\ Shapes \subseteq (Nat \X {1}) \union {<<1, 0>>}
    /\ NumEvents \in Nat
    /\ Null \notin Batch \union Request \union Reply

VARIABLES pushpull_queue,
          batch_timestamps, \* the calls whose other timestamps are known
          pushpull_stop,
          sender,        \* PushPullWorker: at "check", "pop", "send" or "ended",
                         \* with the request and the timestamp it sends
          submitted, gpu,\* work the program gave the GPU, and work done
          events,        \* events_ of the worker
          batch_data,    \* batch_data[s]: messages of the unfinished batch
          pending,       \* pending[s]: requests the program has not answered
          response_queue, response_stop,
          responder,     \* responder[s]: ResponseWorker: "check", "pop", "ended"
          server_submitted, server_gpu,
          server_events

gpuVars == <<submitted, gpu>>
senderVars == <<pushpull_stop, sender>>
workerVars == <<pushpull_queue, batch_timestamps, senderVars, gpuVars, events>>
sgpuVars == <<server_submitted, server_gpu>>
responderVars == <<response_stop, responder>>
serverVars == <<batch_data, pending, response_queue, responderVars, sgpuVars,
                server_events>>
afVars == <<workerVars, serverVars>>
vars == <<kvVars, afVars>>

FreeEvent == [released |-> TRUE, recorded |-> 0]
Empty == [batch |-> Null, event |-> 0, work |-> 0]
Loop(at) == [at |-> at, req |-> Empty, next |-> 0]

Init ==
    /\ KVInit
    /\ pushpull_queue = <<>>
    /\ batch_timestamps = {}
    /\ pushpull_stop = FALSE
    /\ sender = Loop("pop")
    /\ submitted = 0 /\ gpu = 0
    /\ events = [i \in 1 .. NumEvents |-> FreeEvent]
    /\ batch_data = [s \in Servers |-> <<>>]
    /\ pending = [s \in Servers |-> <<>>]
    /\ response_queue = [s \in Servers |-> <<>>]
    /\ response_stop = [s \in Servers |-> FALSE]
    /\ responder = [s \in Servers |-> "pop"]
    /\ server_submitted = [s \in Servers |-> 0]
    /\ server_gpu = [s \in Servers |-> 0]
    /\ server_events = [s \in Servers |-> [i \in 1 .. NumEvents |-> FreeEvent]]

-----------------------------------------------------------------------------
(* Mutant of GetEvent: an event is taken whether it is released or not.    *)
GetEventAny(pool) == IF pool = <<>> THEN 1 ELSE Len(pool)

(* GetEvent: the first event that Occupy takes, or else a new one.         *)
GetEvent(pool) ==
    IF \E i \in DOMAIN pool : pool[i].released
    THEN CHOOSE i \in DOMAIN pool :
            pool[i].released /\ \A j \in 1 .. i - 1 : ~pool[j].released
    ELSE Len(pool) + 1

(* Occupy and Record; a new event is put into the pool.                    *)
Occupied(pool, i, n) ==
    [j \in 1 .. IF i > Len(pool) THEN i ELSE Len(pool) |->
        IF j = i THEN [released |-> FALSE, recorded |-> n] ELSE pool[j]]

(* Mutant of Release: the event stays occupied.                            *)
ReleaseNot(pool, i) == [pool EXCEPT ![i].recorded = 0]

(* Sync waits for the recorded work; then Release.                         *)
Synced(pool, i, done) == i # 0 => pool[i].recorded <= done
Release(pool, i) == IF i = 0 THEN pool ELSE [pool EXCEPT ![i] = FreeEvent]

-----------------------------------------------------------------------------
(***************************************************************************)
(* ZBatchPushPull: a timestamp for each push and each pull of a server,    *)
(* an event after the program's work, the queue, and batch_timestamps_.    *)
(***************************************************************************)
Size(b) == b.push + b.pull
TimestampsOf(b) == b.first .. b.first + Size(b) - 1

(* A program stops after it has waited for all of its calls.               *)
AllWaited == pc = "idle" /\ waited = Timestamps /\ tracker # <<>>
Stopping == pushpull_stop \/ \E s \in Servers : response_stop[s]

(* A call of one pull from each of several servers has no last message;    *)
(* AFTensorServer.tla is about it, and here it is left out.                *)
CallBatch(shape) ==
    /\ Running
    /\ app = "af" /\ pc = "idle" /\ ~Stopping
    /\ Len(tracker) + shape[1] + shape[2] <= MaxRequests[num_servers]
    /\ submitted < MaxCalls[app]
    /\ num_servers > 1 => shape # <<0, 1>>
    /\ pc' = "alloc"
    /\ cur' = [first |-> Len(tracker), push |-> shape[1], pull |-> shape[2]]
    /\ submitted' = submitted + 1
    /\ UNCHANGED <<confVars, tableVars, endVars, expired, waited, pullVars,
                   netVars, rcv, peerVars>>
    /\ UNCHANGED <<pushpull_queue, batch_timestamps, senderVars, gpu, events,
                   serverVars>>

AllocTimestamp ==
    /\ app = "af"
    /\ NewRequest([op |-> IF Len(tracker) < cur.first + cur.push THEN "push"
                                                                  ELSE "pull",
                   batch |-> cur])
    /\ pc' = IF Len(tracker) = cur.first + Size(cur) - 1 THEN "enqueue" ELSE "alloc"
    /\ UNCHANGED <<confVars, endVars, cur, expired, waited, pullVars, netVars,
                   rcv, peerVars>>
    /\ UNCHANGED afVars

Enqueue ==
    LET ev == GetEvent(events)
    IN  /\ Running
        /\ pc = "enqueue"
        /\ events' = Occupied(events, ev, submitted)
        /\ pushpull_queue' = Append(pushpull_queue,
                                    [batch |-> cur, event |-> ev, work |-> submitted])
        /\ pc' = "emplace"
        /\ UNCHANGED <<confVars, tableVars, endVars, cur, expired, waited,
                       pullVars, netVars, rcv, peerVars>>
        /\ UNCHANGED <<batch_timestamps, senderVars, gpuVars, serverVars>>

(* Mutant of Emplace: the other timestamps are not kept.                   *)
EmplaceNothing ==
    /\ Running
    /\ pc = "emplace"
    /\ batch_timestamps' = batch_timestamps \union {[cur EXCEPT !.push = 1, !.pull = 0]}
    /\ pc' = "idle"
    /\ UNCHANGED <<confVars, tableVars, endVars, cur, expired, waited,
                   pullVars, netVars, rcv, peerVars>>
    /\ UNCHANGED <<pushpull_queue, senderVars, gpuVars, events, serverVars>>

Emplace ==
    /\ Running
    /\ pc = "emplace"
    /\ batch_timestamps' = batch_timestamps \union {cur}
    /\ pc' = "idle"
    /\ UNCHANGED <<confVars, tableVars, endVars, cur, expired, waited,
                   pullVars, netVars, rcv, peerVars>>
    /\ UNCHANGED <<pushpull_queue, senderVars, gpuVars, events, serverVars>>

(* AFTensorWorker::Wait: the first timestamp, then the others in turn.     *)
WaitBatch(b) ==
    /\ Running
    /\ app = "af" /\ pc = "idle"
    /\ b \in batch_timestamps
    /\ WaitRequest(b.first)
    /\ UNCHANGED <<confVars, tableVars, endVars, waited, pullVars, netVars,
                   rcv, peerVars>>
    /\ UNCHANGED afVars

WaitNext ==
    LET b == CHOOSE x \in batch_timestamps : cur.ts \in TimestampsOf(x)
        last == cur.ts = b.first + Size(b) - 1
    IN  /\ Running
        /\ app = "af" /\ pc = "wait" /\ Finished(cur.ts)
        /\ IF last
           THEN /\ pc' = "idle"
                /\ waited' = waited \union TimestampsOf(b)
                /\ batch_timestamps' = batch_timestamps \ {b}
                /\ UNCHANGED <<cur, expired>>
           ELSE /\ WaitRequest(cur.ts + 1)
                /\ UNCHANGED <<waited, batch_timestamps>>
        /\ UNCHANGED <<confVars, tableVars, endVars, pullVars, netVars, rcv,
                       peerVars>>
        /\ UNCHANGED <<pushpull_queue, senderVars, gpuVars, events,
                       serverVars>>

(* The destructor.                                                         *)
DestroyWorker ==
    /\ Running
    /\ app = "af" /\ AllWaited /\ ~pushpull_stop
    /\ pushpull_stop' = TRUE
    /\ pushpull_queue' = Append(pushpull_queue, Empty)
    /\ UNCHANGED <<kvVars, batch_timestamps, sender, gpuVars, events,
                   serverVars>>

GPUStep ==
    /\ Running
    /\ \/ /\ gpu < submitted
          /\ gpu' = gpu + 1
          /\ UNCHANGED server_gpu
       \/ \E s \in Servers :
             /\ server_gpu[s] < server_submitted[s]
             /\ server_gpu' = [server_gpu EXCEPT ![s] = @ + 1]
             /\ UNCHANGED gpu
    /\ UNCHANGED <<kvVars, pushpull_queue, batch_timestamps, senderVars,
                   submitted, events, batch_data, pending, response_queue,
                   responderVars, server_submitted, server_events>>

-----------------------------------------------------------------------------
(***************************************************************************)
(* PushPullWorker: test the stop flag, pop, wait for the event, send.      *)
(***************************************************************************)
CheckStop ==
    /\ Running
    /\ app = "af" /\ sender.at = "check"
    /\ sender' = Loop(IF pushpull_stop THEN "ended" ELSE "pop")
    /\ UNCHANGED <<kvVars, pushpull_queue, batch_timestamps, pushpull_stop,
                   gpuVars, events, serverVars>>

(* An empty request fails the check at the start of ZBatchPushPull_.       *)
PopRequest ==
    LET req == Head(pushpull_queue)
    IN  /\ Running
        /\ sender.at = "pop" /\ pushpull_queue # <<>>
        /\ Synced(events, req.event, gpu)
        /\ pushpull_queue' = Tail(pushpull_queue)
        /\ events' = Release(events, req.event)
        /\ IF req = Empty
           THEN /\ aborted' = "check"
                /\ UNCHANGED sender
           ELSE /\ sender' = [at |-> "send", req |-> req, next |-> req.batch.first]
                /\ UNCHANGED aborted
        /\ UNCHANGED <<confVars, tableVars, raced, programVars, pullVars,
                       netVars, rcv, peerVars>>
        /\ UNCHANGED <<batch_timestamps, pushpull_stop, gpuVars, serverVars>>

(* The flags of ZBatchPushPull_.                                           *)
Cmd(b, ts) ==
    IF b.push + b.pull * num_servers = 1 THEN "single"
    ELSE IF ts = b.first THEN "start"
    ELSE IF ts = b.first + Size(b) - 1 THEN "end"
    ELSE "middle"

(* ZPush_ and ZPull_: to every server, with a callback for a pull.         *)
SendBatch ==
    LET b == sender.req.batch
        ts == sender.next
        m == [op |-> IF ts < b.first + b.push THEN "push" ELSE "pull", ts |-> ts,
              cmd |-> Cmd(b, ts), ready |-> sender.req.work <= gpu]
    IN  /\ Running
        /\ sender.at = "send"
        /\ to_server' = [s \in Servers |-> Append(to_server[s], m)]
        /\ callbacks' = IF m.op = "pull" THEN callbacks \union {ts} ELSE callbacks
        /\ sender' = IF ts = b.first + Size(b) - 1 THEN Loop("check")
                                                  ELSE [sender EXCEPT !.next = ts + 1]
        /\ UNCHANGED <<confVars, tableVars, endVars, programVars, recv_kvs,
                       filled, to_worker, rcv, peerVars>>
        /\ UNCHANGED <<pushpull_queue, batch_timestamps, pushpull_stop,
                       gpuVars, events, serverVars>>

-----------------------------------------------------------------------------
Answer(s, m, val, ready) ==
    [op |-> m.op, ts |-> m.ts, val |-> val, ready |-> ready]

PushesOf(b) == {b[i].ts : i \in {j \in DOMAIN b : b[j].op = "push"}}
PullOf(b) == b[CHOOSE i \in DOMAIN b : b[i].op = "pull"]

Complete(m) == m.cmd \in {"single", "end"}

(* KVHandler: a push of a batch is answered; the last message ends it.     *)
KVHandler(s) ==
    LET m == Head(to_server[s])
        b == Append(batch_data[s], m)
    IN  /\ Running
        /\ app = "af" /\ s \notin down /\ to_server[s] # <<>>
        /\ to_server' = [to_server EXCEPT ![s] = Tail(@)]
        /\ to_worker' = IF m.op = "push" /\ m.cmd # "single"
                        THEN [to_worker EXCEPT ![s] = Append(@, Answer(s, m, {}, TRUE))]
                        ELSE to_worker
        /\ IF Complete(m)
           THEN /\ pending' = [pending EXCEPT ![s] = Append(@, b)]
                /\ batch_data' = [batch_data EXCEPT ![s] = <<>>]
           ELSE /\ batch_data' = [batch_data EXCEPT ![s] = b]
                /\ UNCHANGED pending
        /\ UNCHANGED <<confVars, tableVars, endVars, programVars, pullVars,
                       rcv, peerVars>>
        /\ UNCHANGED <<workerVars, response_queue, responderVars, sgpuVars,
                       server_events>>

(***************************************************************************)
(* Response to a single request: sent at once.  One that pulls takes an    *)
(* event that is not recorded.  The van is not RDMAVan here, which would   *)
(* release it when it knows the address of the key.                        *)
(***************************************************************************)
RespondSingle(s) ==
    LET b == Head(pending[s])
        pulls == b[1].op = "pull"
    IN  /\ Running
        /\ s \notin down /\ pending[s] # <<>> /\ b[1].cmd = "single"
        /\ pending' = [pending EXCEPT ![s] = Tail(@)]
        /\ server_submitted' = [server_submitted EXCEPT ![s] = @ + 1]
        /\ server_events' = IF pulls
                THEN [server_events EXCEPT ![s] = Occupied(@, GetEvent(@), 0)]
                ELSE server_events
        /\ to_worker' = [to_worker EXCEPT ![s] =
                Append(@, Answer(s, b[1], {}, FALSE))]
        /\ UNCHANGED <<confVars, tableVars, endVars, programVars, pullVars,
                       to_server, rcv, peerVars>>
        /\ UNCHANGED <<workerVars, batch_data, response_queue, responderVars,
                       server_gpu>>

(* The response to the pull of a call.                                     *)
Queued(b, n, ev) ==
    [msg |-> PullOf(b), val |-> PushesOf(b), work |-> n, event |-> ev]

(***************************************************************************)
(* respond_vec: a piece of work for the first k of the waiting calls, and  *)
(* Response to each of them, with an event for the first only.             *)
(***************************************************************************)
RespondVec(s, k) ==
    LET n == server_submitted[s] + 1
        ev == GetEvent(server_events[s])
    IN  /\ Running
        /\ s \notin down
        /\ \A i \in 1 .. k : pending[s][i][1].cmd # "single"
        /\ pending' = [pending EXCEPT ![s] = SubSeq(@, k + 1, Len(@))]
        /\ server_submitted' = [server_submitted EXCEPT ![s] = n]
        /\ response_queue' = [response_queue EXCEPT ![s] = @ \o
                [i \in 1 .. k |-> Queued(pending[s][i], n, IF i = 1 THEN ev ELSE 0)]]
        /\ server_events' = [server_events EXCEPT ![s] = Occupied(@, ev, n)]
        /\ UNCHANGED <<kvVars, workerVars, batch_data, responderVars,
                       server_gpu>>

(***************************************************************************)
(* ResponseWorker: test the stop flag, pop, test it again, wait for the    *)
(* event and respond.                                                      *)
(***************************************************************************)
CheckResponseStop(s) ==
    /\ Running
    /\ app = "af" /\ s \notin down /\ responder[s] = "check"
    /\ responder' = [responder EXCEPT ![s] = IF response_stop[s] THEN "ended"
                                                                 ELSE "pop"]
    /\ UNCHANGED <<kvVars, workerVars, batch_data, pending, response_queue,
                   response_stop, sgpuVars, server_events>>

PopResponse(s) ==
    LET rsp == Head(response_queue[s])
    IN  /\ Running
        /\ s \notin down /\ responder[s] = "pop" /\ response_queue[s] # <<>>
        /\ response_queue' = [response_queue EXCEPT ![s] = Tail(@)]
        /\ IF response_stop[s]
           THEN /\ responder' = [responder EXCEPT ![s] = "ended"]
                /\ UNCHANGED <<server_events, to_worker>>
           ELSE /\ Synced(server_events[s], rsp.event, server_gpu[s])
                /\ server_events' = [server_events EXCEPT ![s] = Release(@, rsp.event)]
                /\ to_worker' = [to_worker EXCEPT ![s] =
                        Append(@, Answer(s, rsp.msg, rsp.val, rsp.work <= server_gpu[s]))]
                /\ responder' = [responder EXCEPT ![s] = "check"]
        /\ UNCHANGED <<confVars, tableVars, endVars, programVars, pullVars,
                       to_server, rcv, peerVars>>
        /\ UNCHANGED <<workerVars, batch_data, pending, response_stop,
                       sgpuVars>>

(* Mutant of DestroyServer: nothing wakes the thread.                      *)
DestroyServerSilently(s) ==
    /\ Running
    /\ app = "af" /\ AllWaited /\ ~response_stop[s]
    /\ response_stop' = [response_stop EXCEPT ![s] = TRUE]
    /\ UNCHANGED <<kvVars, workerVars, batch_data, pending, response_queue,
                   responder, sgpuVars, server_events>>

(* The destructor of a server; the program is past its last call.          *)
DestroyServer(s) ==
    /\ Running
    /\ app = "af" /\ AllWaited /\ ~response_stop[s]
    /\ response_stop' = [response_stop EXCEPT ![s] = TRUE]
    /\ response_queue' = [response_queue EXCEPT ![s] =
            Append(@, [msg |-> Null, val |-> {}, work |-> 0, event |-> 0])]
    /\ UNCHANGED <<kvVars, workerVars, batch_data, pending, responder,
                   sgpuVars, server_events>>

-----------------------------------------------------------------------------
Program ==
    \/ KVProgram /\ UNCHANGED afVars
    \/ \E shape \in Shapes : CallBatch(shape)
    \/ \E b \in batch_timestamps : WaitBatch(b)
    \/ DestroyWorker
    \/ \E s \in Servers : DestroyServer(s)

Step ==
    \/ KVStep /\ UNCHANGED afVars
    \/ AllocTimestamp \/ Enqueue \/ Emplace \/ WaitNext
    \/ CheckStop \/ PopRequest \/ SendBatch
    \/ \E s \in Servers :
          \/ KVHandler(s) \/ RespondSingle(s)
          \/ \E k \in DOMAIN pending[s] : RespondVec(s, k)
          \/ CheckResponseStop(s) \/ PopResponse(s)

Fault ==
    \/ Timeout /\ UNCHANGED afVars
    \/ \E s \in Servers : Crash(s) /\ UNCHANGED afVars

Next == Program \/ Step \/ GPUStep \/ Fault

(***************************************************************************)
(* Every thread and the GPU run on, and time passes.  The threads share    *)
(* one condition: each of their steps uses something up.  Nothing obliges  *)
(* the program to call or to wait.                                         *)
(***************************************************************************)
Spec ==
    /\ Init /\ [][Next]_vars
    /\ WF_vars(Step)
    /\ WF_vars(GPUStep)
    /\ WF_vars(down # {} /\ Timeout /\ UNCHANGED afVars)

-----------------------------------------------------------------------------
(***************************************************************************)
(* When Wait of a push-pull call returns, every server has acknowledged    *)
(* its pushes, and has sent each pull once, computed from all the pushes   *)
(* of that call and of no other.                                           *)
(***************************************************************************)
BatchAnswered ==
    app = "af" => \A h \in waited :
        LET b == requests[h + 1].batch
            pushes == b.first .. b.first + b.push - 1
        IN  \A ts \in TimestampsOf(b) :
                /\ Finished(ts)
                /\ ts \notin pushes /\ Cmd(b, ts) # "single" =>
                     /\ Len(recv_kvs[ts]) = num_servers
                     /\ \A i \in DOMAIN recv_kvs[ts] : recv_kvs[ts][i].val = pushes

(***************************************************************************)
(* A tensor of a batch is sent only after the GPU has computed it: events  *)
(* are not mixed up while the pool is shared and reused, and one event     *)
(* covers all responses of a respond_vec.                                  *)
(***************************************************************************)
SentReady ==
    app = "af" => \A s \in Servers :
        /\ \A i \in DOMAIN to_server[s] : to_server[s][i].ready
        /\ \A i \in DOMAIN to_worker[s] :
              LET b == requests[to_worker[s][i].ts + 1].batch
              IN  Cmd(b, to_worker[s][i].ts) # "single" => to_worker[s][i].ready

InUse(pool) == {i \in DOMAIN pool : ~pool[i].released}

SinglePulls == {ts \in Timestamps : /\ Cmd(requests[ts + 1].batch, ts) = "single"
                                    /\ requests[ts + 1].op = "pull"}

(***************************************************************************)
(* An occupied event of the worker belongs to a request in the queue, one  *)
(* of a server to a queued response, or to a pull that was answered alone: *)
(* that one stays occupied for ever, and the pool grows.                   *)
(***************************************************************************)
EventsAccounted ==
    app = "af" =>
        /\ InUse(events) = {pushpull_queue[i].event : i \in DOMAIN pushpull_queue} \ {0}
        /\ \A s \in Servers :
              Cardinality(InUse(server_events[s])) <=
                  Cardinality({i \in DOMAIN response_queue[s] :
                                  response_queue[s][i].event # 0})
                    + Cardinality(SinglePulls)

(***************************************************************************)
(* A server that is destroyed after the program has waited for its calls   *)
(* drops no response: only the empty one is left.                          *)
(***************************************************************************)
NothingDropped ==
    \A s \in Servers \ down : response_stop[s] =>
        \A i \in DOMAIN response_queue[s] : response_queue[s][i].msg = Null

(***************************************************************************)
(* A Wait returns, or ends the process with its timeout.  The timeout runs *)
(* from the request's start, but a Wait for a request that was complete    *)
(* when it was called never ends the process, however late it comes.       *)
(***************************************************************************)
WaitEnds ==
    /\ pc = "wait" ~> pc # "wait" \/ ~Running
    /\ [](aborted = "timeout" => ~cur.done)

(* After the destructor of a server, its thread ends.                      *)
ResponderEnds ==
    (\E s \in Servers : response_stop[s]) ~>
        ~Running \/ \A s \in Servers \ down : response_stop[s] => responder[s] = "ended"

=============================================================================
