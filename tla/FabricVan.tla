------------------------------ MODULE FabricVan ------------------------------
(***************************************************************************)
(* FabricVan of src/fabric_van.h between worker "w" and server "s": the    *)
(* exchange of endpoint names over the zmq van, the worker thread of every *)
(* endpoint, RecvMsg, and Stop.                                            *)
(*                                                                         *)
(* Each node connects to itself and to the other one, in some order.  The  *)
(* program starts when both have connected (the start barrier), has one    *)
(* call of a key and a kind at a time, and stops when none is outstanding. *)
(* The server answers in the step in which it receives.                    *)
(***************************************************************************)
EXTENDS FabricTransport

CONSTANTS MaxMsgs, \* bound: calls and control messages
          MaxCtl   \* bound: control messages

ASSUME VanAssumption == MaxMsgs \in Nat /\ MaxCtl \in Nat /\ Nodes = {"w", "s"}

Kinds == {"push", "pull"}

VARIABLES status,              \* "NONE": no FabricEndpoint
          node_id, peer_addr_ready,
          endpoints,           \* endpoints[n]: endpoints_
          todo,                \* todo[n]: the nodes for Connect, in order
          zmq,                 \* zmq[n]: messages for the event thread
          calls,               \* calls[<<kind, key>>]: of the program
          msgs, ctl,           \* messages and control messages sent
          should_stop, should_stop_polling,
          receiving,           \* Van::Receiving runs
          cut,                 \* a message came between Stop and TERMINATE
          stopped

connectVars == <<status, node_id, peer_addr_ready, endpoints, todo, zmq>>
programVars == <<calls, msgs, ctl, should_stop, should_stop_polling, receiving, cut, stopped>>
vars == <<transportVars, connectVars, programVars>>

Init ==
    /\ TransportInit
    /\ status = [e \in Endpoints |-> "NONE"]
    /\ node_id = [e \in Endpoints |-> Null]
    /\ peer_addr_ready = [e \in Endpoints |-> FALSE]
    /\ endpoints = [n \in Nodes |-> {}]
    /\ \E list \in {<<"w", "s">>, <<"s", "w">>} : todo = [n \in Nodes |-> list]
    /\ zmq = [n \in Nodes |-> <<>>]
    /\ calls = [c \in Kinds \X Keys |-> [at |-> "idle", ts |-> 0, addr |-> 1]]
    /\ msgs = 0
    /\ ctl = 0
    /\ should_stop = [n \in Nodes |-> FALSE]
    /\ should_stop_polling = [n \in Nodes |-> FALSE]
    /\ receiving = [n \in Nodes |-> TRUE]
    /\ cut = [n \in Nodes |-> FALSE]
    /\ stopped = [n \in Nodes |-> FALSE]

Msg(kind, request, k, ts, a) ==
    [kind |-> kind, request |-> request, key |-> k, ts |-> ts, addr |-> a]

-----------------------------------------------------------------------------
(* Connecting.                                                             *)

ZmqSend(q, n, m) == [q EXCEPT ![n] = Append(@, m)]

(* The wait of GetOrCreateEndpoint is over.                                *)
Created(e) == status[e] \notin {"NONE", "EMPTY"}

AsksFor(m, p) == m.cmd = "ADDR_REQUEST" /\ m.from = p

(* GetOrCreateEndpoint starts the worker thread of a new endpoint.         *)
CreateEndpoint(e) ==
    /\ status[e] = "NONE"
    /\ \/ todo[e[1]] # <<>> /\ Head(todo[e[1]]) = e[2]
       \/ zmq[e[1]] # <<>> /\ AsksFor(Head(zmq[e[1]]), e[2])
    /\ status' = [status EXCEPT ![e] = "EMPTY"]
    /\ UNCHANGED <<transportVars, programVars, node_id, peer_addr_ready, endpoints,
                   todo, zmq>>

WorkerCreateEndpoint(e) ==
    /\ status[e] = "EMPTY"
    /\ status' = [status EXCEPT ![e] = "IDLE"]
    /\ UNCHANGED <<transportVars, programVars, node_id, peer_addr_ready, endpoints,
                   todo, zmq>>

(* Connect asks for the name of the peer's endpoint, and waits.  A node    *)
(* connects before or after it got its id.                                 *)
Connect(n) ==
    LET e == <<n, Head(todo[n])>>
    IN  /\ todo[n] # <<>>
        /\ Created(e) /\ status[e] \notin {"CONNECTING", "CONNECTED"}
        /\ node_id' = [node_id EXCEPT ![e] = e[2]]
        /\ status' = [status EXCEPT ![e] = "CONNECTING"]
        /\ \E id \in {n, Null} :
              zmq' = ZmqSend(zmq, e[2], [cmd |-> "ADDR_REQUEST", from |-> n, id |-> id])
        /\ UNCHANGED <<transportVars, programVars, peer_addr_ready, endpoints, todo>>

ConnectReturns(n) ==
    /\ todo[n] # <<>> /\ status[<<n, Head(todo[n])>>] = "CONNECTED"
    /\ todo' = [todo EXCEPT ![n] = Tail(@)]
    /\ UNCHANGED <<transportVars, programVars, status, node_id, peer_addr_ready,
                   endpoints, zmq>>

(* The event thread gives its own name in return.  A node that has no id   *)
(* yet has none to tell.                                                   *)
OnConnectRequest(n) ==
    LET m == Head(zmq[n])
        e == <<n, m.from>>
    IN  /\ zmq[n] # <<>> /\ m.cmd = "ADDR_REQUEST" /\ Created(e)
        /\ peer_addr_ready' = [peer_addr_ready EXCEPT ![e] = TRUE]
        /\ node_id' = IF m.id = Null THEN node_id ELSE [node_id EXCEPT ![e] = m.id]
        /\ zmq' = ZmqSend([zmq EXCEPT ![n] = Tail(@)], m.from,
                          [cmd |-> "ADDR_RESOLVED", from |-> n])
        /\ UNCHANGED <<transportVars, programVars, status, endpoints, todo>>

OnConnected(n) ==
    LET e == <<n, Head(zmq[n]).from>>
    IN  /\ zmq[n] # <<>> /\ Head(zmq[n]).cmd = "ADDR_RESOLVED"
        /\ zmq' = [zmq EXCEPT ![n] = Tail(@)]
        /\ endpoints' = [endpoints EXCEPT ![n] = @ \union {e[2]}]
        /\ peer_addr_ready' = [peer_addr_ready EXCEPT ![e] = TRUE]
        /\ status' = [status EXCEPT ![e] = "CONNECTED"]
        /\ UNCHANGED <<transportVars, programVars, node_id, todo>>

(* The worker thread waits for the name, and initializes the endpoint.     *)
WorkerInitPeerAddr(e) ==
    /\ Created(e) /\ peer_addr_ready[e] /\ ~trans[e]
    /\ EndpointInit(e)
    /\ UNCHANGED <<connectVars, programVars>>

-----------------------------------------------------------------------------
(* The loop of a worker thread.                                            *)
Polling(e) == trans[e] /\ ~should_stop_polling[e[1]]

WorkerSends(e) ==
    /\ Polling(e) /\ e \notin pushing
    /\ WorkerSendMsg(e)
    /\ UNCHANGED <<connectVars, programVars>>

WorkerPollCQ(e) ==
    /\ Polling(e) /\ ~Blocked(e)
    /\ BeginPush(e) \/ HandleCompletionEvent(e)
    /\ UNCHANGED <<connectVars, programVars>>

Arrive(e) ==
    /\ \E i \in DOMAIN wire[e] : Transfer(e, i)
    /\ UNCHANGED <<connectVars, programVars>>

-----------------------------------------------------------------------------
(* The program.                                                            *)
Ready == \A n \in Nodes : todo[n] = <<>> /\ ~should_stop[n]

SendMsg(n, p, m) == send_queue' = [send_queue EXCEPT ![<<n, p>>] = Append(@, m)]

otherTransportVars == <<trans, free_start_ctx, free_reply_ctx, context, msg_bufs,
                        addr_cache, addr_pool, posted, wire, cq, pushing, raced,
                        pulled>>

(* A call, or an answer, is from the first place or from another one.      *)
PlacesFor(ts) == 1 .. IF ts = 1 THEN 1 ELSE Places

Call(kind, k, a) ==
    LET c == calls[<<kind, k>>]
    IN  /\ Ready
        /\ c.at = "idle" /\ msgs < MaxMsgs /\ a \in PlacesFor(c.ts + 1)
        /\ msgs' = msgs + 1
        /\ calls' = [calls EXCEPT ![<<kind, k>>] =
                        [at |-> "request", ts |-> c.ts + 1, addr |-> a]]
        /\ memory' = IF kind = "push" THEN [memory EXCEPT !["w"][<<k, a>>] = c.ts + 1]
                     ELSE memory
        /\ SendMsg("w", "s", Msg(kind, TRUE, k, c.ts + 1, a))
        /\ UNCHANGED <<otherTransportVars, recv_buffers, connectVars, ctl, should_stop,
                       should_stop_polling, receiving, cut, stopped>>

SendControl ==
    /\ Ready /\ msgs < MaxMsgs /\ ctl < MaxCtl
    /\ msgs' = msgs + 1
    /\ ctl' = ctl + 1
    /\ SendMsg("s", "w", Msg("ctl", FALSE, 0, 0, 0))
    /\ UNCHANGED <<otherTransportVars, recv_buffers, memory, connectVars, calls,
                   should_stop, should_stop_polling, receiving, cut, stopped>>

(***************************************************************************)
(* RecvMsg, and what the node does with the message.  Any message that is  *)
(* received after Stop began lets the worker threads end.                  *)
(***************************************************************************)
Received(n) == LET b == Head(recv_buffers[n]) IN addr_pool[b[1]][b[2] + 1].meta

(* Mutant of StopsPolling: only the event thread is told.                  *)
StopsPollingNever(n) == FALSE

StopsPolling(n) == should_stop[n]

RecvMsg(n) ==
    LET e == Head(recv_buffers[n])[1]
        m == Received(n)
        c == <<m.kind, m.key>>
    IN  /\ receiving[n] /\ recv_buffers[n] # <<>>
        /\ recv_buffers' = [recv_buffers EXCEPT ![n] = Tail(@)]
        /\ should_stop_polling' = [should_stop_polling EXCEPT ![n] = @ \/ StopsPolling(n)]
        /\ receiving' = [receiving EXCEPT ![n] = m.kind # "term"]
        /\ cut' = [cut EXCEPT ![n] = @ \/ (should_stop[n] /\ m.kind # "term")]
        /\ calls' = IF ~IsValidPushpull(m) THEN calls
                    ELSE [calls EXCEPT ![c].at = IF m.request THEN "answer" ELSE "idle"]
        /\ IF m.request /\ m.kind # "term"
           THEN \E a \in PlacesFor(m.ts) :
                   /\ SendMsg(n, node_id[e], Msg(m.kind, FALSE, m.key, m.ts, a))
                   /\ IF m.kind = "pull"
                      THEN memory' = [memory EXCEPT ![n][<<m.key, a>>] = m.ts]
                      ELSE a = 1 /\ UNCHANGED memory
           ELSE UNCHANGED <<send_queue, memory>>
        /\ UNCHANGED <<otherTransportVars, connectVars, msgs, ctl, should_stop, stopped>>

(* Stop: TERMINATE for the event thread over zmq, and one to itself.       *)
Stop(n) ==
    /\ todo[n] = <<>> /\ ~should_stop[n]
    /\ \A p \in Nodes : todo[p] = <<>>
    /\ \A c \in DOMAIN calls : calls[c].at = "idle"
    /\ zmq' = ZmqSend(zmq, n, [cmd |-> "TERMINATE", from |-> n])
    /\ should_stop' = [should_stop EXCEPT ![n] = TRUE]
    /\ SendMsg(n, n, Msg("term", TRUE, 0, 0, 0))
    /\ UNCHANGED <<otherTransportVars, recv_buffers, memory, status, node_id,
                   peer_addr_ready, endpoints, todo, calls, msgs, ctl,
                   should_stop_polling, receiving, cut, stopped>>

(* The receiving thread, the event thread and the worker threads joined.   *)
StopReturns(n) ==
    /\ should_stop[n] /\ ~receiving[n] /\ ~stopped[n]
    /\ zmq[n] # <<>> /\ Head(zmq[n]).cmd = "TERMINATE"
    /\ should_stop_polling[n]
    /\ \A p \in Nodes : trans[<<n, p>>] /\ ~Blocked(<<n, p>>)
    /\ stopped' = [stopped EXCEPT ![n] = TRUE]
    /\ zmq' = [zmq EXCEPT ![n] = <<>>]
    /\ UNCHANGED <<transportVars, status, node_id, peer_addr_ready, endpoints, todo,
                   calls, msgs, ctl, should_stop, should_stop_polling, receiving,
                   cut>>

Step ==
    \/ \E e \in Endpoints :
          \/ CreateEndpoint(e) \/ WorkerCreateEndpoint(e) \/ WorkerInitPeerAddr(e)
          \/ WorkerSends(e) \/ WorkerPollCQ(e) \/ Arrive(e)
    \/ \E n \in Nodes :
          \/ Connect(n) \/ ConnectReturns(n) \/ OnConnectRequest(n) \/ OnConnected(n)
          \/ RecvMsg(n) \/ StopReturns(n)

Next ==
    /\ ~raced
    /\ \/ Step
       \/ \E kind \in Kinds, k \in Keys, a \in 1 .. Places : Call(kind, k, a)
       \/ SendControl
       \/ \E n \in Nodes : Stop(n)

(* The threads run; what the program does is up to the program.            *)
Spec == Init /\ [][Next]_vars /\ WF_vars(~raced /\ Step)

-----------------------------------------------------------------------------
(* The sender's context for what is in b has the address of the message.   *)
SentFromHere(b, m) ==
    \E i \in DOMAIN msg_bufs[Remote(b[1])] :
        LET x == msg_bufs[Remote(b[1])][i] IN x.tag = b[2] /\ x.data = m.addr

(***************************************************************************)
(* What is in recv_buffers_ is a request or an answer that the program     *)
(* waits for, once, with its own meta, from a node that is in endpoints_:  *)
(* contexts that are used again, and receives that are posted again before *)
(* RecvMsg, do not mix messages.  Its tensor is what the program sent, if  *)
(* it sends a key from the place of the first message; the tensor is where *)
(* the pull asked for it, if that is where the first pull did.  The        *)
(* rendezvous of a pull response finds the address of the pull.            *)
(***************************************************************************)
Intact ==
    /\ \A n \in Nodes : \A i \in DOMAIN recv_buffers[n] :
          LET b == recv_buffers[n][i]
              x == addr_pool[b[1]][b[2] + 1]
              m == x.meta
              c == calls[<<m.kind, m.key>>]
          IN  IsValidPushpull(m) =>
                  /\ c.at = IF m.request THEN "request" ELSE "answer"
                  /\ c.ts = m.ts
                  /\ SentFromHere(b, m) => RecvVals(b) \in {m.ts, Null}
                  /\ (m.kind = "pull" /\ ~m.request /\ SentFromHere(b, m)
                      /\ x.buffer = c.addr) => pulled[<<m.key, c.addr>>] = m.ts
                  /\ \A j \in DOMAIN recv_buffers[n] : recv_buffers[n][j] = b => i = j
    /\ \A n \in Nodes : recv_buffers[n] # <<>> =>
          node_id[Head(recv_buffers[n])[1]] \in endpoints[n]
    /\ \A e \in Endpoints : cq[e] # <<>> =>
          LET x == Head(cq[e])
          IN  ~x.send /\ x.wr.tag = kRendezvousStart => GetPullAddr(e, x.wr.msg) # Null

UnderWay(e, tag) ==
    Len(SelectSeq(wire[e], LAMBDA wr : wr.tag = tag))
    + Len(SelectSeq(cq[e], LAMBDA x : x.send /\ x.wr.tag = tag))

(***************************************************************************)
(* The contexts of rendezvous messages are free, or under way until their  *)
(* completion is handled: none is lost and none is free twice.  A message  *)
(* buffer that the fabric still has to read is not packed with another     *)
(* message, though StoreRemoteContext puts the context of a first message  *)
(* in the queue twice.                                                     *)
(***************************************************************************)
ContextsKept ==
    \A e \in Endpoints :
        /\ trans[e] =>
              /\ free_start_ctx[e] + UnderWay(e, kRendezvousStart) = kStartDepth
              /\ free_reply_ctx[e] + UnderWay(e, kRendezvousReply) = kRxDepth
        /\ \A i, j \in DOMAIN wire[e] :
              wire[e][i].tag >= 0 /\ wire[e][j].tag >= 0 /\ wire[e][i].buf = wire[e][j].buf
                  => i = j

(***************************************************************************)
(* Connect of every node returns, in whatever order the nodes and their    *)
(* threads connect to each other and to themselves, and every call of the  *)
(* program is answered, unless two threads were in recv_buffers_.Push.     *)
(***************************************************************************)
CallsEnd ==
    /\ <>(\A n \in Nodes : todo[n] = <<>>)
    /\ []<>(raced \/ \A c \in DOMAIN calls : calls[c].at = "idle")

(***************************************************************************)
(* Stop returns, unless another message was received before TERMINATE: it  *)
(* ends the worker threads, which have TERMINATE still to send.  (Nor if   *)
(* its thread pushed TERMINATE while the peer's pushed a message.)         *)
(***************************************************************************)
StopEnds == \A n \in Nodes : []<>(should_stop[n] => stopped[n] \/ cut[n] \/ raced)

=============================================================================
