------------------------------- MODULE UCXVan -------------------------------
(***************************************************************************)
(* UCXVan, UCXContext and UCXRecvPool of src/ucx_van.h between worker "w"  *)
(* and server "s": the threads of the program that send, the polling       *)
(* threads, the thread that puts requests back in order, RecvMsg and Stop. *)
(*                                                                         *)
(* A message is its meta, alone or bundled with a small tensor, or meta    *)
(* and data sent one after the other.  UCX keeps the order of messages of  *)
(* an endpoint; receives complete in any order.  A thread of the worker    *)
(* has one call of a key and a kind at a time, the server one thread.      *)
(* What is sent over a connection that failed is dropped.                  *)
(***************************************************************************)
EXTENDS UCXEndpoints

CONSTANTS Keys,     \* keys of the pushes
          PullKeys, \* keys of the pulls
          SidCount, \* 2^31, where next_send_sids_ wraps around
          MaxCalls, \* bound: calls, a fault counted as two
          Null

ASSUME VanAssumption ==
    /\ MaxCalls \in Nat /\ PullKeys \subseteq Keys
    /\ SidCount \in Nat /\ SidCount >= Cardinality(Keys) + Cardinality(PullKeys)

Kinds == {"push", "pull"}
short_send_thresh == 1
FirstSid == SidCount - 1 \* after that many requests: the ids wrap around soon
Threads == ({"push"} \X Keys) \union ({"pull"} \X PullKeys)
Sizes == {short_send_thresh, short_send_thresh + 1}

VARIABLES force_request_order, queue_sends,
          calls,            \* calls[<<kind, key>>]: where the thread is, its message
          num,              \* calls made
          next_send_sid, tx_reqs,
          pushing,          \* threads in tx_reqs_.Push
          dropped,          \* a message was lost with its connection
          wire,             \* wire[c]: sent and not received
          metas,            \* metas[n]: receives of meta that have to complete
          posted,           \* posted[n]: receives of data
          rpool,            \* rpool[k]: buffer for pushes of w, and its size
          buffers,          \* the buffers allocated by the server, and their data
          w_pool, pulled,   \* keys with a cached address, and what is there
          recv_buffers, ordered_recv_buffers,
          next_recv_sid, recv_sid_buffers,
          handled,          \* requests that the server handled
          stop              \* stop[n]: where Stop is

modeVars == <<force_request_order, queue_sends>>
callVars == <<calls, num, next_send_sid, w_pool>>
sendVars == <<tx_reqs, wire, dropped>>
rxVars == <<metas, posted, rpool, buffers, pulled>>
orderVars == <<ordered_recv_buffers, next_recv_sid, recv_sid_buffers>>
endVars == <<handled, stop>>
ucxVars == <<endpointVars, raced, modeVars, callVars, sendVars, pushing, rxVars,
             recv_buffers, orderVars, endVars>>

UCXInit ==
    /\ EndpointsInit
    /\ force_request_order \in BOOLEAN
    /\ queue_sends \in BOOLEAN
    /\ calls = [c \in Threads |-> [at |-> "idle", msg |-> Null]]
    /\ num = 0
    /\ next_send_sid = FirstSid
    /\ tx_reqs = [n \in Nodes |-> <<>>]
    /\ pushing = {}
    /\ dropped = FALSE
    /\ wire = [c \in Pairs |-> <<>>]
    /\ metas = [n \in Nodes |-> {}]
    /\ posted = [n \in Nodes |-> {}]
    /\ rpool = [k \in Keys |-> [buf |-> 0, size |-> 0]]
    /\ buffers = <<>>
    /\ w_pool = {}
    /\ pulled = [k \in Keys |-> 0]
    /\ recv_buffers = [n \in Nodes |-> <<>>]
    /\ ordered_recv_buffers = [n \in Nodes |-> <<>>]
    /\ next_recv_sid = FirstSid
    /\ recv_sid_buffers = {}
    /\ handled = 0
    /\ stop = [n \in Nodes |-> "running"]

Msg(kind, request, k, ts, sid, size) ==
    [kind |-> kind, request |-> request, key |-> k, ts |-> ts, sid |-> sid, size |-> size]

IsDataMsg(m) == m.kind \in Kinds /\ (m.kind = "push" <=> m.request)

IsPushpullRequest(m) == m.kind \in Kinds /\ m.request

(* meta.option: meta only, bundled, or data to follow.                     *)
Option(m) ==
    IF ~IsDataMsg(m) THEN "META"
    ELSE IF m.size <= short_send_thresh THEN "BUNDLED" ELSE "DATA"

-----------------------------------------------------------------------------
(* Sending.  An item of the wire has a tag with the key.                   *)
Item(tag, m) == [tag |-> tag, msg |-> m]

Items(m) == IF Option(m) = "DATA" THEN <<Item("META", m), Item("DATA", m)>>
            ELSE <<Item("META", m)>>

(***************************************************************************)
(* UCXContext::Send.  Without an endpoint (Find) it is an error, logged by *)
(* SendMsg and PollTxQueueUCX; over a broken one UCX fails the request.    *)
(***************************************************************************)
SendUCX(c, items) ==
    IF conn[c] = "up" THEN /\ wire' = [wire EXCEPT ![c] = @ \o items]
                           /\ UNCHANGED dropped
    ELSE dropped' = TRUE /\ UNCHANGED wire

(* At once, or from the queue of the polling thread.                       *)
Send(n, p, items) ==
    IF queue_sends
    THEN /\ tx_reqs' = [tx_reqs EXCEPT ![n] = @ \o [i \in DOMAIN items |-> <<p, items[i]>>]]
         /\ UNCHANGED <<wire, dropped>>
    ELSE SendUCX(<<n, p>>, items) /\ UNCHANGED tx_reqs

PollTxQueueUCX(n) ==
    LET r == Head(tx_reqs[n])
    IN  /\ tx_reqs[n] # <<>>
        /\ tx_reqs' = [tx_reqs EXCEPT ![n] = Tail(@)]
        /\ SendUCX(<<n, r[1]>>, <<r[2]>>)
        /\ UNCHANGED <<endpointVars, raced, modeVars, callVars, pushing, rxVars,
                       recv_buffers, orderVars, endVars>>

Ready == \A n \in Nodes : todo[n] = <<>> /\ stop[n] = "running"

CacheLocalAddress(kind, k) == IF kind = "pull" THEN w_pool \union {k} ELSE w_pool

(* SendMsg of a request takes a sequence id, under a lock.                 *)
SendMsg(kind, k, size) ==
    /\ Ready
    /\ num + 2 * (failures + restarts) < MaxCalls /\ num' = num + 1
    /\ <<kind, k>> \in Threads /\ calls[<<kind, k>>].at = "idle"
    /\ calls' = [calls EXCEPT ![<<kind, k>>] =
                    [at |-> "sid", msg |-> Msg(kind, TRUE, k, num + 1, next_send_sid, size)]]
    /\ next_send_sid' = (next_send_sid + 1) % SidCount
    /\ w_pool' = CacheLocalAddress(kind, k)
    /\ UNCHANGED <<endpointVars, raced, modeVars, sendVars, pushing, rxVars,
                   recv_buffers, orderVars, endVars>>

(***************************************************************************)
(* Then it sends the meta, and then the data: another thread may send      *)
(* between any two of the three.  tx_reqs_ is the ring of ThreadsafeQueue, *)
(* for one producer: once two threads are in Push at a time it may hold    *)
(* anything.  A bundled meta that fails is taken for one with data.        *)
(***************************************************************************)
BeginPush(c) ==
    /\ queue_sends /\ c \notin pushing
    /\ calls[c].at \in {"sid", "meta"}
    /\ pushing' = pushing \union {c}
    /\ raced' = (pushing # {})
    /\ UNCHANGED <<endpointVars, modeVars, callVars, sendVars, rxVars, recv_buffers,
                   orderVars, endVars>>

EndPush(c) ==
    /\ queue_sends => c \in pushing
    /\ pushing' = pushing \ {c}

SendMeta(c) ==
    LET m == calls[c].msg
        failed == ~queue_sends /\ conn[<<"w", "s">>] # "up"
    IN  /\ calls[c].at = "sid"
        /\ EndPush(c)
        /\ Send("w", "s", <<Item("META", m)>>)
        /\ calls' = [calls EXCEPT ![c].at =
              IF Option(m) = "DATA" \/ (Option(m) = "BUNDLED" /\ failed) THEN "meta"
              ELSE "request"]
        /\ UNCHANGED <<endpointVars, raced, modeVars, num, next_send_sid, w_pool, rxVars,
                       recv_buffers, orderVars, endVars>>

SendData(c) ==
    /\ calls[c].at = "meta"
    /\ EndPush(c)
    /\ Send("w", "s", <<Item("DATA", calls[c].msg)>>)
    /\ calls' = [calls EXCEPT ![c].at = "request"]
    /\ UNCHANGED <<endpointVars, raced, modeVars, num, next_send_sid, w_pool, rxVars,
                   recv_buffers, orderVars, endVars>>

-----------------------------------------------------------------------------
(* Receiving: the polling thread of node n.                                *)
Push(n, m, buf) ==
    recv_buffers' = [recv_buffers EXCEPT ![n] = Append(@, [msg |-> m, buf |-> buf])]

(* Mutant of Fits: a buffer of the pool is always large enough.            *)
FitsAny(k, size) == rpool[k].buf # 0

(* The buffer of a key and a sender is there, and large enough.            *)
Fits(k, size) == rpool[k].buf # 0 /\ size <= rpool[k].size

(***************************************************************************)
(* GetRxBuffer: the address of the pull (0 here), or the buffer of the     *)
(* key.  One that is too small is freed, and a new one takes its place.    *)
(***************************************************************************)
GetRxBuffer(m) ==
    IF m.kind = "pull" THEN 0
    ELSE IF Fits(m.key, m.size) THEN rpool[m.key].buf ELSE Len(buffers) + 1

Allocated(m) ==
    IF m.kind = "pull" \/ Fits(m.key, m.size) THEN UNCHANGED rpool
    ELSE rpool' = [rpool EXCEPT ![m.key] = [buf |-> Len(buffers) + 1, size |-> m.size]]

(* What the buffers hold once message m is in its buffer, or has one.      *)
Freed(m) ==
    IF m.kind = "pull" \/ Fits(m.key, m.size) THEN buffers
    ELSE Append([b \in DOMAIN buffers |->
                    IF b = rpool[m.key].buf THEN [buffers[b] EXCEPT !.free = TRUE]
                    ELSE buffers[b]],
                [size |-> m.size, ts |-> 0, free |-> FALSE])

Written(bs, m, buf) ==
    /\ buffers' = IF buf = 0 THEN bs ELSE [bs EXCEPT ![buf].ts = m.ts]
    /\ pulled' = IF buf = 0 THEN [pulled EXCEPT ![m.key] = m.ts] ELSE pulled

PostRecvData(n, m) ==
    CASE Option(m) = "META" ->
           Push(n, m, Null) /\ UNCHANGED <<posted, rpool, buffers, pulled>>
      [] Option(m) = "BUNDLED" ->
           /\ Allocated(m) /\ Written(Freed(m), m, GetRxBuffer(m))
           /\ Push(n, m, GetRxBuffer(m))
           /\ UNCHANGED posted
      [] OTHER ->
           /\ Allocated(m) /\ buffers' = Freed(m)
           /\ posted' = [posted EXCEPT ![n] = @ \union {[msg |-> m, buf |-> GetRxBuffer(m)]}]
           /\ UNCHANGED <<pulled, recv_buffers>>

(* PollRx takes the first meta of a peer, past data that no receive was    *)
(* posted for.  Its receive completes at once or later.                    *)
PollRx(n, p) ==
    LET q == wire[<<p, n>>]
        i == SelectInSeq(q, LAMBDA x : x.tag = "META")
        m == q[i].msg
    IN  /\ stop[n] # "stopped" /\ i # 0
        /\ wire' = [wire EXCEPT ![<<p, n>>] = RemoveAt(@, i)]
        /\ \/ PostRecvData(n, m) /\ UNCHANGED metas
           \/ /\ metas' = [metas EXCEPT ![n] = @ \union {m}]
              /\ UNCHANGED <<posted, rpool, buffers, pulled, recv_buffers>>
        /\ UNCHANGED <<endpointVars, raced, modeVars, callVars, tx_reqs, dropped, pushing,
                       orderVars, endVars>>

RxMetaCompletedCb(n, m) ==
    /\ m \in metas[n]
    /\ metas' = [metas EXCEPT ![n] = @ \ {m}]
    /\ PostRecvData(n, m)
    /\ UNCHANGED <<endpointVars, raced, modeVars, callVars, sendVars, pushing, orderVars,
                   endVars>>

(* The data of a tag (sender and key) came into the buffer of the receive. *)
RxDataCompletedCb(n, p, r) ==
    LET q == wire[<<p, n>>]
        i == SelectInSeq(q, LAMBDA x : x.tag = "DATA" /\ x.msg.key = r.msg.key)
    IN  /\ r \in posted[n] /\ i # 0
        /\ posted' = [posted EXCEPT ![n] = @ \ {r}]
        /\ wire' = [wire EXCEPT ![<<p, n>>] = RemoveAt(@, i)]
        /\ Written(buffers, q[i].msg, r.buf)
        /\ Push(n, r.msg, r.buf)
        /\ UNCHANGED <<endpointVars, raced, modeVars, callVars, tx_reqs, dropped, pushing,
                       metas, rpool, orderVars, endVars>>

-----------------------------------------------------------------------------
(* Mutant of Unordered: requests are never put in order.                   *)
UnorderedAll(m) == TRUE

Unordered(m) == ~IsPushpullRequest(m) \/ ~force_request_order

(* The run of sequence ids after sid that wait in recv_sid_buffers_.       *)
Waits(sid) == \E b \in recv_sid_buffers : b.msg.sid = sid

Run(sid) ==
    LET n == CHOOSE i \in 0 .. SidCount - 1 :
                 /\ ~Waits((sid + i + 1) % SidCount)
                 /\ \A j \in 1 .. i : Waits((sid + j) % SidCount)
    IN  [i \in 1 .. n |-> CHOOSE b \in recv_sid_buffers : b.msg.sid = (sid + i) % SidCount]

(* Mutant of Release: the buffers that wait are left.                      *)
ReleaseOne(b) == <<b>>

(* What ReorderMsg releases when b is the next one.                        *)
Release(b) == <<b>> \o Run(b.msg.sid)

(***************************************************************************)
(* ReorderMsg: a request waits until those with lower sequence ids came,   *)
(* if BYTEPS_UCX_FORCE_REQ_ORDER is set.  The STOP buffer ends the thread. *)
(***************************************************************************)
ReorderMsg(n) ==
    LET b == Head(recv_buffers[n])
        m == b.msg
        run == Release(b)
    IN  /\ recv_buffers[n] # <<>> /\ m.kind # "stop"
        /\ recv_buffers' = [recv_buffers EXCEPT ![n] = Tail(@)]
        /\ IF Unordered(m)
           THEN /\ ordered_recv_buffers' = [ordered_recv_buffers EXCEPT ![n] = Append(@, b)]
                /\ UNCHANGED <<next_recv_sid, recv_sid_buffers>>
           ELSE IF m.sid = next_recv_sid
           THEN /\ ordered_recv_buffers' = [ordered_recv_buffers EXCEPT ![n] = @ \o run]
                /\ recv_sid_buffers' = recv_sid_buffers \ ToSet(run)
                /\ next_recv_sid' = (m.sid + Len(run)) % SidCount
           ELSE /\ recv_sid_buffers' = recv_sid_buffers \union {b}
                /\ UNCHANGED <<ordered_recv_buffers, next_recv_sid>>
        /\ UNCHANGED <<endpointVars, raced, modeVars, callVars, sendVars, pushing, rxVars,
                       endVars>>

(* RecvMsg, and the program: the server answers, the thread of the worker  *)
(* is done, the thread that receives ends at TERMINATE.                    *)
RecvMsg(n) ==
    LET m == Head(ordered_recv_buffers[n]).msg
    IN  /\ stop[n] \in {"running", "terminate"} /\ ordered_recv_buffers[n] # <<>>
        /\ ordered_recv_buffers' = [ordered_recv_buffers EXCEPT ![n] = Tail(@)]
        /\ CASE m.kind = "term" ->
                  /\ stop' = [stop EXCEPT ![n] = "terminated"]
                  /\ UNCHANGED <<calls, handled, sendVars>>
             [] m.kind # "term" /\ m.request ->
                  /\ handled' = handled + 1
                  /\ calls' = [calls EXCEPT ![<<m.kind, m.key>>].at = "answer"]
                  /\ Send(n, "w", Items([m EXCEPT !.request = FALSE]))
                  /\ UNCHANGED stop
             [] OTHER ->
                  /\ calls' = [calls EXCEPT ![<<m.kind, m.key>>] = [at |-> "idle", msg |-> Null]]
                  /\ UNCHANGED <<handled, stop, sendVars>>
        /\ UNCHANGED <<endpointVars, raced, modeVars, num, next_send_sid, w_pool, pushing,
                       rxVars, recv_buffers, next_recv_sid, recv_sid_buffers>>

(* Van::Stop sends TERMINATE to the node itself, and waits for it.         *)
Stop(n) ==
    /\ stop[n] = "running"
    /\ \A p \in Nodes : todo[p] = <<>>
    /\ \A c \in Threads : calls[c].at = "idle"
    /\ stop' = [stop EXCEPT ![n] = "terminate"]
    /\ Send(n, n, <<Item("META", Msg("term", TRUE, 0, 0, 0, 0))>>)
    /\ UNCHANGED <<endpointVars, raced, modeVars, callVars, pushing, rxVars, recv_buffers,
                   orderVars, handled>>

(* Mutant of StopThreads: no STOP buffer.                                  *)
StopThreadsOnly(n) ==
    /\ stop[n] = "terminated"
    /\ stop' = [stop EXCEPT ![n] = "join"]
    /\ UNCHANGED <<endpointVars, raced, modeVars, callVars, sendVars, pushing, rxVars,
                   recv_buffers, orderVars, handled>>

(* should_stop_, and a buffer that wakes the thread of ReorderMsg.         *)
StopThreads(n) ==
    /\ stop[n] = "terminated"
    /\ stop' = [stop EXCEPT ![n] = "join"]
    /\ Push(n, Msg("stop", FALSE, 0, 0, 0, 0), Null)
    /\ UNCHANGED <<endpointVars, raced, modeVars, callVars, sendVars, pushing, rxVars,
                   orderVars, handled>>

(* The threads joined.                                                     *)
StopReturns(n) ==
    /\ stop[n] = "join"
    /\ recv_buffers[n] # <<>> /\ Head(recv_buffers[n]).msg.kind = "stop"
    /\ stop' = [stop EXCEPT ![n] = "stopped"]
    /\ recv_buffers' = [recv_buffers EXCEPT ![n] = <<>>]
    /\ UNCHANGED <<endpointVars, raced, modeVars, callVars, sendVars, pushing, rxVars,
                   orderVars, handled>>

otherVars == <<modeVars, callVars, sendVars, pushing, rxVars, recv_buffers, orderVars,
               endVars>>

(***************************************************************************)
(* Faults.  A connection fails at any time, with what did not arrive.  The *)
(* server restarts before the first call; it then expects sequence id 0 of *)
(* a worker that goes on counting, so not with BYTEPS_UCX_FORCE_REQ_ORDER. *)
(***************************************************************************)
Lose(c) ==
    \E k \in 0 .. Len(wire[c]) :
        /\ wire' = [wire EXCEPT ![c] = SubSeq(@, 1, k)]
        /\ dropped' = (dropped \/ k < Len(wire[c]))

BreakUCX(c) ==
    /\ Break(c) /\ Lose(c)
    /\ num + 2 * (failures + restarts) + 2 <= MaxCalls
    /\ UNCHANGED <<raced, modeVars, callVars, tx_reqs, pushing, rxVars, recv_buffers,
                   orderVars, endVars>>

RestartUCX ==
    /\ num = 0 /\ stop = [n \in Nodes |-> "running"] /\ ~force_request_order
    /\ Restart
    /\ UNCHANGED <<raced, otherVars>>

Fault ==
    \/ \E c \in Pairs : FailAttempt(c) /\ UNCHANGED <<raced, otherVars>>
    \/ \E c \in Pairs : BreakUCX(c)
    \/ RestartUCX

Step ==
    \/ EndpointsStep /\ UNCHANGED otherVars
    \/ \E c \in Threads : BeginPush(c) \/ SendMeta(c) \/ SendData(c)
    \/ \E n \in Nodes :
          \/ PollTxQueueUCX(n) \/ ReorderMsg(n) \/ RecvMsg(n)
          \/ StopThreads(n) \/ StopReturns(n)
          \/ \E m \in metas[n] : RxMetaCompletedCb(n, m)
          \/ \E p \in Nodes : \/ PollRx(n, p)
                             \/ \E r \in posted[n] : RxDataCompletedCb(n, p, r)

UCXNext ==
    /\ ~raced
    /\ \/ Step
       \/ Fault
       \/ \E kind \in Kinds, k \in Keys, size \in Sizes : SendMsg(kind, k, size)
       \/ \E n \in Nodes : Stop(n)

(* The threads and UCX make progress; what the program does is open.       *)
UCXSpec == UCXInit /\ [][UCXNext]_ucxVars /\ WF_ucxVars(~raced /\ Step)

-----------------------------------------------------------------------------
(***************************************************************************)
(* What RecvMsg is about to return is a request or an answer that is       *)
(* waited for, with its own tensor, in a buffer that is large enough and   *)
(* not freed: metas and data that were received apart, through other       *)
(* threads and buffers of other sizes, belong together.  Pulled data finds *)
(* the address that the pull cached (the check in GetRxBuffer).            *)
(***************************************************************************)
Intact ==
    /\ \A n \in Nodes : \A i \in DOMAIN ordered_recv_buffers[n] :
          LET b == ordered_recv_buffers[n][i]
              m == b.msg
              c == calls[<<m.kind, m.key>>]
          IN  m.kind \in Kinds =>
                  /\ c.at = IF m.request THEN "request" ELSE "answer"
                  /\ c.msg.ts = m.ts
                  /\ m.kind = "push" /\ m.request =>
                         /\ ~buffers[b.buf].free
                         /\ buffers[b.buf].size >= m.size
                         /\ buffers[b.buf].ts = m.ts
                  /\ m.kind = "pull" /\ ~m.request => pulled[m.key] = m.ts
    /\ \A m \in metas["w"] : m.kind = "pull" => m.key \in w_pool

(***************************************************************************)
(* With BYTEPS_UCX_FORCE_REQ_ORDER the server gets the requests in the     *)
(* order of their sequence ids, also when these wrap around, and whatever  *)
(* order the threads sent and the receives completed in.                   *)
(***************************************************************************)
OrderKept ==
    force_request_order =>
        LET q == SelectSeq(ordered_recv_buffers["s"], LAMBDA b : IsPushpullRequest(b.msg))
        IN  \A i \in DOMAIN q : q[i].msg.sid = (FirstSid + handled + i - 1) % SidCount

(***************************************************************************)
(* A node that handled its lists can send: Find gives an endpoint for      *)
(* every peer, and its connection is up, however many attempts failed,     *)
(* unless that connection failed after it was made.  A reply finds its     *)
(* entry in client_eps_ (the check in AmRxNodeInfoReply).                  *)
(***************************************************************************)
EndpointsKept ==
    /\ \A c \in Pairs : conn[c] = "replied" => c[2] \in client_eps[c[1]]
    /\ \A n \in Nodes : todo[n] = <<>> /\ n \notin lists =>
          \A p \in Nodes : (Find(n, p) /\ conn[<<n, p>>] = "up") \/ lost[<<n, p>>]

(* Connect of every node returns, though attempts and connections fail and *)
(* a server is restarted; unless an entry is erased while Create waits.    *)
ConnectEnds == []<>(raced \/ \A n \in Nodes : todo[n] = <<>> /\ n \notin lists)

(* Every call is answered, unless a message was lost with its connection   *)
(* or two threads were in tx_reqs_.Push at once.                           *)
CallsEnd == []<>(dropped \/ raced \/ \A c \in Threads : calls[c].at = "idle")

(* Stop returns, with the same exceptions.                                 *)
StopEnds == []<>(dropped \/ raced \/ \A n \in Nodes : stop[n] \in {"running", "stopped"})

=============================================================================
