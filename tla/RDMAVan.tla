------------------------------- MODULE RDMAVan -------------------------------
(***************************************************************************)
(* The data path of RDMAVan (src/rdma_van.h) and of its transports         *)
(* (src/rdma_transport.h) over one connection, from the node that          *)
(* connected to the node that accepted.  The first message of a key and a  *)
(* direction, and every control message, goes through a rendezvous: the    *)
(* receiver allocates a buffer and replies with its index.  Later ones are *)
(* written to that buffer at once.  A node has three threads here: the     *)
(* program's, in SendMsg; the completion queue's, in PollCQ, which sends   *)
(* the message of a rendezvous; and the receiving one, in RecvMsg.         *)
(*                                                                         *)
(* The program sends over a connection whose events are handled and none   *)
(* of whose attempts failed.  It reuses a key once the message with it was *)
(* answered, as one that calls Wait does.  A tensor holds the timestamp it *)
(* was last filled for, in each half: STEPMESH_SPLIT_QP_LAG sends the      *)
(* halves through different queue pairs, in steps that the two sending     *)
(* threads of a node take without a lock.                                  *)
(***************************************************************************)
EXTENDS RDMAConnection, Sequences, TLC

CONSTANTS Programs,    \* the programs that are explored
          kStartDepth, \* contexts for rendezvous requests
          kMaxEntries, \* entries of the AddressPool
          SlaveBit     \* 0x8000: marks the immediate data of a slave write

(***************************************************************************)
(* A program: "host", "gdr" (STEPMESH_USE_GDR) or "ipc"; the role of the   *)
(* sending node; its queue pairs; the addresses it sends a key from; and   *)
(* the bounds on its messages with keys and on those of SimpleApp and of   *)
(* the control plane.                                                      *)
(***************************************************************************)
ASSUME VanAssumption ==
    /\ \A p \in Programs :
          /\ p.mode \in {"host", "gdr", "ipc"} /\ p.role \in {"worker", "server"}
          /\ p.qp_num \in QPNums /\ p.lag \in BOOLEAN
          /\ DOMAIN p.tensors \subseteq Nat \ {0}
          /\ p.messages \in Nat /\ p.controls \in Nat
    /\ {kStartDepth, kMaxEntries, SlaveBit} \subseteq Nat \ {0}

kReplyDepth == kRxDepth

Keys == UNION {DOMAIN p.tensors : p \in Programs}
Address == UNION {UNION {p.tensors[k] : k \in DOMAIN p.tensors} : p \in Programs}
Slot == BOOLEAN \X (Keys \union {0})

VARIABLES program,
          timestamp,    \* messages with keys so far
          controls,     \* other messages so far
          busy,         \* busy[slot]: the message not answered yet, or 0
          memory,       \* memory[a]: the halves of the sender's tensor at a
          dest,         \* dest[k]: the halves of the tensor that pulls k
          addr,         \* addr[slot]: push_addr_ and pull_addr_ of the peer
          msg_bufs,     \* the MessageBuffers, with their msgbuf_cache_ entry
          table,        \* the AddressPool: the BufferContexts by index
          gpu,          \* gpu[k]: the halves of the GDR buffer of key k
          wire,         \* wire[s][q]: work that side s posted on connection q
          cq,           \* cq[s]: completions of a side
          recv_buffers,
          free_start_ctx, free_reply_ctx,
          qp_pkt_count, \* qp_pkt_count[s]: slave writes of the endpoint
          sending,      \* sending[t]: the send in halves that thread t is in
          overlapped,   \* two threads were in such a send at once
          copies,       \* what the AsyncCopyThreads still copy
          reading       \* reading[slot]: the message the peer's program has

dataVars == <<program, timestamp, controls, busy, memory, dest, addr, msg_bufs,
              table, gpu, wire, cq, recv_buffers, free_start_ctx, free_reply_ctx,
              qp_pkt_count, sending, overlapped, copies, reading>>

vars == <<connectionVars, dataVars, aborted>>

mode == program.mode
role == program.role

(* The threads that send.                                                  *)
Thread == {"program", "poll"}

Halves(t) == <<t, t>>

Init ==
    /\ ConnectionInit
    /\ program \in Programs
    /\ qp_num = program.qp_num /\ lag = program.lag
    /\ timestamp = 0
    /\ controls = 0
    /\ busy = [x \in Slot |-> 0]
    /\ memory = [a \in Address |-> Halves(0)]
    /\ dest = [k \in Keys |-> Halves(0)]
    /\ addr = [x \in Slot |-> Null]
    /\ msg_bufs = <<>>
    /\ table = <<>>
    /\ gpu = [k \in Keys |-> Halves(0)]
    /\ wire = [s \in Side |-> [q \in {0, 1} |-> <<>>]]
    /\ cq = [s \in Side |-> <<>>]
    /\ recv_buffers = <<>>
    /\ free_start_ctx = kStartDepth
    /\ free_reply_ctx = kReplyDepth
    /\ qp_pkt_count = [s \in Side |-> 0]
    /\ sending = [t \in Thread |-> Null]
    /\ overlapped = FALSE
    /\ copies = {}
    /\ reading = [x \in Slot |-> Null]

-----------------------------------------------------------------------------
(***************************************************************************)
(* Messages.  A control message has the key and the push bit that Meta()   *)
(* gives it, 0 and false.                                                  *)
(***************************************************************************)
Msg(kind, k, t, a) == [kind |-> kind, key |-> k, ts |-> t, tensor |-> a, slave |-> 0]

Control == Msg("control", 0, 0, Null)

IsValidPushpull(m) == m.kind # "control"

SlotOf(m) == <<m.kind \in {"push", "push_response"}, m.key>>

(* GetPackMetaLen counts, of what differs, the types of the data arrays.   *)
GetPackMetaLen(m) ==
    CASE m.kind = "control" -> 0
      [] m.kind \in {"push", "pull_response"} -> 3
      [] m.kind = "pull" -> 2
      [] m.kind = "push_response" -> 1

(* The connection that queue pair q of an endpoint is.                     *)
Conn(s, q) == cm_ids[s][q][1]

Post(w, s, q, item) == [w EXCEPT ![s][Conn(s, q)] = Append(@, item)]

Imm(idx, m) == [op |-> "imm", idx |-> idx, meta |-> m]

(* A write that carries halves hs of the tensor at a to buffer idx.        *)
Write(idx, a, m, hs) == [op |-> "write", idx |-> idx, tensor |-> a, meta |-> m, halves |-> hs]

(* A write of the last half that completes with immediate data.            *)
SlaveWrite(idx, a, m) == [op |-> "slave", idx |-> idx, tensor |-> a, meta |-> m]

IsSlave(imm) == (imm \div SlaveBit) % 2 = 1

(***************************************************************************)
(* RDMATransport::SendPushRequest: the data, and then the meta with the    *)
(* index, on the first queue pair.  With multi_qp_ and a second queue pair *)
(* the tensor goes in halves: the counter of slave writes is loaded,       *)
(* stored, and put in the meta; the first half and the meta are posted;    *)
(* and the second half is posted on the second queue pair.                 *)
(***************************************************************************)
SendData(t, m, idx, a) ==
    /\ IF multi_qp["out"] /\ qp_num > 1
       THEN /\ sending' = [sending EXCEPT ![t] =
                   [at |-> "loaded", msg |-> m, idx |-> idx, tensor |-> a,
                    count |-> qp_pkt_count["out"] + 1]]
            /\ overlapped' = (overlapped \/ \E u \in Thread : sending[u] # Null)
            /\ UNCHANGED wire
       ELSE /\ wire' = Post(Post(wire, "out", 0, Write(idx, a, m, {1, 2})),
                            "out", 0, Imm(idx, m))
            /\ UNCHANGED <<sending, overlapped>>
    /\ UNCHANGED copies

(* The data of a pull response goes to the address that the request named. *)
SendPullResponse(t, m, idx) == SendData(t, m, idx, m.tensor)

(* RDMATransport::Send: only the meta.                                     *)
SendMeta(m, idx) ==
    /\ wire' = Post(wire, "out", 0, Imm(idx, m))
    /\ UNCHANGED <<sending, overlapped, copies>>

(* IPCTransport leaves a pull response to a thread that copies it first.   *)
SendPullResponseIPC(m, idx) ==
    /\ copies' = copies \union {[msg |-> m, idx |-> idx]}
    /\ UNCHANGED <<wire, sending, overlapped>>

(***************************************************************************)
(* The send, by thread t, of a message whose buffer is known.  A push      *)
(* takes its data from the memory region that the first push with the key  *)
(* registered.  Between processes of a host a push sends only its meta.    *)
(***************************************************************************)
Transmit(t, m, b, idx) ==
    CASE m.kind = "push" /\ mode # "ipc" -> SendData(t, m, idx, msg_bufs[b].mr)
      [] m.kind = "pull_response" /\ mode # "ipc" -> SendPullResponse(t, m, idx)
      [] m.kind = "pull_response" /\ mode = "ipc" -> SendPullResponseIPC(m, idx)
      [] OTHER -> SendMeta(m, idx)

(* RegisterMemory, PrepareNewMsgBuf, StoreMsgBuf and PrepareData.          *)
PrepareNewMsgBuf(m) == [len |-> GetPackMetaLen(m), mr |-> m.tensor, first |-> m]

SendRendezvousBegin(m) ==
    /\ free_start_ctx > 0
    /\ free_start_ctx' = free_start_ctx - 1
    /\ msg_bufs' = Append(msg_bufs, PrepareNewMsgBuf(m))
    /\ wire' = Post(wire, "out", 0, [op |-> "start", buf |-> Len(msg_bufs) + 1])
    /\ UNCHANGED <<sending, overlapped, copies, aborted>>

HasRemoteInfo(m) == addr[SlotOf(m)] # Null

(* The cached buffer takes the new meta, which must have the same length.  *)
SendAgain(m) ==
    LET b == addr[SlotOf(m)].buf
    IN  /\ IF msg_bufs[b].len # GetPackMetaLen(m)
           THEN /\ aborted' = TRUE
                /\ UNCHANGED <<wire, sending, overlapped, copies>>
           ELSE /\ Transmit("program", m, b, addr[SlotOf(m)].idx)
                /\ UNCHANGED aborted
        /\ UNCHANGED <<msg_bufs, free_start_ctx>>

SendMsg(m) ==
    /\ ~aborted
    /\ connect = "returned" /\ events = {} /\ failures = 0
    /\ sending["program"] = Null
    /\ IF IsValidPushpull(m) /\ HasRemoteInfo(m)
       THEN SendAgain(m)
       ELSE SendRendezvousBegin(m)
    /\ UNCHANGED <<connectionVars, program, dest, addr, table, gpu, cq,
                   recv_buffers, free_reply_ctx, qp_pkt_count, reading>>

(***************************************************************************)
(* The program fills a tensor and sends it, or asks for one.               *)
(***************************************************************************)
Kinds == IF role = "worker" THEN {"push", "pull"} ELSE {"push_response", "pull_response"}

SendKey(kind, k, a) ==
    LET m == Msg(kind, k, timestamp + 1, a)
    IN  /\ timestamp < program.messages
        /\ kind \in Kinds
        /\ busy[SlotOf(m)] = 0
        /\ timestamp' = timestamp + 1
        /\ busy' = [busy EXCEPT ![SlotOf(m)] = timestamp']
        /\ memory' = IF kind \in {"push", "pull_response"}
                     THEN [memory EXCEPT ![a] = Halves(timestamp')]
                     ELSE memory
        /\ SendMsg(m)
        /\ UNCHANGED controls

SendControl ==
    /\ controls < program.controls
    /\ controls' = controls + 1
    /\ SendMsg(Control)
    /\ UNCHANGED <<timestamp, busy, memory>>

(***************************************************************************)
(* The rest of SendData of thread t, when it sends in halves.  The counter *)
(* is not atomic, and the meta takes it after the increment: it may hold   *)
(* what the thread stored, or what the other thread stored since.          *)
(***************************************************************************)
SendStep(t, at) ==
    /\ ~aborted
    /\ sending[t] # Null
    /\ sending[t].at = at
    /\ UNCHANGED <<connectionVars, aborted, program, timestamp, controls, busy,
                   memory, dest, addr, msg_bufs, table, gpu, cq, recv_buffers,
                   free_start_ctx, free_reply_ctx, overlapped, copies, reading>>

CountSlave(t) ==
    /\ SendStep(t, "loaded")
    /\ qp_pkt_count' = [qp_pkt_count EXCEPT !["out"] = sending[t].count]
    /\ sending' = [sending EXCEPT ![t].at = "counted"]
    /\ UNCHANGED wire

PostFirst(t) ==
    LET d == sending[t]
    IN  /\ SendStep(t, "counted")
        /\ \E count \in {d.count, qp_pkt_count["out"]} :
              LET m == [d.msg EXCEPT !.slave = count]
              IN  /\ wire' = Post(Post(wire, "out", 0, Write(d.idx, d.tensor, m, {1})),
                                  "out", 0, Imm(d.idx, m))
                  /\ sending' = [sending EXCEPT ![t].at = "posted"]
        /\ UNCHANGED qp_pkt_count

PostSecond(t) ==
    LET d == sending[t]
    IN  /\ SendStep(t, "posted")
        /\ wire' = Post(wire, "out", 1, SlaveWrite(d.idx, d.tensor, d.msg))
        /\ sending' = [sending EXCEPT ![t] = Null]
        /\ UNCHANGED qp_pkt_count

-----------------------------------------------------------------------------
(***************************************************************************)
(* The network executes the work of a connection in order.  What completes *)
(* at the receiver takes one of its posted receives; a rendezvous message  *)
(* completes at its sender too.                                            *)
(***************************************************************************)
Update(old, a, hs) == [h \in {1, 2} |-> IF h \in hs THEN memory[a][h] ELSE old[h]]

(* A GDR receiver has a GPU buffer for each key, others one for each index.*)
UsesGPU(m) == m.kind = "push" /\ mode = "gdr"

PutData(idx, m, a, hs) ==
    IF m.kind = "pull_response"
    THEN /\ dest' = [dest EXCEPT ![m.key] = Update(@, a, hs)]
         /\ UNCHANGED <<table, gpu>>
    ELSE IF UsesGPU(m)
         THEN /\ gpu' = [gpu EXCEPT ![m.key] = Update(@, a, hs)]
              /\ UNCHANGED <<table, dest>>
         ELSE /\ table' = [table EXCEPT ![idx].data = Update(@, a, hs)]
              /\ UNCHANGED <<gpu, dest>>

Completion(s, q, item) ==
    /\ posted[Peer(s)][q] > 0
    /\ posted' = [posted EXCEPT ![Peer(s)][q] = @ - 1]
    /\ cq' = [cq EXCEPT ![Peer(s)] = Append(@, item),
                        ![s] = IF item.op \in {"start", "reply"}
                               THEN Append(@, [op |-> "sent", what |-> item.op])
                               ELSE @]

Execute(s, q) ==
    LET item == Head(wire[s][q])
    IN  /\ ~aborted
        /\ wire[s][q] # <<>>
        /\ wire' = [wire EXCEPT ![s][q] = Tail(@)]
        /\ CASE item.op = "write" ->
                  /\ PutData(item.idx, item.meta, item.tensor, item.halves)
                  /\ UNCHANGED <<posted, cq>>
             [] item.op = "slave" ->
                  /\ PutData(item.idx, item.meta, item.tensor, {2})
                  /\ Completion(s, q, [op |-> "imm", conn |-> q,
                        imm |-> IF IsSlave(item.idx) THEN item.idx
                                                     ELSE item.idx + SlaveBit])
             [] item.op = "imm" ->
                  /\ table' = [table EXCEPT ![item.idx].meta = item.meta]
                  /\ Completion(s, q, [op |-> "imm", conn |-> q, imm |-> item.idx])
                  /\ UNCHANGED <<gpu, dest>>
             [] OTHER ->
                  /\ Completion(s, q, item)
                  /\ UNCHANGED <<table, gpu, dest>>
        /\ UNCHANGED <<setupVars, aborted, program, timestamp, controls, busy,
                       memory, addr, msg_bufs, recv_buffers, free_start_ctx,
                       free_reply_ctx, qp_pkt_count, sending, overlapped, copies,
                       reading>>

-----------------------------------------------------------------------------
(* Mutant of Repost: the receive is not posted again.                      *)
RepostNothing(s, q) == UNCHANGED posted

(* ReleaseWorkRequestContext of a receive: it is posted on queue pair q.   *)
Repost(s, q) == PostRecv(s, Conn(s, q), posted[s][Conn(s, q)] + 1)

(***************************************************************************)
(* PollCQ, one completion at a time.  The thread runs once a connection of *)
(* the node was established.                                               *)
(***************************************************************************)
Poll(s, op) ==
    /\ ~aborted
    /\ \E q \in QPs : status_list[s][q] = "CONNECTED"
    /\ cq[s] # <<>>
    /\ Head(cq[s]).op = op
    /\ UNCHANGED <<setupVars, program, timestamp, controls, busy, memory, dest,
                   gpu, reading>>

PollSent(s) ==
    /\ Poll(s, "sent")
    /\ cq' = [cq EXCEPT ![s] = Tail(@)]
    /\ IF Head(cq[s]).what = "start"
       THEN /\ free_start_ctx' = free_start_ctx + 1
            /\ UNCHANGED free_reply_ctx
       ELSE /\ free_reply_ctx' = free_reply_ctx + 1
            /\ UNCHANGED free_start_ctx
    /\ UNCHANGED <<posted, addr, msg_bufs, table, wire, recv_buffers,
                   qp_pkt_count, sending, overlapped, copies, aborted>>

(* Indices leave the queue of the AddressPool in order, and never return.  *)
PoolUsed == Cardinality(DOMAIN table)

(***************************************************************************)
(* SendRendezvousReply: a buffer, a context to reply with (the thread      *)
(* waits for one) and an index of the pool, which must not be empty.       *)
(***************************************************************************)
PollStart ==
    /\ Poll("in", "start")
    /\ free_reply_ctx > 0
    /\ IF PoolUsed = kMaxEntries
       THEN /\ aborted' = TRUE
            /\ UNCHANGED <<posted, cq, table, wire, free_reply_ctx>>
       ELSE /\ table' = table @@ (PoolUsed :> [meta |-> Null, data |-> Halves(0)])
            /\ free_reply_ctx' = free_reply_ctx - 1
            /\ wire' = Post(wire, "in", 0, [op |-> "reply", idx |-> PoolUsed,
                                            buf |-> Head(cq["in"]).buf])
            /\ Repost("in", 0)
            /\ cq' = [cq EXCEPT !["in"] = Tail(@)]
            /\ UNCHANGED aborted
    /\ UNCHANGED <<addr, msg_bufs, recv_buffers, free_start_ctx, qp_pkt_count,
                   sending, overlapped, copies>>

StoreRemoteAndLocalInfo(m, t) == addr' = [addr EXCEPT ![SlotOf(m)] = t]

(***************************************************************************)
(* The reply: the buffer is remembered, from where on SendMsg finds it;    *)
(* then the first message is sent; and when that is done, the receive is   *)
(* posted again.                                                           *)
(***************************************************************************)
PollReply ==
    LET c == Head(cq["out"])
    IN  /\ Poll("out", "reply")
        /\ StoreRemoteAndLocalInfo(msg_bufs[c.buf].first,
                                   [buf |-> c.buf, idx |-> c.idx])
        /\ cq' = [cq EXCEPT !["out"][1].op = "stored"]
        /\ UNCHANGED <<posted, msg_bufs, wire, qp_pkt_count, sending, overlapped,
                       copies, table, recv_buffers, free_start_ctx,
                       free_reply_ctx, aborted>>

PollReplySend ==
    LET c == Head(cq["out"])
    IN  /\ Poll("out", "stored")
        /\ msg_bufs' = [msg_bufs EXCEPT ![c.buf].first = Null]
        /\ Transmit("poll", msg_bufs[c.buf].first, c.buf, c.idx)
        /\ cq' = [cq EXCEPT !["out"][1].op = "sending"]
        /\ UNCHANGED <<posted, addr, table, recv_buffers, free_start_ctx,
                       free_reply_ctx, qp_pkt_count, aborted>>

PollReplyDone ==
    /\ Poll("out", "sending")
    /\ sending["poll"] = Null
    /\ Repost("out", 0)
    /\ cq' = [cq EXCEPT !["out"] = Tail(@)]
    /\ UNCHANGED <<addr, msg_bufs, table, wire, recv_buffers, free_start_ctx,
                   free_reply_ctx, qp_pkt_count, sending, overlapped, copies,
                   aborted>>

(* The queue pair of a completion: the last that matches, else the first.  *)
QPOf(s, c) == IF qp_num = 2 /\ cm_ids[s][1] # Null /\ Conn(s, 1) = c THEN 1 ELSE 0

(* A write with immediate data: a message, or a half of one.               *)
PollImm ==
    LET c == Head(cq["in"])
    IN  /\ Poll("in", "imm")
        /\ aborted' = (\E q \in QPs : cm_ids["in"][q] = Null)
        /\ IF IsSlave(c.imm)
           THEN /\ qp_pkt_count' = [qp_pkt_count EXCEPT !["in"] = @ + 1]
                /\ UNCHANGED recv_buffers
           ELSE /\ recv_buffers' = Append(recv_buffers, c.imm)
                /\ UNCHANGED qp_pkt_count
        /\ Repost("in", QPOf("in", c.conn))
        /\ cq' = [cq EXCEPT !["in"] = Tail(@)]
        /\ UNCHANGED <<addr, msg_bufs, table, wire, free_start_ctx,
                       free_reply_ctx, sending, overlapped, copies>>

-----------------------------------------------------------------------------
(* Between processes of a host the data is in the key's shared memory.     *)
RecvPushRequestIPC(m) == memory[m.tensor]

(* What the handlers of the transport hand to the program with message m.  *)
DataOf(idx, m) ==
    CASE m.kind = "pull_response" -> dest[m.key]
      [] UsesGPU(m) -> gpu[m.key]
      [] m.kind = "push" /\ mode = "ipc" -> RecvPushRequestIPC(m)
      [] m.kind = "push" /\ mode = "host" -> table[idx].data
      [] OTHER -> Halves(m.ts)

(* Mutant of SlavesArrived: the slave writes are not waited for.           *)
SlavesIgnored(m) == TRUE

(* RecvMsg spins until the slave writes that the meta counts have arrived. *)
SlavesArrived(m) == m.slave <= qp_pkt_count["in"]

RecvMsg ==
    LET idx == Head(recv_buffers)
        m == table[idx].meta
    IN  /\ ~aborted
        /\ recv_buffers # <<>>
        /\ SlavesArrived(m)
        /\ recv_buffers' = Tail(recv_buffers)
        /\ reading' = IF IsValidPushpull(m)
                      THEN [reading EXCEPT ![SlotOf(m)] =
                              [ts |-> m.ts, idx |-> idx, data |-> DataOf(idx, m),
                               kind |-> m.kind,
                               times |-> IF @ = Null THEN 1 ELSE @.times + 1]]
                      ELSE reading
        /\ UNCHANGED <<connectionVars, aborted, program, timestamp, controls,
                       busy, memory, dest, addr, msg_bufs, table, gpu, wire, cq,
                       free_start_ctx, free_reply_ctx, qp_pkt_count, sending,
                       overlapped, copies>>

(* An AsyncCopyThread: the copy to shared memory, then the meta.           *)
AsyncCopy(c) ==
    /\ ~aborted
    /\ c \in copies
    /\ copies' = copies \ {c}
    /\ dest' = [dest EXCEPT ![c.msg.key] = memory[c.msg.tensor]]
    /\ wire' = Post(wire, "out", 0, Imm(c.idx, c.msg))
    /\ UNCHANGED <<connectionVars, aborted, program, timestamp, controls, busy,
                   memory, addr, msg_bufs, table, gpu, cq, recv_buffers,
                   free_start_ctx, free_reply_ctx, qp_pkt_count, sending,
                   overlapped, reading>>

(* The peer's program is done with a message, and its sender knows.        *)
Answer(x) ==
    /\ ~aborted
    /\ reading[x] # Null
    /\ reading' = [reading EXCEPT ![x] = Null]
    /\ busy' = [busy EXCEPT ![x] = 0]
    /\ UNCHANGED <<connectionVars, aborted, program, timestamp, controls, memory,
                   dest, addr, msg_bufs, table, gpu, wire, cq, recv_buffers,
                   free_start_ctx, free_reply_ctx, qp_pkt_count, sending,
                   overlapped, copies>>

Send ==
    \/ SendControl
    \/ \E kind \in {"push", "pull", "push_response", "pull_response"},
          k \in DOMAIN program.tensors :
             \E a \in program.tensors[k] : SendKey(kind, k, a)

Deliver ==
    \/ \E s \in Side : PollSent(s)
    \/ \E s \in Side, q \in {0, 1} : Execute(s, q)
    \/ \E t \in Thread : CountSlave(t) \/ PostFirst(t) \/ PostSecond(t)
    \/ PollStart \/ PollReply \/ PollReplySend \/ PollReplyDone
    \/ PollImm \/ RecvMsg
    \/ \E c \in copies : AsyncCopy(c)

Next ==
    \/ ConnectionNext /\ UNCHANGED dataVars
    \/ Send \/ Deliver
    \/ \E x \in Slot : Answer(x)

Spec == Init /\ [][Next]_vars

(***************************************************************************)
(* The event threads, the polling threads and the receiving thread run on, *)
(* and a program's thread ends the send that it is in.                     *)
(***************************************************************************)
FairSpec ==
    /\ Spec
    /\ WF_vars(ConnectionNext /\ UNCHANGED <<dataVars, failures>>)
    /\ WF_vars(Deliver)

-----------------------------------------------------------------------------
(***************************************************************************)
(* When Connect returns, every queue pair it reports CONNECTED belongs to  *)
(* a connection that the peer accepted and that, if it was lost since, has *)
(* its DISCONNECTED event under way, although OnConnected takes the queue  *)
(* pair from a counter and not from the event.  (With two queue pairs that *)
(* is true only if no attempt failed.)                                     *)
(***************************************************************************)
ConnectedMeansUp ==
    connect = "returned" /\ (qp_num = 1 \/ failures = 0) =>
        \A q \in QPs :
            status_list["out"][q] = "CONNECTED" =>
                \/ cm_ids["out"][q] \in up
                \/ <<"out", "DISCONNECTED", cm_ids["out"][q]>> \in events

(* No attempt failed, and both ends number the queue pairs alike.          *)
GoodConnection ==
    /\ connect = "returned"
    /\ failures = 0
    /\ cm_ids["in"] = cm_ids["out"]

(* The tensor whose content goes out with message m of slot x.             *)
Source(x, m) ==
    IF m.kind = "push" /\ mode # "ipc" THEN msg_bufs[addr[x].buf].mr ELSE m.tensor

(***************************************************************************)
(* RecvMsg hands out every message once, with the meta of the message that *)
(* waits for its answer and with all of its data, whether it came through  *)
(* a rendezvous, by the cached buffer or in halves through two queue pairs;*)
(* and no later write touches its buffers until it is answered.  The data  *)
(* is that of the message if the key is pushed from the tensor of its      *)
(* first push, and if no two threads sent in halves at once: the receiver  *)
(* counts halves, and cannot tell whose they are.                          *)
(***************************************************************************)
Intact ==
    \A x \in Slot : reading[x] # Null =>
        LET m == table[reading[x].idx].meta
        IN  /\ reading[x].ts = busy[x]
            /\ reading[x].times = 1
            /\ m.ts = busy[x]
            /\ ~overlapped =>
                  /\ Source(x, m) = m.tensor => reading[x].data = Halves(busy[x])
                  /\ DataOf(reading[x].idx, m) = reading[x].data

(* Slots with a rendezvous behind or under way.                            *)
Known == {x \in BOOLEAN \X Keys : addr[x] # Null}
           \union {SlotOf(msg_bufs[b].first) :
                     b \in {c \in DOMAIN msg_bufs : msg_bufs[c].first # Null}}

Consumed(s, q) ==
    {i \in DOMAIN cq[s] : \/ cq[s][i].op \in {"start", "reply", "stored", "sending"} /\ q = 0
                          \/ cq[s][i].op = "imm" /\ cq[s][i].conn = q}

(***************************************************************************)
(* Receives are conserved: each is posted on its connection or in a        *)
(* completion that PollCQ has not released, so a connection never runs dry.*)
(* A key takes one entry of the pool for each direction, however often it  *)
(* is sent; control messages take one each, for ever.                      *)
(***************************************************************************)
ResourcesKept ==
    /\ GoodConnection =>
          \A s \in Side, q \in QPs :
              posted[s][q] + Cardinality(Consumed(s, q)) = kRxDepth \div qp_num
    /\ PoolUsed <= controls + Cardinality(Known \ {<<FALSE, 0>>})

(* With two queue pairs: no attempt fails, and the counter that the        *)
(* handlers share names the right one, as all routes are resolved before a *)
(* connection is established.                                              *)
CountersAgree ==
    /\ failures = 0 /\ ~aborted
    /\ (\E q \in QPs : status_list["out"][q] = "CONNECTED") =>
          \A q \in QPs : HasQueuePair("out", q)

(***************************************************************************)
(* Connect returns: with one queue pair however often it is rejected, and  *)
(* with two unless OnRouteResolved and OnConnected advance inComingCount   *)
(* in turns.                                                               *)
(***************************************************************************)
ConnectReturns == [](qp_num = 1 \/ CountersAgree) => <>(connect = "returned")

(* Over a good connection every message is handed to the peer's program.   *)
EverythingReceived ==
    \A x \in Slot : GoodConnection /\ busy[x] # 0 ~> reading[x] # Null \/ aborted
=============================================================================
