--------------------------- MODULE FabricTransport ---------------------------
(***************************************************************************)
(* The endpoints of FabricVan and the messages between two of them:        *)
(* FabricEndpoint and FabricTransport of src/fabric_transport.h, and the   *)
(* completion handlers of src/fabric_van.h.                                *)
(*                                                                         *)
(* The first message of a key and a direction, and every control message,  *)
(* goes through a rendezvous: the receiver allocates a buffer, posts a     *)
(* receive with a tag of its own and replies with that tag.  The send      *)
(* context is kept with the key, and used for later messages: with the     *)
(* address of the first one's tensor.  A program may keep the tensor of a  *)
(* key in several places.                                                  *)
(*                                                                         *)
(* Endpoint <<n, p>> is the one of node n to node p.  Messages are sent    *)
(* from where they are (zero copy): what arrives is what the buffers hold  *)
(* then.  The fabric keeps the order of messages with one tag (SAS).       *)
(***************************************************************************)
EXTENDS Integers, Sequences, FiniteSets, SequencesExt

CONSTANTS Nodes, Keys,
          Places,      \* bound: places for the tensor of a key, 1 .. Places
          kStartDepth, \* contexts for rendezvous requests
          kRxDepth,    \* receives of an endpoint, and contexts for replies
          kMaxEntries, \* entries of the AddressPool
          Null

ASSUME TransportAssumption ==
    /\ Keys \subseteq Nat \ {0}
    /\ {Places, kStartDepth, kRxDepth, kMaxEntries} \subseteq Nat \ {0}

Endpoints == Nodes \X Nodes
Remote(e) == <<e[2], e[1]>>

kRendezvousStart == -1
kRendezvousReply == -2
Tags == -2 .. kMaxEntries - 1

VARIABLES trans,        \* trans[e]: the endpoint is initialized
          send_queue,
          free_start_ctx, free_reply_ctx,
          context,      \* push_context and pull_context: message buffers
          msg_bufs,     \* the FabricMessageBuffers and their msgbuf_cache
          addr_cache,   \* addr_cache[e][k]: the address of a pull
          addr_pool,    \* addr_pool[e]: the FabricBufferContexts by tag
          posted,       \* posted[e][tag]: receives that are posted
          wire,         \* wire[e]: what was sent and has not arrived
          cq,           \* cq[e]: completions
          recv_buffers, \* recv_buffers_: endpoint and tag
          pushing,      \* endpoints whose thread is in recv_buffers_.Push
          raced,        \* two threads of a node were in it at once
          memory,       \* memory[n][<<k, a>>]: what node n sends of key k
          pulled        \* pulled[<<k, a>>]: what key k is pulled to

transportVars == <<trans, send_queue, free_start_ctx, free_reply_ctx, context,
                   msg_bufs, addr_cache, addr_pool, posted, wire, cq,
                   recv_buffers, pushing, raced, memory, pulled>>

Addresses == Keys \X (1 .. Places)
Slots == BOOLEAN \X (Keys \union {0})

TransportInit ==
    /\ trans = [e \in Endpoints |-> FALSE]
    /\ send_queue = [e \in Endpoints |-> <<>>]
    /\ free_start_ctx = [e \in Endpoints |-> 0]
    /\ free_reply_ctx = [e \in Endpoints |-> 0]
    /\ context = [e \in Endpoints |-> [x \in Slots |-> <<>>]]
    /\ msg_bufs = [e \in Endpoints |-> <<>>]
    /\ addr_cache = [e \in Endpoints |-> [k \in Keys |-> Null]]
    /\ addr_pool = [e \in Endpoints |-> <<>>]
    /\ posted = [e \in Endpoints |-> [t \in Tags |-> 0]]
    /\ wire = [e \in Endpoints |-> <<>>]
    /\ cq = [e \in Endpoints |-> <<>>]
    /\ recv_buffers = [n \in Nodes |-> <<>>]
    /\ pushing = {}
    /\ raced = FALSE
    /\ memory = [n \in Nodes |-> [x \in Addresses |-> 0]]
    /\ pulled = [x \in Addresses |-> 0]

(* A control message has the key and the push bit of Meta(): 0 and false.  *)
IsValidPushpull(m) == m.kind \in {"push", "pull"}

Slot(m) == <<m.kind = "push", IF IsValidPushpull(m) THEN m.key ELSE 0>>

(* FabricEndpoint::Init: the contexts are free, the receives posted.       *)
EndpointInit(e) ==
    /\ trans' = [trans EXCEPT ![e] = TRUE]
    /\ free_start_ctx' = [free_start_ctx EXCEPT ![e] = kStartDepth]
    /\ free_reply_ctx' = [free_reply_ctx EXCEPT ![e] = kRxDepth]
    /\ posted' = [posted EXCEPT ![e][kRendezvousStart] = kRxDepth \div 2,
                                ![e][kRendezvousReply] = kRxDepth \div 2]
    /\ UNCHANGED <<send_queue, context, msg_bufs, addr_cache, addr_pool, wire, cq,
                   recv_buffers, pushing, raced, memory, pulled>>

HasRemoteInfo(e, m) == IsValidPushpull(m) /\ context[e][Slot(m)] # <<>>

(* The entry that StoreRemoteContext adds for message buffer b.            *)
StoreRemoteContext(e, b) ==
    [context EXCEPT ![e][Slot(msg_bufs[e][b].msg)] = Append(@, b)]

WR(tag, b, idx, m) == [tag |-> tag, buf |-> b, idx |-> idx, msg |-> m]

Send(e, wr) == wire' = [wire EXCEPT ![e] = Append(@, wr)]

-----------------------------------------------------------------------------
(* The worker thread of an endpoint sends.                                 *)

(* SendRendezvousBegin waits for a context that its own thread frees.      *)
Blocked(e) ==
    /\ send_queue[e] # <<>>
    /\ ~HasRemoteInfo(e, Head(send_queue[e]))
    /\ free_start_ctx[e] = 0

(* Mutant of Repacked: the meta of the first message is sent again.        *)
RepackedNot(e, b, m) == msg_bufs

(* The meta of a later message is packed to the buffer of the first; the   *)
(* context keeps the address of the first one's tensor.                    *)
Repacked(e, b, m) == [msg_bufs EXCEPT ![e][b].msg = m]

PrepareNewMsgBuf(e, m) ==
    [msg_bufs EXCEPT ![e] = Append(@, [msg |-> m, tag |-> Null, data |-> m.addr])]

SendRendezvousBegin(e, b, m) ==
    /\ free_start_ctx' = [free_start_ctx EXCEPT ![e] = @ - 1]
    /\ Send(e, WR(kRendezvousStart, b, Null, m))

StorePullAddr(e, m) ==
    IF m.kind = "pull" /\ m.request
    THEN [addr_cache EXCEPT ![e][m.key] = m.addr] ELSE addr_cache

WorkerSendMsg(e) ==
    LET m == Head(send_queue[e])
        x == Slot(m)
    IN  /\ trans[e] /\ send_queue[e] # <<>>
        /\ ~Blocked(e)
        /\ send_queue' = [send_queue EXCEPT ![e] = Tail(@)]
        /\ addr_cache' = StorePullAddr(e, m)
        /\ IF HasRemoteInfo(e, m)
           THEN LET c == Head(context[e][x])
                IN  /\ context' = [context EXCEPT ![e][x] = Tail(@)]
                    /\ msg_bufs' = Repacked(e, c, m)
                    /\ Send(e, WR(msg_bufs[e][c].tag, c, Null, Null))
                    /\ UNCHANGED free_start_ctx
           ELSE /\ msg_bufs' = PrepareNewMsgBuf(e, m)
                /\ SendRendezvousBegin(e, Len(msg_bufs[e]) + 1, m)
                /\ UNCHANGED context
        /\ UNCHANGED <<trans, free_reply_ctx, addr_pool, posted, cq, recv_buffers,
                       pushing, raced, memory, pulled>>

-----------------------------------------------------------------------------
(***************************************************************************)
(* The fabric moves item i of wire[e] into a receive posted for its tag,   *)
(* and both ends complete.  The data goes from the address in the send     *)
(* context to the one in the receive context.                              *)
(***************************************************************************)
Entry(send, wr) == [send |-> send, wr |-> wr]

Transfer(e, i) ==
    LET r == Remote(e)
        wr == wire[e][i]
        m == msg_bufs[e][wr.buf].msg
        data == memory[e[1]][<<m.key, msg_bufs[e][wr.buf].data>>]
    IN  /\ i \in DOMAIN wire[e]
        /\ \A j \in 1 .. i - 1 : wire[e][j].tag # wr.tag
        /\ trans[r] /\ posted[r][wr.tag] > 0
        /\ posted' = [posted EXCEPT ![r][wr.tag] = @ - 1]
        /\ wire' = [wire EXCEPT ![e] = RemoveAt(@, i)]
        /\ cq' = IF e = r THEN [cq EXCEPT ![e] = @ \o <<Entry(TRUE, wr), Entry(FALSE, wr)>>]
                 ELSE [cq EXCEPT ![e] = Append(@, Entry(TRUE, wr)),
                                 ![r] = Append(@, Entry(FALSE, wr))]
        /\ IF wr.tag < 0 THEN UNCHANGED <<addr_pool, pulled>>
           ELSE /\ addr_pool' = [addr_pool EXCEPT ![r][wr.tag + 1].meta = m,
                     ![r][wr.tag + 1].data =
                         IF m.kind = "push" /\ m.request THEN data ELSE @]
                /\ pulled' = IF m.kind = "pull" /\ ~m.request
                             THEN [pulled EXCEPT
                                     ![<<m.key, addr_pool[r][wr.tag + 1].buffer>>] = data]
                             ELSE pulled
        /\ UNCHANGED <<trans, send_queue, free_start_ctx, free_reply_ctx, context,
                       msg_bufs, addr_cache, recv_buffers, pushing, raced, memory>>

(***************************************************************************)
(* SendRendezvousReply: a buffer context with the next tag, its receive,   *)
(* and the reply.  The receive for pull responses has the address of the   *)
(* last pull of the key, which must be known, for all that follow.         *)
(***************************************************************************)
GetPullAddr(e, m) ==
    IF m.kind = "pull" /\ ~m.request THEN addr_cache[e][m.key] ELSE 0

(* Mutant of Repost: the receive with data is used once.                   *)
RepostRend(e, tag) ==
    IF tag < 0 THEN [posted EXCEPT ![e][tag] = @ + 1] ELSE posted

(* ReleaseWRContext posts a receive again.                                 *)
Repost(e, tag) == [posted EXCEPT ![e][tag] = @ + 1]

SendRendezvousReply(e, wr) ==
    LET tag == Len(addr_pool[e])
    IN  /\ free_reply_ctx[e] > 0
        /\ free_reply_ctx' = [free_reply_ctx EXCEPT ![e] = @ - 1]
        /\ addr_pool' = [addr_pool EXCEPT ![e] =
              Append(@, [meta |-> Null, data |-> 0, buffer |-> GetPullAddr(e, wr.msg)])]
        /\ posted' = [Repost(e, kRendezvousStart) EXCEPT ![e][tag] = 1]
        /\ Send(e, WR(kRendezvousReply, wr.buf, tag, Null))
        /\ UNCHANGED <<context, msg_bufs, free_start_ctx, recv_buffers, pushing>>

(***************************************************************************)
(* The reply names the tag.  The context is stored before the message is   *)
(* sent, and once more when that has completed.                            *)
(***************************************************************************)
OnRendezvousReply(e, wr) ==
    /\ msg_bufs' = [msg_bufs EXCEPT ![e][wr.buf].tag = wr.idx]
    /\ context' = StoreRemoteContext(e, wr.buf)
    /\ Send(e, WR(wr.idx, wr.buf, Null, Null))
    /\ posted' = Repost(e, kRendezvousReply)
    /\ UNCHANGED <<addr_pool, free_start_ctx, free_reply_ctx, recv_buffers, pushing>>

(***************************************************************************)
(* recv_buffers_ is the ring of ThreadsafeQueue, for one producer, and     *)
(* every endpoint of the node has a thread that pushes to it.  Once two    *)
(* are in Push at a time it may hold anything: no step follows.            *)
(***************************************************************************)
BeginPush(e) ==
    /\ cq[e] # <<>> /\ ~Head(cq[e]).send /\ Head(cq[e]).wr.tag >= 0
    /\ e \notin pushing
    /\ pushing' = pushing \union {e}
    /\ raced' = \E f \in pushing : f[1] = e[1]
    /\ UNCHANGED <<trans, send_queue, free_start_ctx, free_reply_ctx, context,
                   msg_bufs, addr_cache, addr_pool, posted, wire, cq,
                   recv_buffers, memory, pulled>>

OnData(e, wr) ==
    /\ e \in pushing
    /\ pushing' = pushing \ {e}
    /\ recv_buffers' = [recv_buffers EXCEPT ![e[1]] = Append(@, <<e, wr.tag>>)]
    /\ posted' = Repost(e, wr.tag)
    /\ UNCHANGED <<addr_pool, context, msg_bufs, free_start_ctx, free_reply_ctx, wire>>

(* Mutant of ReleaseWRContext: the contexts of replies are not freed.      *)
ReleaseWRContextStart(e, wr) ==
    /\ free_start_ctx' = [free_start_ctx EXCEPT
                            ![e] = @ + (IF wr.tag = kRendezvousStart THEN 1 ELSE 0)]
    /\ context' = IF wr.tag >= 0 THEN StoreRemoteContext(e, wr.buf) ELSE context
    /\ UNCHANGED <<free_reply_ctx, addr_pool, posted, msg_bufs, recv_buffers, pushing,
                   wire>>

(* ReleaseWRContext of a send.                                             *)
ReleaseWRContext(e, wr) ==
    LET one(tag) == IF wr.tag = tag THEN 1 ELSE 0
    IN  /\ free_start_ctx' = [free_start_ctx EXCEPT ![e] = @ + one(kRendezvousStart)]
        /\ free_reply_ctx' = [free_reply_ctx EXCEPT ![e] = @ + one(kRendezvousReply)]
        /\ context' = IF wr.tag >= 0 THEN StoreRemoteContext(e, wr.buf) ELSE context
        /\ UNCHANGED <<addr_pool, posted, msg_bufs, recv_buffers, pushing, wire>>

HandleCompletionEvent(e) ==
    LET wr == Head(cq[e]).wr
    IN  /\ cq[e] # <<>>
        /\ cq' = [cq EXCEPT ![e] = Tail(@)]
        /\ IF Head(cq[e]).send THEN ReleaseWRContext(e, wr)
           ELSE CASE wr.tag = kRendezvousStart -> SendRendezvousReply(e, wr)
                  [] wr.tag = kRendezvousReply -> OnRendezvousReply(e, wr)
                  [] OTHER -> OnData(e, wr)
        /\ UNCHANGED <<trans, send_queue, addr_cache, raced, memory, pulled>>

(* RecvPushRequest and RecvPullResponse: the vals of a message are where   *)
(* its receive put them; the other messages have none.                     *)
RecvVals(b) ==
    LET x == addr_pool[b[1]][b[2] + 1]
    IN  CASE x.meta.kind = "push" /\ x.meta.request -> x.data
          [] x.meta.kind = "pull" /\ ~x.meta.request -> pulled[<<x.meta.key, x.buffer>>]
          [] OTHER -> Null

=============================================================================
