---------------------------- MODULE AFTensorServer ----------------------------
(***************************************************************************)
(* The batching layer of include/ps/af_tensor_app.h.  A push-pull call of  *)
(* AFTensorWorker becomes one message per tensor (ZBatchPushPull_); the    *)
(* server's receiving thread puts the messages of a batch together again   *)
(* (AFTensorServer::KVHandler) and calls the request handle with the       *)
(* result.  A message says only who sent it, its timestamp, whether it     *)
(* pushes, and whether it starts or ends a batch.                          *)
(*                                                                         *)
(* One server is modelled.  The van between is RDMAVan, as far as it       *)
(* decides the order: a message whose key and direction it knows is posted *)
(* at once, another one waits for the reply to its rendezvous while later  *)
(* ones pass it.  A tensor is represented by its timestamp.                *)
(***************************************************************************)
EXTENDS Integers, Sequences

CONSTANTS Senders,      \* the workers: ids as KVServer::Process computes them
          Keys,         \* keys of tensors
          Shapes,       \* calls: <<push_tensors.size(), pull_tensors.size(),
                        \* the keys of the messages to this server>>
          Settled,      \* the program keeps to SettledCall
          NumServers,   \* server_count
          MaxTimestamp, \* bound: timestamps any worker allocates
          MaxAllocated, \* bound: timestamps each worker allocates
          NoMeta        \* nullptr

ASSUME ServerAssumption ==
    /\ NumServers \in Nat \ {0}
    /\ Shapes \subseteq {s \in Nat \X Nat \X Seq(Keys) :
                            /\ s[1] + s[2] \div NumServers >= 1
                            /\ Len(s[3]) = s[1] + s[2] \div NumServers}
    /\ Settled \in BOOLEAN
    /\ MaxTimestamp \in Nat
    /\ MaxAllocated \in [Senders -> 0 .. MaxTimestamp]

Single == 0             \* meta.head of a message that is a batch by itself
Start  == 1             \* AF_FLAG_BATCH_START
Middle == 2             \* AF_FLAG_BATCH_MIDDLE
End    == 3             \* AF_FLAG_BATCH_END

Timestamps == 0 .. MaxTimestamp

(***************************************************************************)
(* A batch: its sender, its first timestamp (the handle push_pull returns),*)
(* the numbers of tensors to push and to pull, and the keys of its         *)
(* messages.  Every push goes to all servers, the tensors to pull are      *)
(* divided among them.                                                     *)
(***************************************************************************)
NewBatch(s, first, shape) ==
    [sender |-> s, first |-> first, push |-> shape[1], tensors |-> shape[2],
     keys |-> shape[3]]

Batch == {NewBatch(s, first, shape) :
             s \in Senders, first \in Timestamps, shape \in Shapes}

Pulls(b) == b.tensors \div NumServers
Last(b)  == b.first + b.push + Pulls(b) - 1

(* Mutant of Cmd: the last pull is compared with pull_batch_size instead   *)
(* of pull_batch_size - 1.                                                 *)
EndOffByOne(b, ts) ==
    IF b.push + b.tensors = 1 THEN Single
    ELSE IF ts = b.first THEN Start
    ELSE IF ts = Last(b) + 1 \/ (ts = Last(b) /\ b.tensors = 0) THEN End
    ELSE Middle

(***************************************************************************)
(* ZBatchPushPull_: the flag of the message with timestamp ts.             *)
(***************************************************************************)
Cmd(b, ts) ==
    IF b.push + b.tensors = 1 THEN Single
    ELSE IF ts = b.first THEN Start
    ELSE IF ts = Last(b) /\ (Pulls(b) > 0 \/ b.tensors = 0) THEN End
    ELSE Middle

(***************************************************************************)
(* A message.  Its field batch is not transmitted and no action of the     *)
(* server looks at it: it says which batch the message belongs to.         *)
(***************************************************************************)
Message(b, ts) ==
    [sender |-> b.sender, ts |-> ts, cmd |-> Cmd(b, ts),
     op |-> IF ts < b.first + b.push THEN "push" ELSE "pull",
     key |-> b.keys[ts - b.first + 1], batch |-> b]

Messages(b) == {Message(b, ts) : ts \in b.first .. Last(b)}

(***************************************************************************)
(* AFTensorMeta, and AFTensorMeta::Add.                                    *)
(***************************************************************************)
NewMeta(s, single) ==
    [sender |-> s, single |-> single, last_timestamp |-> 0,
     push_metas |-> << >>, pull_metas |-> << >>]

Add(meta, m) ==
    [sender |-> meta.sender, single |-> meta.single, last_timestamp |-> m.ts,
     push_metas |-> IF m.op = "push" THEN Append(meta.push_metas, m.ts)
                                     ELSE meta.push_metas,
     pull_metas |-> IF m.op = "push" THEN meta.pull_metas
                                     ELSE Append(meta.pull_metas, m.ts)]

VARIABLES next_ts,      \* next_ts[s]: tracker_.size() of worker s
          wire,         \* messages the server has not received
          sent,         \* sent[s]: the next timestamp PushPullWorker sends
          known,        \* known[s]: push_addr_ and pull_addr_ of worker s
          posted,       \* posted[s]: messages written, in order
          batch_data,   \* batch_data_: the batch each worker started last
          reorder_buffer,  \* reorder_buffer_: unfinished earlier batches
          responses,    \* responses[s][ts]: answers KVHandler sent
          handled       \* the argument of the last call of request_handle_

vanVars == <<sent, known, posted>>
serverVars == <<batch_data, reorder_buffer, responses, handled>>
vars == <<next_ts, wire, vanVars, serverVars>>

Init ==
    /\ next_ts = [s \in Senders |-> 0]
    /\ wire = {}
    /\ sent = [s \in Senders |-> 0]
    /\ known = [s \in Senders |-> {}]
    /\ posted = [s \in Senders |-> << >>]
    /\ batch_data = [s \in Senders |-> NoMeta]
    /\ reorder_buffer = << >>
    /\ responses = [s \in Senders |-> [ts \in Timestamps |-> 0]]
    /\ handled = NoMeta

-----------------------------------------------------------------------------
(* push_addr_ or pull_addr_, and the key.                                  *)
Slot(m) == <<m.op, m.key>>

IsPosted(m) == \E i \in 1 .. Len(posted[m.sender]) : posted[m.sender][i] = m

(* Messages of s whose rendezvous has begun, or will when they are sent.   *)
Unposted(s) == {m \in wire : m.sender = s /\ ~IsPosted(m)}

(***************************************************************************)
(* The program's side of the order within a batch: either the van knows    *)
(* all of the call's keys, or all are different and not in use.            *)
(***************************************************************************)
SettledCall(b) ==
    \/ \A m \in Messages(b) : Slot(m) \in known[b.sender]
    \/ \A m \in Messages(b) :
          /\ Slot(m) \notin known[b.sender]
          /\ \A x \in Unposted(b.sender) \union Messages(b) :
                Slot(x) = Slot(m) => x = m

(***************************************************************************)
(* A worker's ZBatchPushPull: consecutive timestamps, and a message for    *)
(* each, in the queue of its PushPullWorker thread.                        *)
(***************************************************************************)
ZBatchPushPull(s, shape) ==
    LET b == NewBatch(s, next_ts[s], shape)
    IN  /\ Last(b) < MaxAllocated[s]
        /\ Settled => SettledCall(b)
        /\ next_ts' = [next_ts EXCEPT ![s] = Last(b) + 1]
        /\ wire' = wire \union Messages(b)
        /\ UNCHANGED <<vanVars, serverVars>>

Post(m) == posted' = [posted EXCEPT ![m.sender] = Append(@, m)]

(***************************************************************************)
(* SendMsg, called by PushPullWorker for one message after another.        *)
(***************************************************************************)
SendMsg(m) ==
    /\ m.ts = sent[m.sender]
    /\ sent' = [sent EXCEPT ![m.sender] = @ + 1]
    /\ IF Slot(m) \in known[m.sender] THEN Post(m) ELSE UNCHANGED posted
    /\ UNCHANGED <<next_ts, wire, known, serverVars>>

Waiting(s) == {m \in Unposted(s) : m.ts < sent[s]}

(***************************************************************************)
(* PollCQ gets the reply to the oldest rendezvous of its endpoint.         *)
(***************************************************************************)
RendezvousReply(m) ==
    /\ m \in Waiting(m.sender)
    /\ \A x \in Waiting(m.sender) : m.ts <= x.ts
    /\ known' = [known EXCEPT ![m.sender] = @ \union {Slot(m)}]
    /\ Post(m)
    /\ UNCHANGED <<next_ts, wire, sent, serverVars>>

(***************************************************************************)
(* KVHandler answers the push messages of a batch as they come.            *)
(***************************************************************************)
Respond(m) ==
    responses' = [responses EXCEPT
                     ![m.sender][m.ts] = IF m.op = "push" THEN @ + 1 ELSE @]

HandleSingle(m) ==
    /\ m.cmd = Single
    /\ handled' = Add(NewMeta(m.sender, TRUE), m)
    /\ UNCHANGED <<batch_data, reorder_buffer, responses>>

(* Mutant of HandleStart: the unfinished batch is forgotten.               *)
StartOverwrites(m) ==
    /\ m.cmd = Start
    /\ Respond(m)
    /\ batch_data' = [batch_data EXCEPT
                         ![m.sender] = Add(NewMeta(m.sender, FALSE), m)]
    /\ UNCHANGED <<reorder_buffer, handled>>

HandleStart(m) ==
    /\ m.cmd = Start
    /\ Respond(m)
    /\ reorder_buffer' = IF batch_data[m.sender] = NoMeta THEN reorder_buffer
                         ELSE Append(reorder_buffer, batch_data[m.sender])
    /\ batch_data' = [batch_data EXCEPT
                         ![m.sender] = Add(NewMeta(m.sender, FALSE), m)]
    /\ UNCHANGED handled

(***************************************************************************)
(* The batches in the reorder buffer that m may continue: it is the next   *)
(* message of a batch of the same sender.                                  *)
(***************************************************************************)
Continues(m) ==
    {i \in 1 .. Len(reorder_buffer) :
        /\ reorder_buffer[i].sender = m.sender
        /\ m.ts = reorder_buffer[i].last_timestamp + 1}

First(S) == CHOOSE i \in S : \A j \in S : i <= j

RemoveAt(q, k) ==
    [i \in 1 .. Len(q) - 1 |-> IF i < k THEN q[i] ELSE q[i + 1]]

(***************************************************************************)
(* A message that does not start a batch continues the first match in the  *)
(* reorder buffer, or else the batch its sender started last.              *)
(***************************************************************************)
HandleReordered(m) ==
    LET k    == First(Continues(m))
        meta == Add(reorder_buffer[k], m)
    IN  /\ m.cmd \in {Middle, End}
        /\ Continues(m) # {}
        /\ Respond(m)
        /\ IF m.cmd = End
           THEN /\ handled' = meta
                /\ reorder_buffer' = RemoveAt(reorder_buffer, k)
           ELSE /\ reorder_buffer' = [reorder_buffer EXCEPT ![k] = meta]
                /\ UNCHANGED handled
        /\ UNCHANGED batch_data

HandleLatest(m) ==
    LET meta == Add(batch_data[m.sender], m)
    IN  /\ m.cmd \in {Middle, End}
        /\ Continues(m) = {}
        /\ batch_data[m.sender] # NoMeta     \* else a null dereference
        /\ Respond(m)
        /\ IF m.cmd = End
           THEN /\ handled' = meta
                /\ batch_data' = [batch_data EXCEPT ![m.sender] = NoMeta]
           ELSE /\ batch_data' = [batch_data EXCEPT ![m.sender] = meta]
                /\ UNCHANGED handled
        /\ UNCHANGED reorder_buffer

(* The van delivers what was posted in the order of the posts.             *)
KVHandler(m) ==
    /\ posted[m.sender] # << >>
    /\ m = Head(posted[m.sender])
    /\ posted' = [posted EXCEPT ![m.sender] = Tail(@)]
    /\ wire' = wire \ {m}
    /\ HandleSingle(m) \/ HandleStart(m) \/ HandleReordered(m) \/ HandleLatest(m)
    /\ UNCHANGED <<next_ts, sent, known>>

Progress == \E m \in wire : SendMsg(m) \/ RendezvousReply(m) \/ KVHandler(m)

Next ==
    \/ \E s \in Senders, shape \in Shapes : ZBatchPushPull(s, shape)
    \/ Progress

(***************************************************************************)
(* The sending, the polling and the receiving threads run on.              *)
(***************************************************************************)
Fairness == WF_vars(Progress)

Spec == Init /\ [][Next]_vars /\ Fairness

-----------------------------------------------------------------------------
Meta ==
    [sender : Senders, single : BOOLEAN, last_timestamp : Timestamps,
     push_metas : Seq(Timestamps), pull_metas : Seq(Timestamps)]

ASSUME NullAssumption == NoMeta \notin Meta

ServerTypeOK ==
    /\ next_ts \in [Senders -> Timestamps]
    /\ \A m \in wire : m.batch \in Batch /\ m \in Messages(m.batch)
    /\ batch_data \in [Senders -> Meta \union {NoMeta}]
    /\ reorder_buffer \in Seq(Meta)
    /\ responses \in [Senders -> [Timestamps -> Nat]]
    /\ handled \in Meta \union {NoMeta}

VanTypeOK ==
    /\ sent \in [Senders -> Timestamps]
    /\ known \in [Senders -> SUBSET ({"push", "pull"} \X Keys)]
    /\ posted \in [Senders -> Seq(wire)]

(* batch_data_ and reorder_buffer_ of KVHandler, and what is on the way.   *)
TypeOK == ServerTypeOK /\ VanTypeOK

(***************************************************************************)
(* KVHandler never adds a message to a null AFTensorMeta: whatever order   *)
(* the batches come in, the batch of a message that arrives is found.      *)
(***************************************************************************)
NoNullMeta ==
    \A s \in Senders : posted[s] # << >> =>
        LET m == Head(posted[s])
        IN  m.cmd \in {Middle, End} =>
                Continues(m) # {} \/ batch_data[s] # NoMeta

Awaited(meta) ==
    \E m \in wire : m.sender = meta.sender /\ m.ts = meta.last_timestamp + 1

(***************************************************************************)
(* No AFTensorMeta is left behind: each one kept in batch_data_ or in      *)
(* reorder_buffer_ waits for a message that is on its way.                 *)
(***************************************************************************)
NoMetaLeak ==
    /\ \A s \in Senders : batch_data[s] # NoMeta => Awaited(batch_data[s])
    /\ \A i \in 1 .. Len(reorder_buffer) : Awaited(reorder_buffer[i])

(***************************************************************************)
(* The request handle is called with exactly the batches that were sent,   *)
(* each of them once, whole and unmixed.                                   *)
(***************************************************************************)
Run(first, n) == [i \in 1 .. n |-> first + i - 1]

MetaOf(b) ==
    [sender |-> b.sender, single |-> IF b.push + b.tensors = 1 THEN TRUE ELSE FALSE,
     last_timestamp |-> Last(b), push_metas |-> Run(b.first, b.push),
     pull_metas |-> Run(b.first + b.push, Pulls(b))]

Pending == {m.batch : m \in wire}

Abstract == INSTANCE BatchSpec WITH pending <- Pending, handled <- handled
DeliversBatches == Abstract!Spec

(***************************************************************************)
(* A batch that was sent reaches the request handle.                       *)
(***************************************************************************)
EveryBatchHandled ==
    \A b \in {c \in Batch : Last(c) < MaxAllocated[c.sender]} :
        b \in Pending ~> handled = MetaOf(b)

=============================================================================
