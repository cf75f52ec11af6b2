------------------------- MODULE AFTensorServerProofs -------------------------
(***************************************************************************)
(* For any number of workers, batch shapes and timestamps: KVHandler finds *)
(* the batch of every message, and the request handle gets exactly the     *)
(* batches that were sent, provided ZBatchPushPull_ flags an end for every *)
(* shape in use and the program's calls are settled.                       *)
(***************************************************************************)
EXTENDS AFTensorServer, TLAPS

(***************************************************************************)
(* The shapes for which ZBatchPushPull_ ends what it starts: one tensor in *)
(* all, or at least two messages of which the last one pulls unless there  *)
(* is nothing to pull.                                                     *)
(***************************************************************************)
BatchesEnd ==
    \A s \in Shapes :
        \/ s[1] + s[2] = 1
        \/ /\ s[1] + s[2] # 1
           /\ s[1] + s[2] \div NumServers >= 2
           /\ s[2] = 0 \/ s[2] \div NumServers >= 1

(***************************************************************************)
(* The meta of a batch whose messages up to timestamp k have arrived.      *)
(***************************************************************************)
PushCount(b, k) == IF k - b.first + 1 <= b.push THEN k - b.first + 1 ELSE b.push

Partial(b, k, n, p) ==
    [sender |-> b.sender, single |-> FALSE, last_timestamp |-> k,
     push_metas |-> Run(b.first, n), pull_metas |-> Run(b.first + b.push, p)]

PrefixMeta(b, k) ==
    Partial(b, k, PushCount(b, k), k - b.first + 1 - PushCount(b, k))

(***************************************************************************)
(* meta is what has arrived of b, and b is not complete.                   *)
(***************************************************************************)
Holds(meta, b) ==
    /\ meta.last_timestamp \in b.first .. (Last(b) - 1)
    /\ meta = PrefixMeta(b, meta.last_timestamp)
    /\ \A ts \in b.first .. Last(b) :
          Message(b, ts) \in wire <=> ts > meta.last_timestamp

(***************************************************************************)
(* The inductive invariant.  The batches on their way occupy disjoint      *)
(* intervals of timestamps, and the messages still on their way are the    *)
(* end of each; every AFTensorMeta the server keeps holds what has arrived *)
(* of one of them, no two of the same one, and every started batch has     *)
(* one.                                                                    *)
(***************************************************************************)
WireOK ==
    \A m \in wire :
        /\ m.batch \in Batch
        /\ m.ts \in m.batch.first .. Last(m.batch)
        /\ m = Message(m.batch, m.ts)
        /\ Last(m.batch) < next_ts[m.sender]
        /\ \A ts \in m.ts .. Last(m.batch) : Message(m.batch, ts) \in wire

Disjoint ==
    \A b, c \in Pending : b.sender = c.sender /\ b # c =>
        Last(b) < c.first \/ Last(c) < b.first

MetasOK ==
    /\ \A s \in Senders : batch_data[s] # NoMeta =>
          \E b \in Pending : b.sender = s /\ Holds(batch_data[s], b)
    /\ \A i \in 1 .. Len(reorder_buffer) :
          \E b \in Pending : Holds(reorder_buffer[i], b)

Unique ==
    /\ \A i, j \in 1 .. Len(reorder_buffer) :
          /\ reorder_buffer[i].sender = reorder_buffer[j].sender
          /\ reorder_buffer[i].last_timestamp = reorder_buffer[j].last_timestamp
          => i = j
    /\ \A i \in 1 .. Len(reorder_buffer), s \in Senders :
          /\ batch_data[s] # NoMeta
          /\ reorder_buffer[i].sender = s
          => reorder_buffer[i].last_timestamp # batch_data[s].last_timestamp

Kept(b) ==
    \/ batch_data[b.sender] # NoMeta /\ Holds(batch_data[b.sender], b)
    \/ \E i \in 1 .. Len(reorder_buffer) : Holds(reorder_buffer[i], b)

StartedKept ==
    \A b \in Pending : Message(b, b.first) \notin wire => Kept(b)

(* No earlier message of the batch is on its way.                          *)
InOrder(m) == \A x \in wire : x.batch = m.batch => m.ts <= x.ts

Inv == ServerTypeOK /\ WireOK /\ Disjoint /\ MetasOK /\ Unique /\ StartedKept

-----------------------------------------------------------------------------
(***************************************************************************)
(* The arithmetic of a batch.                                              *)
(***************************************************************************)
LEMMA DivFacts ==
    ASSUME NEW x \in Nat
    PROVE  x \div NumServers \in Nat /\ x \div NumServers <= x
  BY ServerAssumption

(***************************************************************************)
(* A batch has at least one message, and more than one unless it is a batch *)
(* by itself.                                                               *)
(***************************************************************************)
LEMMA BatchFacts ==
    ASSUME BatchesEnd, NEW b \in Batch
    PROVE  /\ b.sender \in Senders
           /\ b.first \in Timestamps
           /\ b.first \in Nat
           /\ b.push \in Nat
           /\ b.tensors \in Nat
           /\ Pulls(b) \in Nat
           /\ Last(b) \in Nat
           /\ b.first <= Last(b)
           /\ b.push + b.tensors = 1 => Last(b) = b.first
           /\ b.push + b.tensors # 1 =>
                 b.first < Last(b) /\ (Pulls(b) > 0 \/ b.tensors = 0)
  <1>1. PICK s \in Senders, first \in Timestamps, shape \in Shapes :
           b = NewBatch(s, first, shape)
    BY DEF Batch
  <1>2. /\ b.sender = s
        /\ b.first = first
        /\ b.push = shape[1]
        /\ b.tensors = shape[2]
    BY <1>1 DEF NewBatch
  <1>3. /\ shape[1] \in Nat
        /\ shape[2] \in Nat
        /\ shape[1] + shape[2] \div NumServers >= 1
    BY ServerAssumption
  <1> DEFINE q == shape[2] \div NumServers
  <1>4. q \in Nat /\ q <= shape[2] /\ Pulls(b) = q
    BY <1>2, <1>3, DivFacts DEF Pulls
  <1>5. first \in Nat
    BY ServerAssumption DEF Timestamps
  <1>6. \/ shape[1] + shape[2] = 1
        \/ /\ shape[1] + shape[2] # 1
           /\ shape[1] + q >= 2
           /\ shape[2] = 0 \/ q >= 1
    BY DEF BatchesEnd
  <1>7. shape[1] + q >= 1
    BY <1>3
  <1> HIDE DEF q
  <1>8. Last(b) = first + shape[1] + q - 1
    BY <1>2, <1>4 DEF Last
  <1> QED BY <1>2, <1>3, <1>4, <1>5, <1>6, <1>7, <1>8

(***************************************************************************)
(* ZBatchPushPull_ flags the first message of a batch as its start and the *)
(* last as its end.                                                        *)
(***************************************************************************)
LEMMA MessageFacts ==
    ASSUME BatchesEnd, NEW b \in Batch, NEW ts \in b.first .. Last(b)
    PROVE  /\ Message(b, ts).sender = b.sender
           /\ Message(b, ts).ts = ts
           /\ Message(b, ts).batch = b
           /\ ts < b.first + b.push => Message(b, ts).op = "push"
           /\ ~(ts < b.first + b.push) => Message(b, ts).op = "pull"
           /\ Message(b, ts).cmd = Cmd(b, ts)
           /\ Cmd(b, ts) \in {Single, Start, Middle, End}
           /\ Cmd(b, ts) = Single <=> b.push + b.tensors = 1
           /\ Cmd(b, ts) = Start  <=> b.push + b.tensors # 1 /\ ts = b.first
           /\ Cmd(b, ts) = End    <=> b.push + b.tensors # 1 /\ ts = Last(b)
  <1>1. /\ Message(b, ts).sender = b.sender
        /\ Message(b, ts).ts = ts
        /\ Message(b, ts).batch = b
        /\ ts < b.first + b.push => Message(b, ts).op = "push"
        /\ ~(ts < b.first + b.push) => Message(b, ts).op = "pull"
        /\ Message(b, ts).cmd = Cmd(b, ts)
    BY DEF Message
  <1>2. /\ Cmd(b, ts) \in {Single, Start, Middle, End}
        /\ Cmd(b, ts) = Single <=> b.push + b.tensors = 1
        /\ Cmd(b, ts) = Start  <=> b.push + b.tensors # 1 /\ ts = b.first
        /\ Cmd(b, ts) = End    <=> b.push + b.tensors # 1 /\ ts = Last(b)
    BY BatchFacts DEF Cmd, Single, Start, Middle, End
  <1> QED BY <1>1, <1>2

(***************************************************************************)
(* AFTensorMeta::Add appends the next message to what has arrived.         *)
(***************************************************************************)
LEMMA RunAppend ==
    ASSUME NEW first \in Int, NEW n \in Nat, NEW ts, ts = first + n
    PROVE  Append(Run(first, n), ts) = Run(first, n + 1)
  <1>1. /\ Run(first, n) \in Seq(Int)
        /\ Len(Run(first, n)) = n
        /\ DOMAIN Run(first, n) = 1 .. n
    BY DEF Run
  <1> QED BY <1>1 DEF Run

(***************************************************************************)
(* Adding a pushed tensor extends the pushes of a partial batch by one.     *)
(***************************************************************************)
LEMMA AddPush ==
    ASSUME NEW b, NEW k, NEW n, NEW p, NEW m, m.op = "push",
           Append(Run(b.first, n), m.ts) = Run(b.first, n + 1)
    PROVE  Add(Partial(b, k, n, p), m) = Partial(b, m.ts, n + 1, p)
  BY Zenon DEF Add, Partial

(***************************************************************************)
(* Adding a tensor to pull extends the pulls of a partial batch by one.     *)
(***************************************************************************)
LEMMA AddPull ==
    ASSUME NEW b, NEW k, NEW n, NEW p, NEW m, m.op = "pull",
           Append(Run(b.first + b.push, p), m.ts) = Run(b.first + b.push, p + 1)
    PROVE  Add(Partial(b, k, n, p), m) = Partial(b, m.ts, n, p + 1)
  BY Zenon DEF Add, Partial

(***************************************************************************)
(* The pushes of a batch come before its pulls.                             *)
(***************************************************************************)
LEMMA PrefixIsPartial ==
    ASSUME NEW b, NEW k \in Int, b.first \in Int, NEW n \in Int, NEW p \in Int,
           PushCount(b, k) = n, k - b.first + 1 = n + p
    PROVE  PrefixMeta(b, k) = Partial(b, k, n, p)
  <1>1. k - b.first + 1 - n = p
    OBVIOUS
  <1> QED BY <1>1 DEF PrefixMeta

(***************************************************************************)
(* AFTensorMeta::Add takes the meta of the first k messages to that of the  *)
(* first k + 1.                                                             *)
(***************************************************************************)
LEMMA AddPrefix ==
    ASSUME BatchesEnd, NEW b \in Batch, NEW k \in b.first .. (Last(b) - 1)
    PROVE  Add(PrefixMeta(b, k), Message(b, k + 1)) = PrefixMeta(b, k + 1)
  <1> DEFINE n == PushCount(b, k)
             p == k - b.first + 1 - n
             m == Message(b, k + 1)
  <1>1. /\ b.first \in Nat /\ b.push \in Nat /\ k \in Nat
        /\ k + 1 \in b.first .. Last(b)
    BY BatchFacts
  <1>2. /\ m.ts = k + 1
        /\ k + 1 < b.first + b.push => m.op = "push"
        /\ ~(k + 1 < b.first + b.push) => m.op = "pull"
    BY <1>1, MessageFacts
  <1>3. n \in Nat /\ p \in Nat /\ b.first \in Int /\ b.first + b.push \in Int
    BY <1>1 DEF PushCount
  <1>4. PrefixMeta(b, k) = Partial(b, k, n, p)
    BY DEF PrefixMeta
  <1>5. CASE k + 1 < b.first + b.push
    <2>1. /\ PushCount(b, k + 1) = n + 1
          /\ k + 1 - b.first + 1 = (n + 1) + p
          /\ k + 1 = b.first + n
      BY <1>1, <1>5 DEF PushCount
    <2> HIDE DEF n, p, m
    <2>2. Append(Run(b.first, n), m.ts) = Run(b.first, n + 1)
      BY <1>2, <1>3, <2>1, RunAppend, Zenon
    <2>3. PrefixMeta(b, k + 1) = Partial(b, m.ts, n + 1, p)
      BY <1>1, <1>2, <1>3, <2>1, PrefixIsPartial
    <2>4. Add(PrefixMeta(b, k), m) = PrefixMeta(b, k + 1)
      BY <1>2, <1>4, <1>5, <2>2, <2>3, AddPush
    <2> QED BY <2>4 DEF m
  <1>6. CASE ~(k + 1 < b.first + b.push)
    <2>1. /\ PushCount(b, k + 1) = n
          /\ k + 1 - b.first + 1 = n + (p + 1)
          /\ k + 1 = b.first + b.push + p
      <3>1. n = b.push /\ PushCount(b, k + 1) = b.push
        BY <1>1, <1>6 DEF PushCount
      <3> QED BY <1>1, <3>1
    <2> HIDE DEF n, p, m
    <2>2. Append(Run(b.first + b.push, p), m.ts) = Run(b.first + b.push, p + 1)
      BY <1>2, <1>3, <2>1, RunAppend, Zenon
    <2>3. PrefixMeta(b, k + 1) = Partial(b, m.ts, n, p + 1)
      BY <1>1, <1>2, <1>3, <2>1, PrefixIsPartial
    <2>4. Add(PrefixMeta(b, k), m) = PrefixMeta(b, k + 1)
      BY <1>2, <1>4, <1>6, <2>2, <2>3, AddPull
    <2> QED BY <2>4 DEF m
  <1> QED BY <1>5, <1>6

(***************************************************************************)
(* The first message of a batch added to a fresh AFTensorMeta; for a batch  *)
(* of one message that is the whole batch.                                  *)
(***************************************************************************)
LEMMA AddFirst ==
    ASSUME BatchesEnd, NEW b \in Batch
    PROVE  /\ Add(NewMeta(b.sender, FALSE), Message(b, b.first))
                 = PrefixMeta(b, b.first)
           /\ b.push + b.tensors = 1 =>
                 Add(NewMeta(b.sender, TRUE), Message(b, b.first)) = MetaOf(b)
  <1> DEFINE m == Message(b, b.first)
  <1>1. /\ b.first \in Nat /\ b.push \in Nat /\ Pulls(b) \in Nat
        /\ b.first \in b.first .. Last(b)
        /\ b.push + b.tensors = 1 => Last(b) = b.first
    BY BatchFacts
  <1>2. /\ m.ts = b.first
        /\ b.first < b.first + b.push => m.op = "push"
        /\ ~(b.first < b.first + b.push) => m.op = "pull"
    BY <1>1, MessageFacts
  <1>3. /\ Run(b.first, 0) = << >>
        /\ Run(b.first + b.push, 0) = << >>
        /\ Append(<< >>, b.first) = Run(b.first, 1)
    BY <1>1 DEF Run
  <1>4. CASE b.push = 0
    <2>1. /\ PushCount(b, b.first) = 0
          /\ b.first - b.first + 1 - 0 = 1
          /\ m.op = "pull"
          /\ b.first + b.push = b.first
          /\ Last(b) = b.first => Pulls(b) = 1
      BY <1>1, <1>2, <1>4 DEF PushCount, Last
    <2> HIDE DEF m
    <2>2. ASSUME NEW single
          PROVE  Add(NewMeta(b.sender, single), m) =
                   [sender |-> b.sender, single |-> single,
                    last_timestamp |-> b.first, push_metas |-> Run(b.first, 0),
                    pull_metas |-> Run(b.first + b.push, 1)]
      BY <1>2, <1>3, <2>1 DEF NewMeta, Add
    <2>3. PrefixMeta(b, b.first) =
            [sender |-> b.sender, single |-> FALSE, last_timestamp |-> b.first,
             push_metas |-> Run(b.first, 0),
             pull_metas |-> Run(b.first + b.push, 1)]
      BY <1>1, <1>3, <2>1, Zenon DEF PrefixMeta, Partial
    <2>4. ASSUME b.push + b.tensors = 1
          PROVE  MetaOf(b) =
            [sender |-> b.sender, single |-> TRUE, last_timestamp |-> b.first,
             push_metas |-> Run(b.first, 0),
             pull_metas |-> Run(b.first + b.push, 1)]
      BY <1>1, <1>4, <2>1, <2>4, Zenon DEF MetaOf
    <2> QED BY <2>2, <2>3, <2>4, Zenon DEF m
  <1>5. CASE b.push # 0
    <2>1. /\ PushCount(b, b.first) = 1
          /\ b.first - b.first + 1 - 1 = 0
          /\ m.op = "push"
          /\ Last(b) = b.first => Pulls(b) = 0 /\ b.push = 1
      BY <1>1, <1>2, <1>5 DEF PushCount, Last
    <2> HIDE DEF m
    <2>2. ASSUME NEW single
          PROVE  Add(NewMeta(b.sender, single), m) =
                   [sender |-> b.sender, single |-> single,
                    last_timestamp |-> b.first, push_metas |-> Run(b.first, 1),
                    pull_metas |-> Run(b.first + b.push, 0)]
      BY <1>2, <1>3, <2>1 DEF NewMeta, Add
    <2>3. PrefixMeta(b, b.first) =
            [sender |-> b.sender, single |-> FALSE, last_timestamp |-> b.first,
             push_metas |-> Run(b.first, 1),
             pull_metas |-> Run(b.first + b.push, 0)]
      BY <1>1, <1>3, <2>1, Zenon DEF PrefixMeta, Partial
    <2>4. ASSUME b.push + b.tensors = 1
          PROVE  MetaOf(b) =
            [sender |-> b.sender, single |-> TRUE, last_timestamp |-> b.first,
             push_metas |-> Run(b.first, 1),
             pull_metas |-> Run(b.first + b.push, 0)]
      BY <1>1, <2>1, <2>4, Zenon DEF MetaOf
    <2> QED BY <2>2, <2>3, <2>4, Zenon DEF m
  <1> QED BY <1>4, <1>5, Zenon

(***************************************************************************)
(* What has arrived when the last message has arrived is the batch.         *)
(***************************************************************************)
LEMMA PrefixIsBatch ==
    ASSUME BatchesEnd, NEW b \in Batch, b.push + b.tensors # 1
    PROVE  PrefixMeta(b, Last(b)) = MetaOf(b)
  <1>1. /\ PushCount(b, Last(b)) = b.push
        /\ Last(b) - b.first + 1 - b.push = Pulls(b)
    BY BatchFacts DEF PushCount, Last
  <1> QED BY <1>1, Zenon DEF PrefixMeta, Partial, MetaOf

(***************************************************************************)
(* AFTensorMeta::Add yields an AFTensorMeta.                                *)
(***************************************************************************)
LEMMA AddType ==
    ASSUME NEW meta \in Meta, NEW m, m.ts \in Timestamps
    PROVE  Add(meta, m) \in Meta
  <1>1. /\ meta.sender \in Senders /\ meta.single \in BOOLEAN
        /\ meta.push_metas \in Seq(Timestamps)
        /\ meta.pull_metas \in Seq(Timestamps)
    BY DEF Meta
  <1>2. /\ Append(meta.push_metas, m.ts) \in Seq(Timestamps)
        /\ Append(meta.pull_metas, m.ts) \in Seq(Timestamps)
    BY <1>1
  <1> QED BY <1>1, <1>2 DEF Add, Meta

(***************************************************************************)
(* A fresh AFTensorMeta is one.                                             *)
(***************************************************************************)
LEMMA NewMetaType ==
    ASSUME NEW s \in Senders, NEW single \in BOOLEAN
    PROVE  NewMeta(s, single) \in Meta
  <1>1. << >> \in Seq(Timestamps) /\ 0 \in Timestamps
    BY ServerAssumption DEF Timestamps
  <1> QED BY <1>1 DEF NewMeta, Meta

-----------------------------------------------------------------------------
(***************************************************************************)
(* What is known of the next message of a batch: the messages on their way *)
(* are exactly it and the ones after it.                                   *)
(***************************************************************************)
LEMMA NextMessage ==
    ASSUME BatchesEnd, Inv, NEW m \in wire, InOrder(m)
    PROVE  /\ m.batch \in Batch
           /\ m.batch \in Pending
           /\ m.sender = m.batch.sender
           /\ m.sender \in Senders
           /\ m.ts \in m.batch.first .. Last(m.batch)
           /\ m.ts \in Timestamps
           /\ m = Message(m.batch, m.ts)
           /\ m.cmd = Cmd(m.batch, m.ts)
           /\ \A ts \in m.batch.first .. Last(m.batch) :
                 Message(m.batch, ts) \in wire <=> ts >= m.ts
  <1> DEFINE b == m.batch
  <1>1. /\ b \in Batch
        /\ m.ts \in b.first .. Last(b)
        /\ m = Message(b, m.ts)
        /\ Last(b) < next_ts[m.sender]
        /\ \A ts \in m.ts .. Last(b) : Message(b, ts) \in wire
    BY DEF Inv, WireOK
  <1>2. b \in Pending
    BY DEF Pending
  <1>3. /\ b.first \in Nat /\ Last(b) \in Nat /\ b.sender \in Senders
    BY <1>1, BatchFacts
  <1> HIDE DEF b
  <1>4. /\ Message(b, m.ts).sender = b.sender
        /\ Message(b, m.ts).cmd = Cmd(b, m.ts)
    BY <1>1, MessageFacts
  <1>5. m.sender = b.sender /\ m.cmd = Cmd(b, m.ts)
    BY <1>1, <1>4
  <1>6. m.ts \in Timestamps
    <2>1. next_ts[m.sender] \in Timestamps
      BY <1>3, <1>5 DEF Inv, ServerTypeOK
    <2> QED BY <1>1, <1>3, <2>1, ServerAssumption DEF Timestamps
  <1>7. ASSUME NEW ts \in b.first .. Last(b)
        PROVE  Message(b, ts) \in wire <=> ts >= m.ts
    <2>1. ts >= m.ts => Message(b, ts) \in wire
      BY <1>1, <1>3
    <2>2. ASSUME Message(b, ts) \in wire PROVE m.ts <= ts
      <3>1. Message(b, ts).batch = b /\ Message(b, ts).ts = ts
        BY <1>1, MessageFacts
      <3> QED BY <2>2, <3>1 DEF InOrder, b
    <2> QED BY <1>1, <1>3, <2>1, <2>2
  <1> QED BY <1>1, <1>2, <1>3, <1>5, <1>6, <1>7 DEF b

(***************************************************************************)
(* A meta that holds a batch is of the batch's sender, and the message it  *)
(* waits for is on its way.                                                *)
(***************************************************************************)
LEMMA HoldsFacts ==
    ASSUME BatchesEnd, Inv, NEW b \in Pending, NEW meta, Holds(meta, b)
    PROVE  /\ b \in Batch
           /\ meta.sender = b.sender
           /\ meta.sender \in Senders
           /\ meta.last_timestamp \in Nat
           /\ meta.last_timestamp + 1 \in b.first .. Last(b)
           /\ Message(b, meta.last_timestamp + 1) \in wire
           /\ Message(b, b.first) \notin wire
  <1>1. b \in Batch
    BY DEF Pending, Inv, WireOK
  <1>2. b.first \in Nat /\ Last(b) \in Nat /\ b.first <= Last(b)
    BY <1>1, BatchFacts
  <1>3. meta.last_timestamp \in b.first .. (Last(b) - 1)
    BY DEF Holds
  <1>4. /\ meta.last_timestamp \in Nat
        /\ meta.last_timestamp + 1 \in b.first .. Last(b)
        /\ b.first \in b.first .. Last(b)
        /\ ~(b.first > meta.last_timestamp)
        /\ meta.last_timestamp + 1 > meta.last_timestamp
    BY <1>2, <1>3
  <1>5. meta.sender = b.sender
    BY DEF Holds, PrefixMeta, Partial
  <1>6. b.sender \in Senders
    BY <1>1, BatchFacts
  <1> QED BY <1>1, <1>4, <1>5, <1>6 DEF Holds

(***************************************************************************)
(* Two metas of one sender end with the same timestamp exactly if they hold *)
(* the same batch.                                                          *)
(***************************************************************************)
LEMMA HoldsSame ==
    ASSUME BatchesEnd, Inv, NEW b \in Pending, NEW c \in Pending, NEW x, NEW y,
           Holds(x, b), Holds(y, c), x.sender = y.sender
    PROVE  x.last_timestamp = y.last_timestamp <=> b = c
  <1>1. /\ b \in Batch /\ c \in Batch
        /\ x.sender = b.sender /\ y.sender = c.sender
        /\ x.last_timestamp \in Nat /\ y.last_timestamp \in Nat
        /\ x.last_timestamp + 1 \in b.first .. Last(b)
        /\ y.last_timestamp + 1 \in c.first .. Last(c)
    BY HoldsFacts
  <1>2. /\ b.first \in Nat /\ Last(b) \in Nat
        /\ c.first \in Nat /\ Last(c) \in Nat
    BY <1>1, BatchFacts
  <1>3. ASSUME b # c PROVE x.last_timestamp # y.last_timestamp
    <2>1. Last(b) < c.first \/ Last(c) < b.first
      BY <1>1, <1>3, Zenon DEF Inv, Disjoint
    <2> QED BY <1>1, <1>2, <2>1
  <1>4. ASSUME b = c PROVE x.last_timestamp = y.last_timestamp
    <2>1. /\ Message(b, x.last_timestamp + 1) \in wire
          /\ Message(b, y.last_timestamp + 1) \in wire
      BY <1>4, HoldsFacts
    <2>2. /\ x.last_timestamp + 1 > y.last_timestamp
          /\ y.last_timestamp + 1 > x.last_timestamp
      BY <1>1, <1>4, <2>1 DEF Holds
    <2> QED BY <1>1, <2>2
  <1> QED BY <1>3, <1>4

(***************************************************************************)
(* Taking the next message of a batch off the wire leaves the other        *)
(* batches as they are; the batch itself is gone after its last message.   *)
(***************************************************************************)
LEMMA Delivered ==
    ASSUME BatchesEnd, Inv, NEW m \in wire, InOrder(m),
           wire' = wire \ {m}, next_ts' = next_ts
    PROVE  /\ WireOK'
           /\ Disjoint'
           /\ Pending' = IF m.ts = Last(m.batch) THEN Pending \ {m.batch}
                                                 ELSE Pending
  <1> DEFINE b == m.batch
  <1>1. /\ b \in Batch
        /\ b \in Pending
        /\ m.ts \in b.first .. Last(b)
        /\ m = Message(b, m.ts)
        /\ \A ts \in b.first .. Last(b) : Message(b, ts) \in wire <=> ts >= m.ts
    BY NextMessage
  <1>2. b.first \in Nat /\ Last(b) \in Nat
    BY <1>1, BatchFacts
  <1>3. WireOK'
    <2> SUFFICES ASSUME NEW x \in wire'
                 PROVE  /\ x.batch \in Batch
                        /\ x.ts \in x.batch.first .. Last(x.batch)
                        /\ x = Message(x.batch, x.ts)
                        /\ Last(x.batch) < next_ts'[x.sender]
                        /\ \A ts \in x.ts .. Last(x.batch) :
                              Message(x.batch, ts) \in wire'
      BY DEF WireOK
    <2>1. /\ x.batch \in Batch
          /\ x.ts \in x.batch.first .. Last(x.batch)
          /\ x = Message(x.batch, x.ts)
          /\ Last(x.batch) < next_ts'[x.sender]
          /\ \A ts \in x.ts .. Last(x.batch) : Message(x.batch, ts) \in wire
      BY DEF Inv, WireOK
    <2>2. ASSUME NEW ts \in x.ts .. Last(x.batch)
          PROVE  Message(x.batch, ts) # m
      <3>1. x.batch.first \in Nat /\ Last(x.batch) \in Nat
        BY <2>1, BatchFacts
      <3>2. ts \in x.batch.first .. Last(x.batch)
        BY <2>1, <3>1
      <3>3. Message(x.batch, ts).batch = x.batch /\ Message(x.batch, ts).ts = ts
        BY <2>1, <3>2, MessageFacts
      <3>4. ASSUME Message(x.batch, ts) = m PROVE FALSE
        <4>1. x.batch = b /\ ts = m.ts
          BY <3>3, <3>4
        <4>2. x.ts >= m.ts
          BY <1>1, <2>1, <4>1
        <4>3. x.ts = m.ts
          BY <1>1, <1>2, <2>1, <4>1, <4>2
        <4>4. x = m
          BY <1>1, <2>1, <4>1, <4>3
        <4> QED BY <4>4
      <3> QED BY <3>4
    <2> QED BY <2>1, <2>2
  <1>4. Pending' \subseteq Pending
    BY DEF Pending
  <1>5. Disjoint'
    BY <1>4 DEF Inv, Disjoint
  <1>6. \A c \in Pending : c # b => c \in Pending'
    <2> SUFFICES ASSUME NEW c \in Pending, c # b PROVE c \in Pending'
      OBVIOUS
    <2>1. PICK x \in wire : x.batch = c
      BY DEF Pending
    <2>2. x \in wire'
      BY <2>1
    <2> QED BY <2>1, <2>2 DEF Pending
  <1>7. CASE m.ts = Last(b)
    <2>1. ASSUME NEW x \in wire' PROVE x.batch # b
      <3>1. /\ x \in wire
            /\ x.ts \in x.batch.first .. Last(x.batch)
            /\ x = Message(x.batch, x.ts)
        BY DEF Inv, WireOK
      <3>2. ASSUME x.batch = b PROVE FALSE
        <4>1. x.ts >= m.ts
          BY <1>1, <3>1, <3>2
        <4>2. x.ts = m.ts
          BY <1>2, <1>7, <3>1, <3>2, <4>1
        <4> QED BY <1>1, <3>1, <3>2, <4>2
      <3> QED BY <3>2
    <2>2. b \notin Pending'
      BY <2>1 DEF Pending
    <2> QED BY <1>3, <1>4, <1>5, <1>6, <1>7, <2>2
  <1>8. CASE m.ts # Last(b)
    <2>1. m.ts + 1 \in b.first .. Last(b)
      BY <1>1, <1>2, <1>8
    <2>2. Message(b, m.ts + 1) \in wire
      BY <1>1, <1>2, <2>1
    <2>3. Message(b, m.ts + 1).batch = b /\ Message(b, m.ts + 1).ts = m.ts + 1
      BY <1>1, <2>1, MessageFacts
    <2>4. Message(b, m.ts + 1) # m
      BY <1>1, <1>2, <2>3
    <2>5. b \in Pending'
      BY <2>2, <2>3, <2>4 DEF Pending
    <2> QED BY <1>3, <1>4, <1>5, <1>6, <1>8, <2>5
  <1> QED BY <1>7, <1>8

(***************************************************************************)
(* Taking a message of one batch does not change who holds another.         *)
(***************************************************************************)
LEMMA OtherHolds ==
    ASSUME BatchesEnd, Inv, NEW m \in wire, InOrder(m), wire' = wire \ {m},
           NEW c \in Pending, c # m.batch, NEW meta
    PROVE  Holds(meta, c)' <=> Holds(meta, c)
  <1>1. c \in Batch
    BY DEF Pending, Inv, WireOK
  <1>2. ASSUME NEW ts \in c.first .. Last(c)
        PROVE  Message(c, ts) \in wire' <=> Message(c, ts) \in wire
    <2>1. Message(c, ts).batch = c
      BY <1>1, MessageFacts
    <2> QED BY <2>1
  <1> QED BY <1>2 DEF Holds

(***************************************************************************)
(* After the next message of a batch that is not its last, the meta         *)
(* extended by it holds the batch.                                          *)
(***************************************************************************)
LEMMA SelfHolds ==
    ASSUME BatchesEnd, Inv, NEW m \in wire, InOrder(m), wire' = wire \ {m},
           m.ts # Last(m.batch)
    PROVE  Holds(PrefixMeta(m.batch, m.ts), m.batch)'
  <1> DEFINE b == m.batch
             meta == PrefixMeta(b, m.ts)
  <1>1. /\ b \in Batch
        /\ m.ts \in b.first .. Last(b)
        /\ m = Message(b, m.ts)
        /\ \A ts \in b.first .. Last(b) : Message(b, ts) \in wire <=> ts >= m.ts
    BY NextMessage
  <1>2. b.first \in Nat /\ Last(b) \in Nat
    BY <1>1, BatchFacts
  <1>3. meta.last_timestamp = m.ts
    BY DEF PrefixMeta, Partial
  <1> HIDE DEF meta
  <1>4. m.ts \in b.first .. (Last(b) - 1)
    BY <1>1, <1>2
  <1>5. ASSUME NEW ts \in b.first .. Last(b)
        PROVE  Message(b, ts) \in wire' <=> ts > m.ts
    <2>1. Message(b, ts).ts = ts
      BY <1>1, MessageFacts
    <2>2. Message(b, ts) = m <=> ts = m.ts
      BY <1>1, <2>1
    <2> QED BY <1>1, <1>2, <2>2
  <1>6. Holds(meta, b)'
    BY <1>3, <1>4, <1>5 DEF Holds, meta
  <1> QED BY <1>6 DEF meta

-----------------------------------------------------------------------------
(***************************************************************************)
(* The invariant holds before anything is sent.                            *)
(***************************************************************************)
LEMMA InitInv == Init => Inv
  <1> SUFFICES ASSUME Init PROVE Inv
    OBVIOUS
  <1>1. wire = {} /\ Pending = {} /\ Len(reorder_buffer) = 0
    BY DEF Init, Pending
  <1>2. ServerTypeOK
    <2>1. 0 \in Timestamps /\ << >> \in Seq(Meta)
      BY ServerAssumption DEF Timestamps
    <2> QED BY <2>1 DEF Init, ServerTypeOK
  <1>3. MetasOK /\ Unique
    BY <1>1 DEF Init, MetasOK, Unique
  <1> QED BY <1>1, <1>2, <1>3 DEF Inv, WireOK, Disjoint, StartedKept

(***************************************************************************)
(* Sending a batch preserves the invariant.                                *)
(***************************************************************************)
LEMMA SendInv ==
    ASSUME BatchesEnd, Inv, NEW s \in Senders, NEW shape \in Shapes,
           ZBatchPushPull(s, shape)
    PROVE  /\ Inv'
           /\ \E b \in Batch : /\ b \notin Pending
                               /\ Pending' = Pending \union {b}
                               /\ handled' = handled
  <1> DEFINE b == NewBatch(s, next_ts[s], shape)
  <1>1. /\ Last(b) < MaxAllocated[s]
        /\ next_ts' = [next_ts EXCEPT ![s] = Last(b) + 1]
        /\ wire' = wire \union Messages(b)
        /\ UNCHANGED <<batch_data, reorder_buffer, responses, handled>>
    BY DEF ZBatchPushPull, serverVars
  <1>2. next_ts[s] \in Timestamps
    BY DEF Inv, ServerTypeOK
  <1>3. b \in Batch /\ b.sender = s /\ b.first = next_ts[s]
    BY <1>2 DEF Batch, NewBatch
  <1> HIDE DEF b
  <1>4. b.first \in Nat /\ Last(b) \in Nat /\ b.first <= Last(b)
    BY <1>3, BatchFacts
  <1>5. \A x \in Messages(b) :
           /\ x.batch = b
           /\ x.ts \in b.first .. Last(b)
           /\ x = Message(b, x.ts)
           /\ x.sender = s
    BY <1>3, MessageFacts DEF Messages
  <1>6. \A ts \in b.first .. Last(b) : Message(b, ts) \in wire'
    BY <1>1 DEF Messages
  <1>7. Last(b) + 1 \in Timestamps
    BY <1>1, <1>4, ServerAssumption DEF Timestamps
  <1>8. ASSUME NEW c \in Pending
        PROVE  /\ c \in Batch
               /\ c.sender = s => Last(c) < b.first
               /\ c # b
    <2>1. PICK x \in wire : x.batch = c
      BY DEF Pending
    <2>2. c \in Batch /\ Last(c) < next_ts[x.sender]
      BY <2>1 DEF Inv, WireOK
    <2>3. x = Message(c, x.ts) /\ x.ts \in c.first .. Last(c)
      BY <2>1 DEF Inv, WireOK
    <2>4. x.sender = c.sender
      BY <2>2, <2>3, MessageFacts
    <2>5. c.sender = s => Last(c) < b.first
      BY <1>3, <2>2, <2>4
    <2> QED BY <1>3, <1>4, <2>2, <2>5
  <1>9. Pending' = Pending \union {b}
    <2>1. Message(b, b.first) \in Messages(b) /\ Message(b, b.first).batch = b
      BY <1>3, <1>4, MessageFacts DEF Messages
    <2> QED BY <1>1, <1>5, <2>1 DEF Pending
  <1>10. ServerTypeOK'
    <2>1. next_ts' \in [Senders -> Timestamps]
      BY <1>1, <1>7 DEF Inv, ServerTypeOK
    <2>2. ASSUME NEW x \in wire' PROVE x.batch \in Batch /\ x \in Messages(x.batch)
      BY <1>1, <1>3, <1>5 DEF Inv, ServerTypeOK
    <2> QED BY <1>1, <2>1, <2>2 DEF Inv, ServerTypeOK
  <1>11. WireOK'
    <2> SUFFICES ASSUME NEW x \in wire'
                 PROVE  /\ x.batch \in Batch
                        /\ x.ts \in x.batch.first .. Last(x.batch)
                        /\ x = Message(x.batch, x.ts)
                        /\ Last(x.batch) < next_ts'[x.sender]
                        /\ \A ts \in x.ts .. Last(x.batch) :
                              Message(x.batch, ts) \in wire'
      BY DEF WireOK
    <2>1. CASE x \in wire
      <3>1. /\ x.batch \in Batch
            /\ x.ts \in x.batch.first .. Last(x.batch)
            /\ x = Message(x.batch, x.ts)
            /\ Last(x.batch) < next_ts[x.sender]
            /\ \A ts \in x.ts .. Last(x.batch) : Message(x.batch, ts) \in wire
        BY <2>1 DEF Inv, WireOK
      <3>2. x.sender \in Senders /\ Last(x.batch) \in Nat
        BY <3>1, BatchFacts, MessageFacts
      <3>3. next_ts[x.sender] <= next_ts'[x.sender]
        <4>1. CASE x.sender = s
          <5>1. next_ts'[s] = Last(b) + 1
            BY <1>1 DEF Inv, ServerTypeOK
          <5> QED BY <1>3, <1>4, <4>1, <5>1
        <4>2. CASE x.sender # s
          <5>1. next_ts'[x.sender] = next_ts[x.sender]
            BY <1>1, <3>2, <4>2 DEF Inv, ServerTypeOK
          <5>2. next_ts[x.sender] \in Int
            <6>1. next_ts[x.sender] \in Timestamps
              BY <3>2 DEF Inv, ServerTypeOK
            <6> QED BY <6>1, ServerAssumption DEF Timestamps
          <5> QED BY <5>1, <5>2
        <4> QED BY <4>1, <4>2
      <3>4. next_ts[x.sender] \in Int /\ next_ts'[x.sender] \in Int
        <4>1. next_ts \in [Senders -> Timestamps] /\ next_ts' \in [Senders -> Timestamps]
          BY <1>10 DEF Inv, ServerTypeOK
        <4>2. Timestamps \subseteq Int
          BY ServerAssumption DEF Timestamps
        <4> QED BY <3>2, <4>1, <4>2, Zenon
      <3>5. Last(x.batch) < next_ts'[x.sender]
        BY <3>1, <3>2, <3>3, <3>4
      <3> QED BY <1>1, <3>1, <3>5
    <2>2. CASE x \in Messages(b)
      <3>1. next_ts'[s] = Last(b) + 1
        BY <1>1 DEF Inv, ServerTypeOK
      <3>2. Last(b) < next_ts'[s]
        BY <1>4, <3>1
      <3>3. \A ts \in x.ts .. Last(b) : ts \in b.first .. Last(b)
        BY <1>4, <1>5, <2>2
      <3> QED BY <1>3, <1>5, <1>6, <2>2, <3>2, <3>3
    <2> QED BY <1>1, <2>1, <2>2
  <1>12. Disjoint'
    BY <1>3, <1>8, <1>9 DEF Inv, Disjoint
  <1>13. ASSUME NEW c \in Pending
         PROVE  \A ts \in c.first .. Last(c) :
                   Message(c, ts) \in wire' <=> Message(c, ts) \in wire
    <2> SUFFICES ASSUME NEW ts \in c.first .. Last(c)
                 PROVE  Message(c, ts) \notin Messages(b)
      BY <1>1
    <2>1. Message(c, ts).batch = c
      BY <1>8, MessageFacts
    <2> QED BY <1>5, <1>8, <2>1
  <1>14. ASSUME NEW c \in Pending, NEW meta
         PROVE  Holds(meta, c)' <=> Holds(meta, c)
    BY <1>13 DEF Holds
  <1>15. MetasOK'
    BY <1>1, <1>9, <1>14 DEF Inv, MetasOK
  <1>16. Unique'
    BY <1>1 DEF Inv, Unique
  <1>17. StartedKept'
    <2> SUFFICES ASSUME NEW c \in Pending', Message(c, c.first) \notin wire'
                 PROVE  Kept(c)'
      BY DEF StartedKept
    <2>1. c \in Pending
      BY <1>4, <1>6, <1>9
    <2>2. Message(c, c.first) \notin wire
      BY <1>1
    <2>3. Kept(c)
      BY <2>1, <2>2 DEF Inv, StartedKept
    <2> QED BY <1>1, <1>14, <2>1, <2>3 DEF Kept
  <1> QED BY <1>1, <1>3, <1>8, <1>9, <1>10, <1>11, <1>12, <1>15, <1>16, <1>17
          DEF Inv

-----------------------------------------------------------------------------
(***************************************************************************)
(* Among the metas of its sender, the next message m of a batch continues  *)
(* the one that holds the batch, and no other ends with m's timestamp.     *)
(***************************************************************************)
LEMMA HolderTime ==
    ASSUME BatchesEnd, Inv, NEW m \in wire, InOrder(m),
           NEW c \in Pending, NEW meta, Holds(meta, c), meta.sender = m.sender
    PROVE  /\ m.ts = meta.last_timestamp + 1 <=> c = m.batch
           /\ meta.last_timestamp # m.ts
  <1> DEFINE b == m.batch
  <1>1. /\ b \in Batch /\ b \in Pending
        /\ m.sender = b.sender
        /\ m.ts \in b.first .. Last(b)
        /\ \A ts \in b.first .. Last(b) : Message(b, ts) \in wire <=> ts >= m.ts
    BY NextMessage
  <1>2. /\ c \in Batch /\ c.sender = b.sender
        /\ meta.last_timestamp \in Nat
        /\ meta.last_timestamp + 1 \in c.first .. Last(c)
        /\ Message(c, meta.last_timestamp + 1) \in wire
    BY <1>1, HoldsFacts
  <1>3. /\ b.first \in Nat /\ Last(b) \in Nat
        /\ c.first \in Nat /\ Last(c) \in Nat
    BY <1>1, <1>2, BatchFacts
  <1>4. meta.last_timestamp \in c.first .. Last(c)
    BY <1>2, <1>3 DEF Holds
  <1>5. CASE c = b
    <2>1. meta.last_timestamp + 1 >= m.ts
      BY <1>1, <1>2, <1>5
    <2>2. m.ts > meta.last_timestamp
      <3>1. Message(b, m.ts) \in wire
        BY <1>1, <1>3
      <3> QED BY <1>1, <1>5, <3>1 DEF Holds
    <2>3. m.ts = meta.last_timestamp + 1
      BY <1>1, <1>2, <1>3, <2>1, <2>2
    <2> QED BY <1>2, <1>5, <2>3
  <1>6. CASE c # b
    <2>1. Last(b) < c.first \/ Last(c) < b.first
      BY <1>1, <1>2, <1>6 DEF Inv, Disjoint
    <2>2. m.ts # meta.last_timestamp + 1 /\ m.ts # meta.last_timestamp
      BY <1>1, <1>2, <1>3, <1>4, <2>1
    <2> QED BY <1>6, <2>2
  <1> QED BY <1>5, <1>6

(***************************************************************************)
(* Adding the next message to the meta that holds its batch gives what has *)
(* arrived then: the whole batch if it was the last message.               *)
(***************************************************************************)
LEMMA HolderAdd ==
    ASSUME BatchesEnd, Inv, NEW m \in wire, InOrder(m), NEW meta,
           Holds(meta, m.batch)
    PROVE  /\ Add(meta, m) = PrefixMeta(m.batch, m.ts)
           /\ m.ts = Last(m.batch) => Add(meta, m) = MetaOf(m.batch)
  <1> DEFINE b == m.batch
             k == meta.last_timestamp
  <1>1. /\ b \in Batch /\ b \in Pending
        /\ m.sender = b.sender
        /\ m = Message(b, m.ts)
    BY NextMessage
  <1>2. meta.sender = b.sender
    BY <1>1, HoldsFacts
  <1>3. m.ts = k + 1
    BY <1>1, <1>2, HolderTime
  <1>4. k \in b.first .. (Last(b) - 1) /\ meta = PrefixMeta(b, k)
    BY DEF Holds
  <1> HIDE DEF b, k
  <1>5. Add(PrefixMeta(b, k), Message(b, k + 1)) = PrefixMeta(b, k + 1)
    BY <1>1, <1>4, AddPrefix
  <1>6. Add(meta, m) = PrefixMeta(b, m.ts)
    BY <1>1, <1>3, <1>4, <1>5
  <1>7. b.push + b.tensors # 1
    BY <1>1, <1>4, BatchFacts
  <1>8. PrefixMeta(b, Last(b)) = MetaOf(b)
    BY <1>1, <1>7, PrefixIsBatch
  <1> QED BY <1>6, <1>8 DEF b

(***************************************************************************)
(* A message that does not start its batch finds it: in the reorder buffer *)
(* at the one place KVHandler's search accepts, or in batch_data_.         *)
(***************************************************************************)
LEMMA Holder ==
    ASSUME BatchesEnd, Inv, NEW m \in wire, InOrder(m), m.cmd \in {Middle, End}
    PROVE  /\ Continues(m) = {i \in 1 .. Len(reorder_buffer) :
                                 Holds(reorder_buffer[i], m.batch)}
           /\ Continues(m) = {} =>
                 /\ batch_data[m.sender] # NoMeta
                 /\ Holds(batch_data[m.sender], m.batch)
           /\ \A i \in Continues(m) :
                 /\ Continues(m) = {i}
                 /\ First(Continues(m)) = i
                 /\ batch_data[m.sender] # NoMeta =>
                       ~Holds(batch_data[m.sender], m.batch)
  <1> DEFINE b == m.batch
  <1>1. /\ b \in Batch /\ b \in Pending
        /\ m.sender = b.sender /\ m.sender \in Senders
        /\ m.ts \in b.first .. Last(b)
        /\ m.cmd = Cmd(b, m.ts)
        /\ \A ts \in b.first .. Last(b) : Message(b, ts) \in wire <=> ts >= m.ts
    BY NextMessage
  <1>2. b.first \in Nat /\ Last(b) \in Nat /\ b.first <= Last(b)
    BY <1>1, BatchFacts
  <1>3. m.ts # b.first
    <2>1. m.cmd # Single /\ m.cmd # Start
      BY DEF Single, Start, Middle, End
    <2> QED BY <1>1, <2>1, MessageFacts
  <1>4. Message(b, b.first) \notin wire
    <2>1. b.first \in b.first .. Last(b) /\ ~(b.first >= m.ts)
      BY <1>1, <1>2, <1>3
    <2> QED BY <1>1, <2>1
  <1>5. Kept(b)
    BY <1>1, <1>4 DEF Inv, StartedKept
  <1>6. ASSUME NEW i \in 1 .. Len(reorder_buffer)
        PROVE  i \in Continues(m) <=> Holds(reorder_buffer[i], b)
    <2>1. PICK c \in Pending : Holds(reorder_buffer[i], c)
      BY DEF Inv, MetasOK
    <2>2. ASSUME Holds(reorder_buffer[i], b) PROVE i \in Continues(m)
      <3>1. reorder_buffer[i].sender = m.sender
        BY <1>1, <2>2, HoldsFacts
      <3>2. m.ts = reorder_buffer[i].last_timestamp + 1
        BY <1>1, <2>2, <3>1, HolderTime
      <3> QED BY <3>1, <3>2 DEF Continues
    <2>3. ASSUME i \in Continues(m) PROVE Holds(reorder_buffer[i], b)
      <3>1. /\ reorder_buffer[i].sender = m.sender
            /\ m.ts = reorder_buffer[i].last_timestamp + 1
        BY <2>3 DEF Continues
      <3>2. c = b
        BY <2>1, <3>1, HolderTime
      <3> QED BY <2>1, <3>2
    <2> QED BY <2>2, <2>3
  <1>7. Continues(m) \subseteq 1 .. Len(reorder_buffer)
    BY DEF Continues
  <1>8. ASSUME NEW i \in Continues(m)
        PROVE  /\ Continues(m) = {i}
               /\ First(Continues(m)) = i
               /\ batch_data[m.sender] # NoMeta =>
                     ~Holds(batch_data[m.sender], b)
    <2>1. /\ i \in 1 .. Len(reorder_buffer)
          /\ reorder_buffer[i].sender = m.sender
          /\ m.ts = reorder_buffer[i].last_timestamp + 1
          /\ Holds(reorder_buffer[i], b)
      BY <1>6, <1>7 DEF Continues
    <2>2. ASSUME NEW j \in Continues(m) PROVE j = i
      <3>1. /\ j \in 1 .. Len(reorder_buffer)
            /\ reorder_buffer[j].sender = m.sender
            /\ Holds(reorder_buffer[j], b)
        BY <1>6, <1>7 DEF Continues
      <3>2. reorder_buffer[i].last_timestamp = reorder_buffer[j].last_timestamp
        BY <1>1, <2>1, <3>1, HoldsSame
      <3> QED BY <2>1, <3>1, <3>2 DEF Inv, Unique
    <2>3. Continues(m) = {i}
      BY <2>2
    <2>4. First({i}) = i
      BY <2>1 DEF First
    <2>5. ASSUME batch_data[m.sender] # NoMeta, Holds(batch_data[m.sender], b)
          PROVE  FALSE
      <3>1. batch_data[m.sender].sender = m.sender
        BY <1>1, <2>5, HoldsFacts
      <3>2. reorder_buffer[i].last_timestamp
               = batch_data[m.sender].last_timestamp
        BY <1>1, <2>1, <2>5, <3>1, HoldsSame
      <3> QED BY <1>1, <2>1, <2>5, <3>2 DEF Inv, Unique
    <2> QED BY <2>3, <2>4, <2>5
  <1>9. ASSUME Continues(m) = {}
        PROVE  batch_data[m.sender] # NoMeta /\ Holds(batch_data[m.sender], b)
    BY <1>1, <1>5, <1>6, <1>9 DEF Kept
  <1> QED BY <1>6, <1>7, <1>8, <1>9

-----------------------------------------------------------------------------
(***************************************************************************)
(* The request handle is called when the last message of a batch arrives,  *)
(* with that batch, and at no other time.                                  *)
(***************************************************************************)
HandsOver(m) ==
    handled' = IF m.ts = Last(m.batch) THEN MetaOf(m.batch) ELSE handled

(***************************************************************************)
(* The messages on their way and the answers keep their types.             *)
(***************************************************************************)
LEMMA DeliveredType ==
    ASSUME BatchesEnd, Inv, NEW m \in wire, InOrder(m),
           wire' = wire \ {m}, next_ts' = next_ts,
           Respond(m) \/ UNCHANGED responses
    PROVE  /\ next_ts' \in [Senders -> Timestamps]
           /\ \A x \in wire' : x.batch \in Batch /\ x \in Messages(x.batch)
           /\ responses' \in [Senders -> [Timestamps -> Nat]]
  <1>1. m.sender \in Senders /\ m.ts \in Timestamps
    BY NextMessage
  <1>2. responses \in [Senders -> [Timestamps -> Nat]]
    BY DEF Inv, ServerTypeOK
  <1>3. responses[m.sender] \in [Timestamps -> Nat]
    BY <1>1, <1>2
  <1>4. responses[m.sender][m.ts] \in Nat
    BY <1>1, <1>3
  <1>5. responses' \in [Senders -> [Timestamps -> Nat]]
    BY <1>1, <1>2, <1>3, <1>4 DEF Respond
  <1> QED BY <1>5 DEF Inv, ServerTypeOK

(***************************************************************************)
(* A meta that holds another batch than m's holds it still after m.        *)
(***************************************************************************)
LEMMA StillHeld ==
    ASSUME BatchesEnd, Inv, NEW m \in wire, InOrder(m), wire' = wire \ {m},
           next_ts' = next_ts, NEW c \in Pending, c # m.batch, NEW meta,
           Holds(meta, c)
    PROVE  c \in Pending' /\ Holds(meta, c)'
  <1>1. c \in Pending'
    BY Delivered
  <1>2. Holds(meta, c)' <=> Holds(meta, c)
    BY OtherHolds
  <1> QED BY <1>1, <1>2

(***************************************************************************)
(* A started batch other than m's had its start message taken before m.    *)
(***************************************************************************)
LEMMA StillStarted ==
    ASSUME BatchesEnd, Inv, NEW m \in wire, InOrder(m), wire' = wire \ {m},
           next_ts' = next_ts, NEW c \in Pending', c # m.batch,
           Message(c, c.first) \notin wire'
    PROVE  c \in Pending /\ Kept(c)
  <1>1. c \in Pending
    BY DEF Pending
  <1>2. c \in Batch
    BY <1>1 DEF Pending, Inv, WireOK
  <1>3. c.first \in c.first .. Last(c)
    BY <1>2, BatchFacts
  <1>4. Message(c, c.first).batch = c
    BY <1>2, <1>3, MessageFacts
  <1>5. Message(c, c.first) \notin wire
    BY <1>4
  <1> QED BY <1>1, <1>5 DEF Inv, StartedKept

(***************************************************************************)
(* The four branches of KVHandler preserve the invariant.  A message that  *)
(* is a batch by itself goes straight to the request handle.               *)
(***************************************************************************)
LEMMA SingleInv ==
    ASSUME BatchesEnd, Inv, NEW m \in wire, InOrder(m), wire' = wire \ {m},
           next_ts' = next_ts, HandleSingle(m)
    PROVE  Inv' /\ HandsOver(m)
  <1> DEFINE b == m.batch
  <1>1. /\ b \in Batch /\ b \in Pending
        /\ m.sender = b.sender /\ m.sender \in Senders
        /\ m.ts \in b.first .. Last(b)
        /\ m.ts \in Timestamps
        /\ m = Message(b, m.ts)
        /\ m.cmd = Cmd(b, m.ts)
    BY NextMessage
  <1>2. /\ handled' = Add(NewMeta(m.sender, TRUE), m)
        /\ UNCHANGED <<batch_data, reorder_buffer, responses>>
        /\ m.cmd = Single
    BY DEF HandleSingle
  <1>3. b.push + b.tensors = 1
    BY <1>1, <1>2, MessageFacts
  <1>4. Last(b) = b.first /\ b.first \in Nat /\ m.ts = b.first
    BY <1>1, <1>3, BatchFacts
  <1>5. handled' = MetaOf(b)
    BY <1>1, <1>2, <1>3, <1>4, AddFirst, Zenon
  <1>6. HandsOver(m)
    BY <1>4, <1>5 DEF HandsOver
  <1>7. ServerTypeOK'
    <2>1. handled' \in Meta
      BY <1>1, <1>2, AddType, NewMetaType, Zenon
    <2> QED BY <1>2, <2>1, DeliveredType, Zenon DEF Inv, ServerTypeOK
  <1>8. \A meta : ~Holds(meta, b)
    BY <1>4 DEF Holds
  <1>9. ASSUME NEW c \in Pending, NEW meta, Holds(meta, c)
        PROVE  c \in Pending' /\ Holds(meta, c)'
    BY <1>8, <1>9, StillHeld
  <1>10. MetasOK'
    <2>1. ASSUME NEW s \in Senders, batch_data[s] # NoMeta
          PROVE  \E c \in Pending' : c.sender = s /\ Holds(batch_data[s], c)'
      <3>1. PICK c \in Pending : c.sender = s /\ Holds(batch_data[s], c)
        BY <2>1 DEF Inv, MetasOK
      <3> QED BY <1>2, <1>9, <3>1
    <2>2. ASSUME NEW i \in 1 .. Len(reorder_buffer)
          PROVE  \E c \in Pending' : Holds(reorder_buffer[i], c)'
      <3>1. PICK c \in Pending : Holds(reorder_buffer[i], c)
        BY DEF Inv, MetasOK
      <3> QED BY <1>2, <1>9, <3>1
    <2> QED BY <1>2, <2>1, <2>2 DEF MetasOK
  <1>11. Unique'
    BY <1>2 DEF Inv, Unique
  <1>12. StartedKept'
    <2> SUFFICES ASSUME NEW c \in Pending', Message(c, c.first) \notin wire'
                 PROVE  Kept(c)'
      BY DEF StartedKept
    <2>1. c # b
      BY <1>4, Delivered
    <2>2. c \in Pending /\ Kept(c)
      BY <2>1, StillStarted
    <2> QED BY <1>2, <1>9, <2>2 DEF Kept
  <1> QED BY <1>6, <1>7, <1>10, <1>11, <1>12, Delivered DEF Inv

(***************************************************************************)
(* The start of a batch puts the sender's unfinished batch aside.          *)
(***************************************************************************)
LEMMA StartInv ==
    ASSUME BatchesEnd, Inv, NEW m \in wire, InOrder(m), wire' = wire \ {m},
           next_ts' = next_ts, HandleStart(m)
    PROVE  Inv' /\ HandsOver(m)
  <1> DEFINE b == m.batch
             r == m.sender
             n == Len(reorder_buffer)
             new == PrefixMeta(b, m.ts)
             old == batch_data[r]
  <1>1. /\ b \in Batch /\ b \in Pending
        /\ r = b.sender /\ r \in Senders
        /\ m.ts \in b.first .. Last(b)
        /\ m.ts \in Timestamps
        /\ m = Message(b, m.ts)
        /\ m.cmd = Cmd(b, m.ts)
    BY NextMessage
  <1>2. /\ m.cmd = Start
        /\ Respond(m)
        /\ reorder_buffer' = IF old = NoMeta THEN reorder_buffer
                             ELSE Append(reorder_buffer, old)
        /\ batch_data' = [batch_data EXCEPT ![r] = Add(NewMeta(r, FALSE), m)]
        /\ handled' = handled
    BY DEF HandleStart
  <1>3. b.push + b.tensors # 1 /\ m.ts = b.first
    BY <1>1, <1>2, MessageFacts
  <1>4. b.first \in Nat /\ Last(b) \in Nat /\ m.ts # Last(b)
    BY <1>1, <1>3, BatchFacts
  <1>5. Add(NewMeta(r, FALSE), m) = new
    BY <1>1, <1>3, AddFirst, Zenon
  <1>6. new \in Meta /\ new # NoMeta
    BY <1>1, <1>5, AddType, NewMetaType, NullAssumption, Zenon
  <1>7. new.last_timestamp = m.ts /\ new.sender = r
    BY <1>1 DEF PrefixMeta, Partial
  <1>8. /\ batch_data \in [Senders -> Meta \union {NoMeta}]
        /\ reorder_buffer \in Seq(Meta)
        /\ n \in Nat
    BY DEF Inv, ServerTypeOK
  <1>9. HandsOver(m)
    BY <1>2, <1>4 DEF HandsOver
  <1>10. Pending' = Pending
    BY <1>4, Delivered
  <1>11. Holds(new, b)'
    BY <1>4, SelfHolds
  <1>12. \A meta : ~Holds(meta, b)
    BY <1>1, <1>3, HoldsFacts
  <1> HIDE DEF new
  <1>13. /\ batch_data' \in [Senders -> Meta \union {NoMeta}]
         /\ batch_data'[r] = new
         /\ \A s \in Senders : s # r => batch_data'[s] = batch_data[s]
    BY <1>1, <1>2, <1>5, <1>6, <1>8, Zenon
  <1>14. /\ reorder_buffer' \in Seq(Meta)
         /\ \A i \in 1 .. n : i \in 1 .. Len(reorder_buffer')
                              /\ reorder_buffer'[i] = reorder_buffer[i]
         /\ old # NoMeta => /\ n + 1 \in 1 .. Len(reorder_buffer')
                            /\ reorder_buffer'[n + 1] = old
         /\ \A i \in 1 .. Len(reorder_buffer') :
               i \in 1 .. n \/ (old # NoMeta /\ i = n + 1)
    <2>1. CASE old = NoMeta
      BY <1>2, <1>8, <2>1
    <2>2. CASE old # NoMeta
      <3>1. old \in Meta
        BY <1>1, <1>8, <2>2
      <3>2. /\ reorder_buffer' = Append(reorder_buffer, old)
            /\ Len(reorder_buffer') = n + 1
        BY <1>2, <1>8, <2>2, <3>1
      <3> QED BY <1>8, <2>2, <3>1, <3>2
    <2> QED BY <2>1, <2>2
  <1>15. ServerTypeOK'
    BY <1>2, <1>13, <1>14, DeliveredType, Zenon DEF Inv, ServerTypeOK
  <1>16. old # NoMeta => old.sender = r
    <2>1. ASSUME old # NoMeta PROVE \E c \in Pending : c.sender = r /\ Holds(old, c)
      BY <1>1, <2>1 DEF Inv, MetasOK
    <2> QED BY <2>1, HoldsFacts
  <1>17. ASSUME NEW i \in 1 .. Len(reorder_buffer')
         PROVE  \E c \in Pending : Holds(reorder_buffer[i]', c)
    <2>1. CASE i \in 1 .. n
      BY <1>14, <2>1 DEF Inv, MetasOK
    <2>2. CASE old # NoMeta /\ i = n + 1
      BY <1>1, <1>14, <2>2 DEF Inv, MetasOK
    <2> QED BY <1>14, <2>1, <2>2
  <1>18. ASSUME NEW c \in Pending, NEW meta, Holds(meta, c)
         PROVE  c \in Pending' /\ Holds(meta, c)'
    BY <1>12, <1>18, StillHeld
  <1>19. MetasOK'
    <2>1. ASSUME NEW s \in Senders, batch_data'[s] # NoMeta
          PROVE  \E c \in Pending' : c.sender = s /\ Holds(batch_data[s], c)'
      <3>1. CASE s = r
        BY <1>1, <1>10, <1>11, <1>13, <3>1
      <3>2. CASE s # r
        <4>1. PICK c \in Pending : c.sender = s /\ Holds(batch_data[s], c)
          BY <1>13, <2>1, <3>2 DEF Inv, MetasOK
        <4> QED BY <1>13, <1>18, <3>2, <4>1
      <3> QED BY <3>1, <3>2
    <2>2. ASSUME NEW i \in 1 .. Len(reorder_buffer')
          PROVE  \E c \in Pending' : Holds(reorder_buffer[i], c)'
      <3>1. PICK c \in Pending : Holds(reorder_buffer[i]', c)
        BY <1>17
      <3> QED BY <1>18, <3>1
    <2> QED BY <2>1, <2>2 DEF MetasOK
  <1>20. Unique'
    <2>1. ASSUME NEW i \in 1 .. Len(reorder_buffer'),
                 NEW j \in 1 .. Len(reorder_buffer'),
                 reorder_buffer'[i].sender = reorder_buffer'[j].sender,
                 reorder_buffer'[i].last_timestamp
                    = reorder_buffer'[j].last_timestamp
          PROVE  i = j
      <3>1. ASSUME NEW k \in 1 .. n, old # NoMeta, reorder_buffer[k].sender = r
            PROVE  reorder_buffer[k].last_timestamp # old.last_timestamp
        BY <1>1, <3>1 DEF Inv, Unique
      <3>2. CASE i \in 1 .. n /\ j \in 1 .. n
        BY <1>14, <2>1, <3>2 DEF Inv, Unique
      <3>3. CASE i \in 1 .. n /\ old # NoMeta /\ j = n + 1
        BY <1>14, <1>16, <2>1, <3>1, <3>3
      <3>4. CASE j \in 1 .. n /\ old # NoMeta /\ i = n + 1
        BY <1>14, <1>16, <2>1, <3>1, <3>4
      <3> QED BY <1>14, <3>2, <3>3, <3>4
    <2>2. ASSUME NEW i \in 1 .. Len(reorder_buffer'), NEW s \in Senders,
                 batch_data'[s] # NoMeta, reorder_buffer'[i].sender = s
          PROVE  reorder_buffer'[i].last_timestamp
                    # batch_data'[s].last_timestamp
      <3>1. CASE s = r
        <4>1. PICK c \in Pending : Holds(reorder_buffer[i]', c)
          BY <1>17
        <4>2. reorder_buffer[i]'.last_timestamp # m.ts
          BY <2>2, <3>1, <4>1, HolderTime
        <4> QED BY <1>7, <1>13, <3>1, <4>2
      <3>2. CASE s # r
        <4>1. i \in 1 .. n
          BY <1>14, <1>16, <2>2, <3>2
        <4> QED BY <1>13, <1>14, <2>2, <3>2, <4>1 DEF Inv, Unique
      <3> QED BY <3>1, <3>2
    <2> QED BY <2>1, <2>2 DEF Unique
  <1>21. StartedKept'
    <2> SUFFICES ASSUME NEW c \in Pending', Message(c, c.first) \notin wire'
                 PROVE  Kept(c)'
      BY DEF StartedKept
    <2>1. CASE c = b
      BY <1>1, <1>6, <1>11, <1>13, <2>1 DEF Kept
    <2>2. CASE c # b
      <3>1. c \in Pending /\ Kept(c) /\ c \in Batch
        BY <2>2, StillStarted DEF Inv, WireOK, Pending
      <3>2. c.sender \in Senders
        BY <3>1, BatchFacts
      <3>3. CASE batch_data[c.sender] # NoMeta /\ Holds(batch_data[c.sender], c)
        <4>1. Holds(batch_data[c.sender], c) => \A x : x = batch_data[c.sender] => Holds(x, c)'
          BY <1>18, <3>1
        <4>2. CASE c.sender = r
          BY <1>14, <3>3, <4>1, <4>2 DEF Kept
        <4>3. CASE c.sender # r
          BY <1>13, <3>2, <3>3, <4>1, <4>3 DEF Kept
        <4> QED BY <4>2, <4>3
      <3>4. ASSUME NEW i \in 1 .. n, Holds(reorder_buffer[i], c)
            PROVE  Kept(c)'
        BY <1>14, <1>18, <3>1, <3>4 DEF Kept
      <3> QED BY <3>1, <3>3, <3>4 DEF Kept
    <2> QED BY <2>1, <2>2
  <1> QED BY <1>9, <1>15, <1>19, <1>20, <1>21, Delivered DEF Inv

(***************************************************************************)
(* A later message of the batch its sender started last.                   *)
(***************************************************************************)
LEMMA LatestInv ==
    ASSUME BatchesEnd, Inv, NEW m \in wire, InOrder(m), wire' = wire \ {m},
           next_ts' = next_ts, HandleLatest(m)
    PROVE  Inv' /\ HandsOver(m)
  <1> DEFINE b == m.batch
             r == m.sender
             new == PrefixMeta(b, m.ts)
             old == batch_data[r]
  <1>1. /\ b \in Batch /\ b \in Pending
        /\ r = b.sender /\ r \in Senders
        /\ m.ts \in b.first .. Last(b)
        /\ m.ts \in Timestamps
        /\ m.cmd = Cmd(b, m.ts)
    BY NextMessage
  <1>2. /\ m.cmd \in {Middle, End}
        /\ Continues(m) = {}
        /\ Respond(m)
        /\ reorder_buffer' = reorder_buffer
        /\ IF m.cmd = End
           THEN /\ handled' = Add(old, m)
                /\ batch_data' = [batch_data EXCEPT ![r] = NoMeta]
           ELSE /\ batch_data' = [batch_data EXCEPT ![r] = Add(old, m)]
                /\ handled' = handled
    BY DEF HandleLatest
  <1>3. old # NoMeta /\ Holds(old, b)
    BY <1>2, Holder
  <1>4. /\ Add(old, m) = new
        /\ m.ts = Last(b) => Add(old, m) = MetaOf(b)
    BY <1>3, HolderAdd
  <1>5. b.push + b.tensors # 1
    <2>1. m.cmd # Single
      BY <1>2 DEF Single, Middle, End
    <2> QED BY <1>1, <2>1, MessageFacts
  <1>6. m.cmd = End <=> m.ts = Last(b)
    BY <1>1, <1>5, MessageFacts
  <1>7. batch_data \in [Senders -> Meta \union {NoMeta}]
    BY DEF Inv, ServerTypeOK
  <1>8. new \in Meta /\ new # NoMeta
    <2>1. old \in Meta
      BY <1>1, <1>3, <1>7
    <2>2. Add(old, m) \in Meta
      BY <1>1, <2>1, AddType
    <2> QED BY <1>4, <2>2, NullAssumption
  <1>9. HandsOver(m)
    BY <1>2, <1>4, <1>6 DEF HandsOver
  <1>10. new.last_timestamp = m.ts
    BY DEF PrefixMeta, Partial
  <1>11. m.ts # Last(b) => b \in Pending' /\ Holds(new, b)'
    BY <1>1, Delivered, SelfHolds
  <1>12. \A i \in 1 .. Len(reorder_buffer) : ~Holds(reorder_buffer[i], b)
    BY <1>2, Holder
  <1> HIDE DEF new
  <1>13. /\ batch_data' \in [Senders -> Meta \union {NoMeta}]
         /\ batch_data'[r] = IF m.ts = Last(b) THEN NoMeta ELSE new
         /\ \A s \in Senders : s # r => batch_data'[s] = batch_data[s]
    BY <1>1, <1>2, <1>4, <1>6, <1>7, <1>8
  <1>14. ServerTypeOK'
    <2>1. handled' \in Meta \union {NoMeta}
      BY <1>2, <1>4, <1>8 DEF Inv, ServerTypeOK
    <2> QED BY <1>2, <1>13, <2>1, DeliveredType DEF Inv, ServerTypeOK
  <1>15. ASSUME NEW c \in Pending, NEW meta, Holds(meta, c), c # b
         PROVE  c \in Pending' /\ Holds(meta, c)'
    BY <1>15, StillHeld
  <1>16. MetasOK'
    <2>1. ASSUME NEW s \in Senders, batch_data'[s] # NoMeta
          PROVE  \E c \in Pending' : c.sender = s /\ Holds(batch_data[s], c)'
      <3>1. CASE s = r
        BY <1>1, <1>11, <1>13, <2>1, <3>1
      <3>2. CASE s # r
        <4>1. PICK c \in Pending : c.sender = s /\ Holds(batch_data[s], c)
          BY <1>13, <2>1, <3>2 DEF Inv, MetasOK
        <4>2. c # b
          BY <1>1, <3>2, <4>1
        <4> QED BY <1>13, <1>15, <3>2, <4>1, <4>2
      <3> QED BY <3>1, <3>2
    <2>2. ASSUME NEW i \in 1 .. Len(reorder_buffer)
          PROVE  \E c \in Pending' : Holds(reorder_buffer[i], c)'
      <3>1. PICK c \in Pending : Holds(reorder_buffer[i], c)
        BY DEF Inv, MetasOK
      <3>2. c # b
        BY <1>12, <3>1
      <3> QED BY <1>2, <1>15, <3>1, <3>2
    <2> QED BY <1>2, <2>1, <2>2 DEF MetasOK
  <1>17. Unique'
    <2>1. ASSUME NEW i \in 1 .. Len(reorder_buffer), NEW s \in Senders,
                 batch_data'[s] # NoMeta, reorder_buffer[i].sender = s
          PROVE  reorder_buffer[i].last_timestamp
                    # batch_data'[s].last_timestamp
      <3>1. CASE s = r
        <4>1. PICK c \in Pending : Holds(reorder_buffer[i], c)
          BY DEF Inv, MetasOK
        <4>2. reorder_buffer[i].last_timestamp # m.ts
          BY <2>1, <3>1, <4>1, HolderTime
        <4> QED BY <1>10, <1>13, <2>1, <3>1, <4>2
      <3>2. CASE s # r
        BY <1>13, <2>1, <3>2 DEF Inv, Unique
      <3> QED BY <3>1, <3>2
    <2> QED BY <1>2, <2>1 DEF Inv, Unique
  <1>18. StartedKept'
    <2> SUFFICES ASSUME NEW c \in Pending', Message(c, c.first) \notin wire'
                 PROVE  Kept(c)'
      BY DEF StartedKept
    <2>1. CASE c = b
      <3>1. m.ts # Last(b)
        BY <2>1, Delivered
      <3> QED BY <1>1, <1>8, <1>11, <1>13, <2>1, <3>1 DEF Kept
    <2>2. CASE c # b
      <3>1. c \in Pending /\ Kept(c) /\ c \in Batch
        BY <2>2, StillStarted DEF Inv, WireOK, Pending
      <3>2. c.sender \in Senders
        BY <3>1, BatchFacts
      <3>3. CASE batch_data[c.sender] # NoMeta /\ Holds(batch_data[c.sender], c)
        <4>1. c.sender # r
          <5>1. ASSUME c.sender = r PROVE FALSE
            BY <1>1, <1>3, <2>2, <3>1, <3>3, <5>1, HoldsSame
          <5> QED BY <5>1
        <4> QED BY <1>13, <1>15, <2>2, <3>1, <3>2, <3>3, <4>1 DEF Kept
      <3>4. ASSUME NEW i \in 1 .. Len(reorder_buffer), Holds(reorder_buffer[i], c)
            PROVE  Kept(c)'
        BY <1>2, <1>15, <2>2, <3>1, <3>4 DEF Kept
      <3> QED BY <3>1, <3>3, <3>4 DEF Kept
    <2> QED BY <2>1, <2>2
  <1> QED BY <1>9, <1>14, <1>16, <1>17, <1>18, Delivered DEF Inv

(***************************************************************************)
(* Erasing the k-th element leaves the others, in their order.             *)
(***************************************************************************)
LEMMA RemoveAtFacts ==
    ASSUME NEW S, NEW q \in Seq(S), NEW k \in 1 .. Len(q)
    PROVE  /\ RemoveAt(q, k) \in Seq(S)
           /\ \A i \in 1 .. Len(RemoveAt(q, k)) :
                 /\ i < k => i \in 1 .. Len(q) /\ RemoveAt(q, k)[i] = q[i]
                 /\ i >= k => /\ i + 1 \in 1 .. Len(q)
                              /\ RemoveAt(q, k)[i] = q[i + 1]
           /\ \A j \in 1 .. Len(q) :
                 /\ j < k => /\ j \in 1 .. Len(RemoveAt(q, k))
                             /\ RemoveAt(q, k)[j] = q[j]
                 /\ j > k => /\ j - 1 \in 1 .. Len(RemoveAt(q, k))
                             /\ RemoveAt(q, k)[j - 1] = q[j]
  <1> DEFINE n == Len(q) - 1
             f == [i \in 1 .. n |-> IF i < k THEN q[i] ELSE q[i + 1]]
  <1>1. n \in Nat
    OBVIOUS
  <1>2. \A i \in 1 .. n : (IF i < k THEN q[i] ELSE q[i + 1]) \in S
    OBVIOUS
  <1>3. f \in Seq(S) /\ Len(f) = n
    BY <1>1, <1>2
  <1>4. RemoveAt(q, k) = f
    BY DEF RemoveAt
  <1>5. \A i \in 1 .. n : /\ i < k => i \in 1 .. Len(q) /\ f[i] = q[i]
                          /\ i >= k => i + 1 \in 1 .. Len(q) /\ f[i] = q[i + 1]
    BY <1>1
  <1>6. \A j \in 1 .. Len(q) :
           /\ j < k => j \in 1 .. n /\ f[j] = q[j]
           /\ j > k => j - 1 \in 1 .. n /\ f[j - 1] = q[j]
    BY <1>1
  <1> QED BY <1>3, <1>4, <1>5, <1>6

(***************************************************************************)
(* A later message of a batch in the reorder buffer.                       *)
(***************************************************************************)
LEMMA ReorderedInv ==
    ASSUME BatchesEnd, Inv, NEW m \in wire, InOrder(m), wire' = wire \ {m},
           next_ts' = next_ts, HandleReordered(m)
    PROVE  Inv' /\ HandsOver(m)
  <1> DEFINE b == m.batch
             r == m.sender
             k == First(Continues(m))
             n == Len(reorder_buffer)
             new == PrefixMeta(b, m.ts)
             old == reorder_buffer[k]
  <1>1. /\ b \in Batch /\ b \in Pending
        /\ r = b.sender /\ r \in Senders
        /\ m.ts \in b.first .. Last(b)
        /\ m.ts \in Timestamps
        /\ m.cmd = Cmd(b, m.ts)
    BY NextMessage
  <1>2. /\ m.cmd \in {Middle, End}
        /\ Continues(m) # {}
        /\ Respond(m)
        /\ batch_data' = batch_data
        /\ IF m.cmd = End
           THEN /\ handled' = Add(old, m)
                /\ reorder_buffer' = RemoveAt(reorder_buffer, k)
           ELSE /\ reorder_buffer' = [reorder_buffer EXCEPT ![k] = Add(old, m)]
                /\ handled' = handled
    BY DEF HandleReordered
  <1>3. /\ k \in 1 .. n
        /\ Holds(old, b)
        /\ \A i \in 1 .. n : Holds(reorder_buffer[i], b) => i = k
        /\ batch_data[r] # NoMeta => ~Holds(batch_data[r], b)
    <2>1. PICK i \in Continues(m) : TRUE
      BY <1>2
    <2>2. /\ Continues(m) = {i}
          /\ k = i
          /\ batch_data[r] # NoMeta => ~Holds(batch_data[r], b)
      BY <1>2, Holder
    <2>3. Continues(m) = {j \in 1 .. n : Holds(reorder_buffer[j], b)}
      BY <1>2, Holder
    <2> HIDE DEF k
    <2> QED BY <2>2, <2>3
  <1>4. /\ Add(old, m) = new
        /\ m.ts = Last(b) => Add(old, m) = MetaOf(b)
    BY <1>3, HolderAdd
  <1>5. b.push + b.tensors # 1
    <2>1. m.cmd # Single
      BY <1>2 DEF Single, Middle, End
    <2> QED BY <1>1, <2>1, MessageFacts
  <1>6. m.cmd = End <=> m.ts = Last(b)
    BY <1>1, <1>5, MessageFacts
  <1>7. reorder_buffer \in Seq(Meta) /\ n \in Nat
    BY DEF Inv, ServerTypeOK
  <1> HIDE DEF k
  <1>8. new \in Meta
    <2>1. old \in Meta
      BY <1>3, <1>7
    <2>2. Add(old, m) \in Meta
      BY <1>1, <2>1, AddType
    <2> QED BY <1>4, <2>2
  <1>9. HandsOver(m)
    BY <1>2, <1>4, <1>6 DEF HandsOver
  <1>10. new.last_timestamp = m.ts /\ new.sender = r
    BY <1>1 DEF PrefixMeta, Partial
  <1>11. m.ts # Last(b) => b \in Pending' /\ Holds(new, b)'
    BY <1>1, Delivered, SelfHolds
  <1> HIDE DEF new
  <1>12. handled' \in Meta \union {NoMeta}
    BY <1>2, <1>4, <1>8 DEF Inv, ServerTypeOK
  <1>13. ASSUME NEW c \in Pending, NEW meta, Holds(meta, c), c # b
         PROVE  c \in Pending' /\ Holds(meta, c)'
    BY <1>13, StillHeld
  <1>14. ASSUME NEW s \in Senders, batch_data'[s] # NoMeta
         PROVE  \E c \in Pending' : c.sender = s /\ Holds(batch_data[s], c)'
    <2>1. PICK c \in Pending : c.sender = s /\ Holds(batch_data[s], c)
      BY <1>2, <1>14 DEF Inv, MetasOK
    <2>2. c # b
      BY <1>1, <1>2, <1>3, <1>14, <2>1
    <2> QED BY <1>2, <1>13, <2>1, <2>2
  <1>15. ASSUME NEW i \in 1 .. n, i # k
         PROVE  \E c \in Pending : c # b /\ Holds(reorder_buffer[i], c)
    <2>1. PICK c \in Pending : Holds(reorder_buffer[i], c)
      BY DEF Inv, MetasOK
    <2>2. c # b
      BY <1>3, <1>15, <2>1
    <2> QED BY <2>1, <2>2
  <1>16. ASSUME NEW c \in Pending', c # b, Message(c, c.first) \notin wire',
                \A i \in 1 .. n : i # k =>
                   \E j \in 1 .. Len(reorder_buffer') :
                      reorder_buffer'[j] = reorder_buffer[i]
         PROVE  Kept(c)'
    <2>1. c \in Pending /\ Kept(c)
      BY <1>16, StillStarted
    <2>2. CASE batch_data[c.sender] # NoMeta /\ Holds(batch_data[c.sender], c)
      BY <1>2, <1>13, <1>16, <2>1, <2>2 DEF Kept
    <2>3. ASSUME NEW i \in 1 .. n, Holds(reorder_buffer[i], c)
          PROVE  Kept(c)'
      <3>1. i # k
        <4>1. ASSUME i = k PROVE FALSE
          BY <1>1, <1>3, <1>16, <2>1, <2>3, <4>1, HoldsSame, Zenon
        <4> QED BY <4>1
      <3>2. PICK j \in 1 .. Len(reorder_buffer') :
               reorder_buffer'[j] = reorder_buffer[i]
        BY <1>16, <3>1
      <3> QED BY <1>13, <1>16, <2>1, <2>3, <3>2 DEF Kept
    <2> QED BY <2>1, <2>2, <2>3 DEF Kept
  <1>17. CASE m.ts = Last(b)
    <2>1. reorder_buffer' = RemoveAt(reorder_buffer, k)
      BY <1>2, <1>6, <1>17
    <2>2. /\ reorder_buffer' \in Seq(Meta)
          /\ \A i \in 1 .. Len(reorder_buffer') :
                 /\ i < k => i \in 1 .. n /\ reorder_buffer'[i] = reorder_buffer[i]
                 /\ i >= k => /\ i + 1 \in 1 .. n
                              /\ reorder_buffer'[i] = reorder_buffer[i + 1]
          /\ \A j \in 1 .. n :
                 /\ j < k => /\ j \in 1 .. Len(reorder_buffer')
                             /\ reorder_buffer'[j] = reorder_buffer[j]
                 /\ j > k => /\ j - 1 \in 1 .. Len(reorder_buffer')
                             /\ reorder_buffer'[j - 1] = reorder_buffer[j]
      BY <1>3, <1>7, <2>1, RemoveAtFacts
    <2> DEFINE src(i) == IF i < k THEN i ELSE i + 1
    <2>3. \A i \in 1 .. Len(reorder_buffer') :
             /\ src(i) \in 1 .. n /\ src(i) # k
             /\ reorder_buffer'[i] = reorder_buffer[src(i)]
      BY <1>3, <1>7, <2>2
    <2>4. \A i, j \in 1 .. Len(reorder_buffer') : src(i) = src(j) => i = j
      BY <1>3, <2>2
    <2>5. \A i \in 1 .. n : i # k => \E j \in 1 .. Len(reorder_buffer') :
                                        reorder_buffer'[j] = reorder_buffer[i]
      BY <1>3, <2>2
    <2> HIDE DEF src
    <2>6. ServerTypeOK'
      BY <1>2, <1>12, <2>2, DeliveredType DEF Inv, ServerTypeOK
    <2>7. MetasOK'
      <3>1. ASSUME NEW i \in 1 .. Len(reorder_buffer')
            PROVE  \E c \in Pending' : Holds(reorder_buffer[i], c)'
        <4>1. PICK c \in Pending : c # b /\ Holds(reorder_buffer[src(i)], c)
          BY <1>15, <2>3
        <4> QED BY <1>13, <2>3, <4>1
      <3> QED BY <1>14, <3>1 DEF MetasOK
    <2>8. Unique'
      BY <1>2, <2>3, <2>4 DEF Inv, Unique
    <2>9. StartedKept'
      <3> SUFFICES ASSUME NEW c \in Pending', Message(c, c.first) \notin wire'
                   PROVE  Kept(c)'
        BY DEF StartedKept
      <3>1. c # b
        BY <1>17, Delivered
      <3> QED BY <1>16, <2>5, <3>1
    <2> QED BY <1>9, <2>6, <2>7, <2>8, <2>9, Delivered DEF Inv
  <1>18. CASE m.ts # Last(b)
    <2>1. reorder_buffer' = [reorder_buffer EXCEPT ![k] = new]
      BY <1>2, <1>4, <1>6, <1>18
    <2>2. /\ reorder_buffer' \in Seq(Meta)
          /\ Len(reorder_buffer') = n
          /\ reorder_buffer'[k] = new
          /\ \A i \in 1 .. n : i # k => reorder_buffer'[i] = reorder_buffer[i]
      BY <1>3, <1>7, <1>8, <2>1
    <2>3. ServerTypeOK'
      BY <1>2, <1>12, <2>2, DeliveredType DEF Inv, ServerTypeOK
    <2>4. MetasOK'
      <3>1. ASSUME NEW i \in 1 .. n
            PROVE  \E c \in Pending' : Holds(reorder_buffer[i], c)'
        <4>1. CASE i = k
          BY <1>11, <1>18, <2>2, <4>1
        <4>2. CASE i # k
          <5>1. PICK c \in Pending : c # b /\ Holds(reorder_buffer[i], c)
            BY <1>15, <4>2
          <5> QED BY <1>13, <2>2, <4>2, <5>1
        <4> QED BY <4>1, <4>2
      <3> QED BY <1>14, <2>2, <3>1 DEF MetasOK
    <2>5. Unique'
      <3>1. ASSUME NEW i \in 1 .. n, i # k, reorder_buffer[i].sender = r
            PROVE  reorder_buffer[i].last_timestamp # m.ts
        <4>1. PICK c \in Pending : Holds(reorder_buffer[i], c)
          BY <1>15, <3>1
        <4> QED BY <3>1, <4>1, HolderTime
      <3>2. ASSUME batch_data[r] # NoMeta
            PROVE  batch_data[r].last_timestamp # m.ts
        <4>1. PICK c \in Pending : c.sender = r /\ Holds(batch_data[r], c)
          BY <1>1, <3>2 DEF Inv, MetasOK
        <4>2. batch_data[r].sender = r
          BY <4>1, HoldsFacts
        <4> QED BY <4>1, <4>2, HolderTime
      <3>3. ASSUME NEW i \in 1 .. n, NEW j \in 1 .. n,
                   reorder_buffer'[i].sender = reorder_buffer'[j].sender,
                   reorder_buffer'[i].last_timestamp
                      = reorder_buffer'[j].last_timestamp
            PROVE  i = j
        <4>1. CASE i # k /\ j # k
          BY <2>2, <3>3, <4>1 DEF Inv, Unique
        <4>2. CASE i = k \/ j = k
          BY <1>10, <2>2, <3>1, <3>3, <4>2
        <4> QED BY <4>1, <4>2
      <3>4. ASSUME NEW i \in 1 .. n, NEW s \in Senders,
                   batch_data[s] # NoMeta, reorder_buffer'[i].sender = s
            PROVE  reorder_buffer'[i].last_timestamp
                      # batch_data[s].last_timestamp
        <4>1. CASE i = k
          BY <1>10, <2>2, <3>2, <3>4, <4>1
        <4>2. CASE i # k
          BY <2>2, <3>4, <4>2 DEF Inv, Unique
        <4> QED BY <4>1, <4>2
      <3> QED BY <1>2, <2>2, <3>3, <3>4 DEF Unique
    <2>6. StartedKept'
      <3> SUFFICES ASSUME NEW c \in Pending', Message(c, c.first) \notin wire'
                   PROVE  Kept(c)'
        BY DEF StartedKept
      <3>1. CASE c = b
        BY <1>3, <1>11, <1>18, <2>2, <3>1 DEF Kept
      <3>2. CASE c # b
        BY <1>16, <2>2, <3>2
      <3> QED BY <3>1, <3>2
    <2> QED BY <1>9, <2>3, <2>4, <2>5, <2>6, Delivered DEF Inv
  <1> QED BY <1>17, <1>18

-----------------------------------------------------------------------------
(***************************************************************************)
(* The van's side.  What is posted was sent, once, the messages of a batch *)
(* in their order and none before one that is not posted.  That lasts      *)
(* because a batch has either no message that waits for a rendezvous, or   *)
(* only messages that all do, each for a key of its own.                   *)
(***************************************************************************)
QueueOK(s) ==
    /\ \A i \in 1 .. Len(posted[s]) :
          posted[s][i].sender = s /\ posted[s][i].ts < sent[s]
    /\ \A i, j \in 1 .. Len(posted[s]) : i < j =>
          /\ posted[s][i] # posted[s][j]
          /\ posted[s][i].batch = posted[s][j].batch =>
                posted[s][i].ts < posted[s][j].ts

PostedOK == \A s \in Senders : sent[s] <= next_ts[s] /\ QueueOK(s)

NonePassed ==
    \A x, y \in wire :
        x.batch = y.batch /\ IsPosted(x) /\ ~IsPosted(y) => x.ts < y.ts

AllKnown(b) ==
    \A m \in wire : m.batch = b =>
        /\ Slot(m) \in known[b.sender]
        /\ m.ts < sent[b.sender] => IsPosted(m)

AllNew(b) ==
    \A m \in wire : m.batch = b /\ ~IsPosted(m) =>
        /\ Slot(m) \notin known[b.sender]
        /\ \A x \in wire : x.sender = b.sender /\ ~IsPosted(x) =>
              (Slot(x) = Slot(m) => x = m)

OneWay == \A b \in Pending : AllKnown(b) \/ AllNew(b)

VanInv == VanTypeOK /\ PostedOK /\ NonePassed /\ OneWay

(***************************************************************************)
(* What is known of any message on its way.                                *)
(***************************************************************************)
LEMMA WireFacts ==
    ASSUME BatchesEnd, Inv, NEW x \in wire
    PROVE  /\ x.batch \in Batch /\ x.batch \in Pending
           /\ x.sender = x.batch.sender /\ x.sender \in Senders
           /\ x.ts \in Nat
           /\ x.ts < next_ts[x.sender]
           /\ x = Message(x.batch, x.ts)
  <1>1. /\ x.batch \in Batch
        /\ x.ts \in x.batch.first .. Last(x.batch)
        /\ x = Message(x.batch, x.ts)
        /\ Last(x.batch) < next_ts[x.sender]
    BY DEF Inv, WireOK
  <1>2. /\ x.batch.first \in Nat /\ Last(x.batch) \in Nat
        /\ x.batch.sender \in Senders
    BY <1>1, BatchFacts
  <1>3. x.sender = x.batch.sender
    BY <1>1, MessageFacts
  <1>4. next_ts[x.sender] \in Int
    <2>1. next_ts[x.sender] \in Timestamps
      BY <1>2, <1>3 DEF Inv, ServerTypeOK
    <2> QED BY <2>1, ServerAssumption DEF Timestamps
  <1>5. x.batch \in Pending
    BY DEF Pending
  <1> QED BY <1>1, <1>2, <1>3, <1>4, <1>5

(***************************************************************************)
(* A message has one of the van's keys.                                    *)
(***************************************************************************)
LEMMA SlotType ==
    ASSUME BatchesEnd, Inv, NEW x \in wire
    PROVE  Slot(x) \in {"push", "pull"} \X Keys
  <1> DEFINE b == x.batch
  <1>1. /\ b \in Batch
        /\ x.ts \in b.first .. Last(b)
        /\ x = Message(b, x.ts)
    BY DEF Inv, WireOK
  <1>2. PICK s \in Senders, first \in Timestamps, shape \in Shapes :
           b = NewBatch(s, first, shape)
    BY <1>1 DEF Batch
  <1>3. /\ b.keys = shape[3] /\ b.push = shape[1] /\ b.tensors = shape[2]
        /\ b.first = first
    BY <1>2 DEF NewBatch
  <1>4. /\ shape[3] \in Seq(Keys)
        /\ Len(shape[3]) = shape[1] + shape[2] \div NumServers
    BY ServerAssumption
  <1>5. b.first \in Nat /\ b.push \in Nat /\ Pulls(b) \in Nat
    BY <1>1, BatchFacts
  <1>6. Last(b) = b.first + Len(b.keys) - 1
    <2>1. Len(b.keys) = b.push + Pulls(b)
      BY <1>3, <1>4 DEF Pulls
    <2> QED BY <1>5, <2>1 DEF Last
  <1>7. b.keys[x.ts - b.first + 1] \in Keys
    <2>1. Len(b.keys) \in Nat
      BY <1>3, <1>4
    <2>2. x.ts - b.first + 1 \in 1 .. Len(b.keys)
      BY <1>1, <1>5, <1>6, <2>1
    <2> QED BY <1>3, <1>4, <2>2
  <1>8. x.key = b.keys[x.ts - b.first + 1] /\ x.op \in {"push", "pull"}
    <2>1. /\ Message(b, x.ts).key = b.keys[x.ts - b.first + 1]
          /\ Message(b, x.ts).op \in {"push", "pull"}
      BY DEF Message
    <2> QED BY <1>1, <2>1
  <1> QED BY <1>7, <1>8 DEF Slot

(***************************************************************************)
(* The types of the van's variables, point by point.                       *)
(***************************************************************************)
LEMMA VanFacts ==
    ASSUME VanInv, NEW s \in Senders
    PROVE  /\ sent[s] \in Nat
           /\ posted[s] \in Seq(wire)
           /\ known[s] \in SUBSET ({"push", "pull"} \X Keys)
           /\ \A i \in 1 .. Len(posted[s]) :
                 /\ posted[s][i] \in wire
                 /\ posted[s][i].sender = s
                 /\ IsPosted(posted[s][i])
                 /\ posted[s][i].ts < sent[s]
  <1>1. sent[s] \in Timestamps /\ Timestamps \subseteq Nat
    BY ServerAssumption DEF VanInv, VanTypeOK, Timestamps
  <1>2. /\ posted[s] \in Seq(wire)
        /\ known[s] \in SUBSET ({"push", "pull"} \X Keys)
    BY DEF VanInv, VanTypeOK
  <1>3. ASSUME NEW i \in 1 .. Len(posted[s])
        PROVE  /\ posted[s][i] \in wire
               /\ posted[s][i].sender = s
               /\ IsPosted(posted[s][i])
               /\ posted[s][i].ts < sent[s]
    <2>1. posted[s][i].sender = s /\ posted[s][i].ts < sent[s]
      BY DEF VanInv, PostedOK, QueueOK
    <2>2. posted[s][i] \in wire
      BY <1>2
    <2> QED BY <2>1, <2>2 DEF IsPosted
  <1> QED BY <1>1, <1>2, <1>3, Zenon

(***************************************************************************)
(* The message that KVHandler gets is the earliest of its batch.           *)
(***************************************************************************)
LEMMA HeadInOrder ==
    ASSUME BatchesEnd, Inv, VanInv, NEW s \in Senders, posted[s] # << >>
    PROVE  /\ Head(posted[s]) \in wire
           /\ Head(posted[s]).sender = s
           /\ InOrder(Head(posted[s]))
  <1> DEFINE m == Head(posted[s])
  <1>1. posted[s] \in Seq(wire)
    BY VanFacts
  <1>2. 1 \in 1 .. Len(posted[s]) /\ m = posted[s][1]
    BY <1>1
  <1> HIDE DEF m
  <1>3. m \in wire /\ m.sender = s /\ IsPosted(m)
    BY <1>2, VanFacts
  <1>4. ASSUME NEW x \in wire, x.batch = m.batch PROVE m.ts <= x.ts
    <2>1. x.ts \in Nat /\ m.ts \in Nat /\ x.sender = s
      BY <1>3, <1>4, WireFacts
    <2>2. CASE IsPosted(x)
      <3>1. PICK i \in 1 .. Len(posted[s]) : posted[s][i] = x
        BY <2>1, <2>2 DEF IsPosted
      <3>2. CASE i = 1
        BY <1>2, <2>1, <3>1, <3>2
      <3>3. CASE i # 1
        <4>1. 1 < i
          BY <1>1, <3>3
        <4>2. m.ts < x.ts
          BY <1>2, <1>4, <3>1, <4>1 DEF VanInv, PostedOK, QueueOK
        <4> QED BY <2>1, <4>2
      <3> QED BY <3>2, <3>3
    <2>3. CASE ~IsPosted(x)
      BY <1>3, <1>4, <2>1, <2>3 DEF VanInv, NonePassed
    <2> QED BY <2>2, <2>3
  <1> QED BY <1>3, <1>4 DEF InOrder, m

(***************************************************************************)
(* A post puts one message at the end.                                     *)
(***************************************************************************)
LEMMA PostFacts ==
    ASSUME VanInv, NEW m \in wire, m.sender \in Senders, Post(m), wire' = wire,
           ~IsPosted(m)
    PROVE  /\ posted' \in [Senders -> Seq(wire')]
           /\ \A s \in Senders : s # m.sender => posted'[s] = posted[s]
           /\ Len(posted'[m.sender]) = Len(posted[m.sender]) + 1
           /\ \A i \in 1 .. Len(posted[m.sender]) :
                 posted'[m.sender][i] = posted[m.sender][i]
           /\ posted'[m.sender][Len(posted[m.sender]) + 1] = m
           /\ \A x : x.sender \in Senders =>
                 (IsPosted(x)' <=> IsPosted(x) \/ x = m)
  <1> DEFINE p == posted[m.sender]
  <1>1. posted \in [Senders -> Seq(wire)] /\ p \in Seq(wire)
    BY DEF VanInv, VanTypeOK
  <1>2. /\ posted'[m.sender] = Append(p, m)
        /\ \A s \in Senders : s # m.sender => posted'[s] = posted[s]
    BY <1>1 DEF Post
  <1>3. Append(p, m) \in Seq(wire)
    BY <1>1
  <1>4. posted' \in [Senders -> Seq(wire')]
    BY <1>1, <1>3 DEF Post
  <1>5. /\ Len(posted'[m.sender]) = Len(p) + 1 /\ Len(p) \in Nat
        /\ \A i \in 1 .. Len(p) : posted'[m.sender][i] = p[i]
        /\ posted'[m.sender][Len(p) + 1] = m
    BY <1>1, <1>2
  <1> HIDE DEF p
  <1>6. ASSUME NEW x, x.sender \in Senders
        PROVE  IsPosted(x)' <=> IsPosted(x) \/ x = m
    <2>1. CASE x.sender # m.sender
      <3>1. posted'[x.sender] = posted[x.sender] /\ x # m
        BY <1>2, <1>6, <2>1
      <3> QED BY <3>1 DEF IsPosted
    <2>2. CASE x.sender = m.sender
      <3>1. IsPosted(x) => IsPosted(x)'
        BY <1>5, <2>2 DEF IsPosted, p
      <3>2. x = m => IsPosted(x)'
        BY <1>5 DEF IsPosted
      <3>3. ASSUME IsPosted(x)', x # m PROVE IsPosted(x)
        <4>1. PICK i \in 1 .. Len(p) + 1 : posted'[m.sender][i] = x
          BY <1>5, <2>2, <3>3 DEF IsPosted
        <4>2. i # Len(p) + 1
          BY <1>5, <3>3, <4>1
        <4>3. i \in 1 .. Len(p)
          BY <1>5, <4>1, <4>2
        <4> QED BY <1>5, <2>2, <4>1, <4>3 DEF IsPosted, p
      <3> QED BY <3>1, <3>2, <3>3
    <2> QED BY <2>1, <2>2
  <1> QED BY <1>2, <1>4, <1>5, <1>6 DEF p

(***************************************************************************)
(* A sequence is one of any set that has its elements.                     *)
(***************************************************************************)
LEMMA SeqOf ==
    ASSUME NEW S, NEW T, NEW q \in Seq(S), \A i \in 1 .. Len(q) : q[i] \in T
    PROVE  q \in Seq(T)
  <1>1. q \in [1 .. Len(q) -> T] /\ Len(q) \in Nat
    OBVIOUS
  <1> QED BY <1>1

(***************************************************************************)
(* A delivery takes the first message off.                                 *)
(***************************************************************************)
LEMMA TakeFacts ==
    ASSUME BatchesEnd, Inv, VanInv, NEW m \in wire, KVHandler(m)
    PROVE  /\ m.sender \in Senders
           /\ posted' \in [Senders -> Seq(wire')]
           /\ \A s \in Senders : s # m.sender => posted'[s] = posted[s]
           /\ Len(posted'[m.sender]) = Len(posted[m.sender]) - 1
           /\ \A i \in 1 .. Len(posted'[m.sender]) :
                 posted'[m.sender][i] = posted[m.sender][i + 1]
           /\ \A x : x.sender \in Senders /\ x # m =>
                 (IsPosted(x)' <=> IsPosted(x))
  <1> DEFINE p == posted[m.sender]
  <1>1. m.sender \in Senders
    BY WireFacts
  <1>2. posted \in [Senders -> Seq(wire)] /\ p \in Seq(wire)
    BY <1>1 DEF VanInv, VanTypeOK
  <1>3. /\ p # << >> /\ m = Head(p) /\ wire' = wire \ {m}
        /\ posted' = [posted EXCEPT ![m.sender] = Tail(@)]
    BY DEF KVHandler
  <1>4. /\ posted'[m.sender] = Tail(p)
        /\ \A s \in Senders : s # m.sender => posted'[s] = posted[s]
    BY <1>1, <1>2, <1>3
  <1>5. /\ Len(Tail(p)) = Len(p) - 1 /\ Len(p) \in Nat \ {0}
        /\ \A i \in 1 .. Len(Tail(p)) : Tail(p)[i] = p[i + 1]
        /\ m = p[1]
    BY <1>2, <1>3
  <1>6. \A i \in 1 .. Len(Tail(p)) : Tail(p)[i] \in wire /\ Tail(p)[i] # m
    <2> SUFFICES ASSUME NEW i \in 1 .. Len(Tail(p))
                 PROVE  p[i + 1] \in wire /\ p[i + 1] # p[1]
      BY <1>5
    <2>1. 1 \in 1 .. Len(p) /\ i + 1 \in 1 .. Len(p) /\ 1 < i + 1
      BY <1>5
    <2> QED BY <1>1, <1>2, <2>1 DEF VanInv, PostedOK, QueueOK
  <1>7. Tail(p) \in Seq(wire')
    <2>1. Tail(p) \in Seq(wire)
      BY <1>2, <1>3
    <2>2. \A i \in 1 .. Len(Tail(p)) : Tail(p)[i] \in wire'
      BY <1>3, <1>6, Zenon
    <2> QED BY <2>1, <2>2, SeqOf, Zenon
  <1>8. ASSUME NEW s \in Senders PROVE posted'[s] \in Seq(wire')
    <2>1. CASE s = m.sender
      BY <1>4, <1>7, <2>1, Zenon
    <2>2. CASE s # m.sender
      <3>1. posted'[s] = posted[s] /\ posted[s] \in Seq(wire)
        BY <1>2, <1>4, <2>2
      <3>2. \A i \in 1 .. Len(posted[s]) : posted[s][i] \in wire'
        <4> SUFFICES ASSUME NEW i \in 1 .. Len(posted[s])
                     PROVE  posted[s][i] \in wire'
          OBVIOUS
        <4>1. posted[s][i] \in wire /\ posted[s][i].sender = s
          BY VanFacts
        <4> QED BY <1>3, <2>2, <4>1
      <3> QED BY <3>1, <3>2, SeqOf, Zenon
    <2> QED BY <2>1, <2>2
  <1>9. posted' \in [Senders -> Seq(wire')]
    <2>1. DOMAIN posted' = Senders /\ posted' = [s \in Senders |-> posted'[s]]
      BY <1>2, <1>3, Zenon
    <2> QED BY <1>8, <2>1
  <1> HIDE DEF p
  <1>10. ASSUME NEW x, x.sender \in Senders, x # m
         PROVE  IsPosted(x)' <=> IsPosted(x)
    <2>1. CASE x.sender # m.sender
      <3>1. posted'[x.sender] = posted[x.sender]
        BY <1>4, <1>10, <2>1
      <3> QED BY <3>1 DEF IsPosted
    <2>2. CASE x.sender = m.sender
      <3>1. ASSUME IsPosted(x)' PROVE IsPosted(x)
        <4>1. PICK i \in 1 .. Len(Tail(p)) : Tail(p)[i] = x
          BY <1>4, <2>2, <3>1, Zenon DEF IsPosted
        <4>2. i + 1 \in 1 .. Len(p) /\ p[i + 1] = x
          BY <1>5, <4>1
        <4> QED BY <2>2, <4>2 DEF IsPosted, p
      <3>2. ASSUME IsPosted(x) PROVE IsPosted(x)'
        <4>1. PICK i \in 1 .. Len(p) : p[i] = x
          BY <2>2, <3>2 DEF IsPosted, p
        <4>2. i # 1
          BY <1>5, <1>10, <4>1
        <4>3. i - 1 \in 1 .. Len(Tail(p)) /\ Tail(p)[i - 1] = x
          BY <1>5, <4>1, <4>2
        <4> QED BY <1>4, <2>2, <4>3, Zenon DEF IsPosted
      <3> QED BY <3>1, <3>2
    <2> QED BY <2>1, <2>2
  <1> QED BY <1>1, <1>4, <1>5, <1>9, <1>10 DEF p

-----------------------------------------------------------------------------
(***************************************************************************)
(* The van's invariant holds before anything is sent.                      *)
(***************************************************************************)
LEMMA InitVan == Init => VanInv
  <1> SUFFICES ASSUME Init PROVE VanInv
    OBVIOUS
  <1>1. /\ wire = {} /\ Pending = {}
        /\ sent = [s \in Senders |-> 0] /\ next_ts = [s \in Senders |-> 0]
        /\ known = [s \in Senders |-> {}] /\ posted = [s \in Senders |-> << >>]
    BY DEF Init, Pending
  <1>2. VanTypeOK
    <2>1. 0 \in Timestamps /\ << >> \in Seq(wire)
      BY ServerAssumption DEF Timestamps
    <2> QED BY <1>1, <2>1 DEF VanTypeOK
  <1>3. PostedOK
    <2>1. ASSUME NEW s \in Senders
          PROVE  sent[s] <= next_ts[s] /\ 1 .. Len(posted[s]) = {}
      BY <1>1
    <2> QED BY <2>1, Zenon DEF PostedOK, QueueOK
  <1> QED BY <1>1, <1>2, <1>3 DEF VanInv, NonePassed, OneWay

(***************************************************************************)
(* A settled call preserves it: its messages are all of one kind.          *)
(***************************************************************************)
LEMMA SendVan ==
    ASSUME BatchesEnd, Settled, Inv, VanInv, NEW s \in Senders,
           NEW shape \in Shapes, ZBatchPushPull(s, shape)
    PROVE  VanInv'
  <1>0. PICK b : b = NewBatch(s, next_ts[s], shape)
    OBVIOUS
  <1>1. /\ SettledCall(b)
        /\ next_ts' = [next_ts EXCEPT ![s] = Last(b) + 1]
        /\ wire' = wire \union Messages(b)
        /\ sent' = sent /\ known' = known /\ posted' = posted
    BY <1>0 DEF ZBatchPushPull, vanVars
  <1>2. next_ts[s] \in Timestamps /\ next_ts \in [Senders -> Timestamps]
    BY DEF Inv, ServerTypeOK
  <1>3. b \in Batch /\ b.sender = s /\ b.first = next_ts[s]
    BY <1>0, <1>2 DEF Batch, NewBatch
  <1>4. b.first \in Nat /\ Last(b) \in Nat /\ b.first <= Last(b)
    BY <1>3, BatchFacts
  <1>5. ASSUME NEW x \in Messages(b)
        PROVE  /\ x.batch = b /\ x.sender = s
               /\ x.ts \in Nat /\ x.ts >= b.first
               /\ x \notin wire
    <2>1. PICK ts \in b.first .. Last(b) : x = Message(b, ts)
      BY DEF Messages
    <2>2. x.batch = b /\ x.sender = s /\ x.ts = ts
      BY <1>3, <2>1, MessageFacts
    <2>3. x.ts \in Nat /\ x.ts >= b.first
      BY <1>4, <2>1, <2>2
    <2>4. ASSUME x \in wire PROVE FALSE
      <3>1. x.ts < next_ts[s]
        BY <2>2, <2>4, WireFacts
      <3> QED BY <1>3, <1>4, <2>3, <3>1
    <2> QED BY <2>2, <2>3, <2>4
  <1>6. \A x : IsPosted(x)' <=> IsPosted(x)
    BY <1>1 DEF IsPosted
  <1>7. ASSUME NEW x \in Messages(b) PROVE ~IsPosted(x) /\ ~(x.ts < sent[s])
    <2>1. \A i \in 1 .. Len(posted[s]) : posted[s][i] \in wire
      BY VanFacts
    <2>2. ~IsPosted(x)
      BY <1>5, <2>1 DEF IsPosted
    <2>3. sent[s] \in Nat /\ sent[s] <= b.first
      BY <1>3, VanFacts DEF VanInv, PostedOK, QueueOK
    <2> QED BY <1>4, <1>5, <2>2, <2>3
  <1>8. VanTypeOK'
    <2>1. ASSUME NEW r \in Senders PROVE posted[r] \in Seq(wire')
      <3>1. posted[r] \in Seq(wire)
        BY VanFacts
      <3> QED BY <1>1, <3>1
    <2>2. posted = [r \in Senders |-> posted[r]]
      BY DEF VanInv, VanTypeOK
    <2>3. posted' \in [Senders -> Seq(wire')]
      BY <1>1, <2>1, <2>2
    <2> QED BY <1>1, <2>3 DEF VanInv, VanTypeOK
  <1>9. PostedOK'
    <2>1. ASSUME NEW r \in Senders PROVE sent[r] <= next_ts'[r]
      <3>1. sent[r] <= next_ts[r] /\ sent[r] \in Nat
        BY VanFacts DEF VanInv, PostedOK, QueueOK
      <3>2. CASE r = s
        <4>1. next_ts'[r] = Last(b) + 1
          BY <1>1, <1>2, <3>2
        <4> QED BY <1>3, <1>4, <3>1, <3>2, <4>1
      <3>3. CASE r # s
        <4>1. next_ts'[r] = next_ts[r]
          BY <1>1, <1>2, <3>3
        <4> QED BY <3>1, <4>1
      <3> QED BY <3>2, <3>3
    <2>2. ASSUME NEW r \in Senders PROVE QueueOK(r)'
      <3>1. QueueOK(r)
        BY DEF VanInv, PostedOK
      <3> QED BY <1>1, <3>1, Zenon DEF QueueOK
    <2> QED BY <1>1, <2>1, <2>2, Zenon DEF PostedOK
  <1>10. ASSUME NEW x \in wire PROVE x.batch # b
    <2>1. x.ts < next_ts[x.sender] /\ x.sender = x.batch.sender
          /\ x = Message(x.batch, x.ts)
      BY WireFacts
    <2>2. ASSUME x.batch = b PROVE FALSE
      <3>1. x.ts \in b.first .. Last(b)
        BY <2>2 DEF Inv, WireOK
      <3>2. x.ts < b.first
        BY <1>3, <2>1, <2>2
      <3> QED BY <1>4, <3>1, <3>2
    <2> QED BY <2>2
  <1>11. NonePassed'
    <2> SUFFICES ASSUME NEW x \in wire', NEW y \in wire', x.batch = y.batch,
                        IsPosted(x), ~IsPosted(y)
                 PROVE  x.ts < y.ts
      BY <1>6 DEF NonePassed
    <2>1. x \in wire
      BY <1>1, <1>7
    <2>2. y \in wire
      BY <1>1, <1>5, <1>10, <2>1
    <2> QED BY <2>1, <2>2 DEF VanInv, NonePassed
  <1>12. \A c \in Pending' : c = b \/ c \in Pending
    BY <1>1, <1>5 DEF Pending
  <1>13. ASSUME NEW m \in Messages(b), NEW x \in wire, x.sender = s,
                ~IsPosted(x), Slot(x) = Slot(m)
         PROVE  Slot(x) \in known[s]
    <2>1. x \in Unposted(s)
      BY <1>13 DEF Unposted
    <2>2. x # m
      BY <1>5, <1>13
    <2>3. CASE \A y \in Messages(b) : Slot(y) \in known[b.sender]
      BY <1>3, <1>13, <2>3
    <2>4. CASE \A y \in Messages(b) :
                 /\ Slot(y) \notin known[b.sender]
                 /\ \A z \in Unposted(b.sender) \union Messages(b) :
                       Slot(z) = Slot(y) => z = y
      BY <1>3, <1>13, <2>1, <2>2, <2>4
    <2> QED BY <1>1, <2>3, <2>4 DEF SettledCall
  <1>14. AllKnown(b)' \/ AllNew(b)'
    <2>1. CASE \A y \in Messages(b) : Slot(y) \in known[b.sender]
      <3>1. \A m \in wire' : m.batch = b => m \in Messages(b)
        BY <1>1, <1>10
      <3> QED BY <1>1, <1>3, <1>6, <1>7, <2>1, <3>1 DEF AllKnown
    <2>2. CASE \A y \in Messages(b) :
                 /\ Slot(y) \notin known[b.sender]
                 /\ \A z \in Unposted(b.sender) \union Messages(b) :
                       Slot(z) = Slot(y) => z = y
      <3> SUFFICES ASSUME NEW m \in wire', m.batch = b
                   PROVE  /\ Slot(m) \notin known[b.sender]
                          /\ \A x \in wire' :
                                x.sender = b.sender /\ ~IsPosted(x) =>
                                   (Slot(x) = Slot(m) => x = m)
        BY <1>1, <1>6 DEF AllNew
      <3>1. m \in Messages(b)
        BY <1>1, <1>10
      <3>2. ASSUME NEW x \in wire', x.sender = b.sender, ~IsPosted(x)
            PROVE  x \in Unposted(b.sender) \union Messages(b)
        BY <1>1, <3>2 DEF Unposted
      <3> QED BY <2>2, <3>1, <3>2
    <2> QED BY <1>1, <2>1, <2>2 DEF SettledCall
  <1>15. ASSUME NEW c \in Pending PROVE AllKnown(c)' \/ AllNew(c)'
    <2>1. c # b
      BY <1>10 DEF Pending
    <2>2. \A m \in wire' : m.batch = c => m \in wire
      BY <1>1, <1>5, <2>1
    <2>3. CASE AllKnown(c)
      BY <1>1, <1>6, <2>2, <2>3 DEF AllKnown
    <2>4. CASE AllNew(c)
      <3> SUFFICES ASSUME NEW m \in wire, m.batch = c, ~IsPosted(m),
                          NEW x \in Messages(b), x.sender = c.sender,
                          Slot(x) = Slot(m)
                   PROVE  FALSE
        BY <1>1, <1>6, <2>2, <2>4 DEF AllNew
      <3>1. m.sender = c.sender /\ c.sender = s
        BY <1>5, WireFacts
      <3>2. Slot(m) \in known[s]
        BY <1>13, <3>1
      <3> QED BY <2>4, <3>1, <3>2 DEF AllNew
    <2> QED BY <2>3, <2>4 DEF VanInv, OneWay
  <1>16. OneWay'
    BY <1>12, <1>14, <1>15 DEF OneWay
  <1> QED BY <1>8, <1>9, <1>11, <1>16 DEF VanInv

(***************************************************************************)
(* A worker's messages are told apart by their timestamps.                 *)
(***************************************************************************)
LEMMA SameMessage ==
    ASSUME BatchesEnd, Inv, NEW x \in wire, NEW y \in wire,
           x.sender = y.sender, x.ts = y.ts
    PROVE  x = y
  <1>1. /\ x.batch \in Pending /\ y.batch \in Pending
        /\ x.batch.sender = y.batch.sender
        /\ x = Message(x.batch, x.ts) /\ y = Message(y.batch, y.ts)
        /\ x.batch \in Batch /\ y.batch \in Batch
    BY WireFacts
  <1>2. /\ x.ts \in x.batch.first .. Last(x.batch)
        /\ y.ts \in y.batch.first .. Last(y.batch)
    BY DEF Inv, WireOK
  <1>3. /\ x.batch.first \in Nat /\ Last(x.batch) \in Nat
        /\ y.batch.first \in Nat /\ Last(y.batch) \in Nat
    BY <1>1, BatchFacts
  <1>4. ASSUME x.batch # y.batch PROVE FALSE
    <2>1. Last(x.batch) < y.batch.first \/ Last(y.batch) < x.batch.first
      BY <1>1, <1>4, Zenon DEF Inv, Disjoint
    <2> QED BY <1>2, <1>3, <2>1
  <1> QED BY <1>1, <1>4, Zenon

(***************************************************************************)
(* A post that passes no message of its batch keeps the order.             *)
(***************************************************************************)
LEMMA PostOrder ==
    ASSUME BatchesEnd, Inv, VanInv, NEW m \in wire, Post(m), wire' = wire,
           ~IsPosted(m), m.ts < sent'[m.sender],
           \A s \in Senders : sent'[s] \in Nat /\ sent[s] <= sent'[s],
           \A y \in wire : y.batch = m.batch /\ ~IsPosted(y) /\ y # m =>
              m.ts < y.ts
    PROVE  /\ posted' \in [Senders -> Seq(wire')]
           /\ \A s \in Senders : QueueOK(s)'
           /\ NonePassed'
           /\ \A x \in wire : IsPosted(x)' <=> IsPosted(x) \/ x = m
  <1>1. m.sender \in Senders /\ \A x \in wire : x.sender \in Senders
    BY WireFacts
  <1>2. /\ posted' \in [Senders -> Seq(wire')]
        /\ \A s \in Senders : s # m.sender => posted'[s] = posted[s]
        /\ Len(posted'[m.sender]) = Len(posted[m.sender]) + 1
        /\ \A i \in 1 .. Len(posted[m.sender]) :
              posted'[m.sender][i] = posted[m.sender][i]
        /\ posted'[m.sender][Len(posted[m.sender]) + 1] = m
    BY <1>1, PostFacts
  <1>3. \A x \in wire : IsPosted(x)' <=> IsPosted(x) \/ x = m
    BY <1>1, PostFacts
  <1>4. NonePassed'
    <2> SUFFICES ASSUME NEW x \in wire, NEW y \in wire, x.batch = y.batch,
                        IsPosted(x) \/ x = m, ~IsPosted(y), y # m
                 PROVE  x.ts < y.ts
      BY <1>3 DEF NonePassed
    <2> QED BY DEF VanInv, NonePassed
  <1>5. ASSUME NEW s \in Senders, s # m.sender PROVE QueueOK(s)'
    <2>1. posted'[s] = posted[s] /\ QueueOK(s)
      BY <1>2, <1>5 DEF VanInv, PostedOK
    <2>2. ASSUME NEW i \in 1 .. Len(posted[s])
          PROVE  posted[s][i].sender = s /\ posted[s][i].ts < sent'[s]
      <3>1. posted[s][i] \in wire /\ sent[s] \in Nat /\ posted[s][i].ts < sent[s]
        BY VanFacts
      <3>2. posted[s][i].ts \in Nat
        BY <3>1, WireFacts
      <3> QED BY <2>1, <3>1, <3>2 DEF QueueOK
    <2>3. QueueOK(s)' <=>
            /\ \A i \in 1 .. Len(posted[s]) :
                  posted[s][i].sender = s /\ posted[s][i].ts < sent'[s]
            /\ \A i, j \in 1 .. Len(posted[s]) : i < j =>
                  /\ posted[s][i] # posted[s][j]
                  /\ posted[s][i].batch = posted[s][j].batch =>
                        posted[s][i].ts < posted[s][j].ts
      BY <2>1 DEF QueueOK
    <2> QED BY <2>1, <2>2, <2>3, Zenon DEF QueueOK
  <1>6. QueueOK(m.sender)'
    <2> DEFINE p == posted[m.sender]
               q == posted'[m.sender]
               n == Len(posted[m.sender])
    <2>1. n \in Nat
      BY <1>1, VanFacts
    <2>2. /\ Len(q) = n + 1
          /\ \A i \in 1 .. n : q[i] = p[i]
          /\ q[n + 1] = m
      BY <1>2
    <2>3. ASSUME NEW i \in 1 .. n
          PROVE  /\ p[i] \in wire /\ p[i].sender = m.sender /\ p[i] # m
                 /\ p[i].ts < sent'[m.sender]
                 /\ p[i].batch = m.batch => p[i].ts < m.ts
      <3>1. /\ p[i] \in wire /\ p[i].sender = m.sender /\ IsPosted(p[i])
            /\ p[i].ts < sent[m.sender] /\ sent[m.sender] \in Nat
        BY <1>1, VanFacts
      <3>2. p[i].ts \in Nat
        BY <3>1, WireFacts
      <3>3. p[i].batch = m.batch => p[i].ts < m.ts
        BY <3>1 DEF VanInv, NonePassed
      <3> QED BY <1>1, <3>1, <3>2, <3>3
    <2>4. ASSUME NEW i \in 1 .. n, NEW j \in 1 .. n, i < j
          PROVE  /\ p[i] # p[j]
                 /\ p[i].batch = p[j].batch => p[i].ts < p[j].ts
      BY <1>1, <2>4 DEF VanInv, PostedOK, QueueOK
    <2> HIDE DEF p, q, n
    <2>5. ASSUME NEW i \in 1 .. Len(q)
          PROVE  q[i].sender = m.sender /\ q[i].ts < sent'[m.sender]
      <3>1. CASE i = n + 1
        BY <2>2, <3>1
      <3>2. CASE i # n + 1
        <4>1. i \in 1 .. n
          BY <2>1, <2>2, <3>2
        <4> QED BY <2>2, <2>3, <4>1
      <3> QED BY <3>1, <3>2
    <2>6. ASSUME NEW i \in 1 .. Len(q), NEW j \in 1 .. Len(q), i < j
          PROVE  /\ q[i] # q[j]
                 /\ q[i].batch = q[j].batch => q[i].ts < q[j].ts
      <3>1. i \in 1 .. n
        BY <2>1, <2>2, <2>6
      <3>2. CASE j = n + 1
        BY <2>2, <2>3, <3>1, <3>2
      <3>3. CASE j # n + 1
        <4>1. j \in 1 .. n
          BY <2>1, <2>2, <3>3
        <4> QED BY <2>2, <2>4, <2>6, <3>1, <4>1
      <3> QED BY <3>2, <3>3
    <2> QED BY <2>5, <2>6, Zenon DEF QueueOK, q
  <1> QED BY <1>2, <1>3, <1>4, <1>5, <1>6, Zenon

(***************************************************************************)
(* SendMsg posts a message of a batch that has nothing waiting, or begins  *)
(* a rendezvous for one of a batch whose messages all wait.                *)
(***************************************************************************)
LEMMA SendMsgVan ==
    ASSUME BatchesEnd, Inv, VanInv, NEW m \in wire, SendMsg(m)
    PROVE  VanInv'
  <1> DEFINE r == m.sender
  <1>1. /\ m.ts = sent[r]
        /\ sent' = [sent EXCEPT ![r] = @ + 1]
        /\ wire' = wire /\ next_ts' = next_ts /\ known' = known
    BY DEF SendMsg
  <1>2. /\ r \in Senders /\ m.ts \in Nat /\ m.ts < next_ts[r]
        /\ m.batch \in Pending /\ m.batch.sender = r
    BY WireFacts
  <1>3. next_ts[r] \in Timestamps /\ sent \in [Senders -> Timestamps]
        /\ Timestamps \subseteq Nat
    BY <1>2, ServerAssumption DEF Inv, ServerTypeOK, VanInv, VanTypeOK, Timestamps
  <1>4. /\ sent'[r] = m.ts + 1
        /\ \A s \in Senders : s # r => sent'[s] = sent[s]
        /\ \A s \in Senders : sent'[s] \in Nat /\ sent[s] <= sent'[s]
    <2>1. \A s \in Senders : sent[s] \in Nat
      BY VanFacts, Zenon
    <2>2. /\ sent'[r] = sent[r] + 1
          /\ \A s \in Senders : s # r => sent'[s] = sent[s]
      BY <1>1, <1>2, <1>3, Zenon
    <2> HIDE DEF r
    <2> QED BY <1>1, <1>2, <2>1, <2>2
  <1>5. sent' \in [Senders -> Timestamps]
    <2>1. m.ts + 1 \in Timestamps
      BY <1>2, <1>3, ServerAssumption DEF Timestamps
    <2> QED BY <1>1, <1>3, <2>1, Zenon
  <1>6. \A s \in Senders : sent'[s] <= next_ts'[s]
    <2> SUFFICES ASSUME NEW s \in Senders PROVE sent'[s] <= next_ts[s]
      BY <1>1
    <2>1. CASE s = r
      <3>1. next_ts[r] \in Nat
        BY <1>3, Zenon
      <3> QED BY <1>2, <1>4, <2>1, <3>1
    <2>2. CASE s # r
      BY <1>4, <2>2 DEF VanInv, PostedOK
    <2> QED BY <2>1, <2>2
  <1>7. ~IsPosted(m)
    <2> SUFFICES ASSUME NEW i \in 1 .. Len(posted[r]), posted[r][i] = m
                 PROVE  FALSE
      BY <1>2 DEF IsPosted
    <2>1. posted[r][i].ts < sent[r]
      BY <1>2, VanFacts, Zenon
    <2> QED BY <1>1, <1>2, <2>1
  <1>8. Pending' = Pending
    BY <1>1 DEF Pending
  <1>9. \A x \in wire : x.sender = r /\ x.ts = m.ts => x = m
    BY SameMessage
  <1>10. \A x \in wire : x.sender = x.batch.sender /\ x.sender \in Senders
                         /\ x.ts \in Nat
    BY WireFacts
  <1>11. CASE Slot(m) \in known[r]
    <2>1. Post(m)
      BY <1>11 DEF SendMsg
    <2>2. AllKnown(m.batch)
      <3>1. ~AllNew(m.batch)
        BY <1>2, <1>7, <1>11 DEF AllNew
      <3> QED BY <1>2, <3>1 DEF VanInv, OneWay
    <2>3. ASSUME NEW y \in wire, y.batch = m.batch, ~IsPosted(y), y # m
          PROVE  m.ts < y.ts
      <3>1. ~(y.ts < sent[r]) /\ y.sender = r /\ y.ts \in Nat
        BY <1>2, <1>10, <2>2, <2>3 DEF AllKnown
      <3>2. y.ts # m.ts
        BY <1>9, <2>3, <3>1
      <3> QED BY <1>1, <1>2, <3>1, <3>2
    <2>4. m.ts < sent'[r]
      BY <1>2, <1>4
    <2>5. /\ posted' \in [Senders -> Seq(wire')]
          /\ \A s \in Senders : QueueOK(s)'
          /\ NonePassed'
          /\ \A x \in wire : IsPosted(x)' <=> IsPosted(x) \/ x = m
      BY <1>1, <1>4, <1>7, <2>1, <2>3, <2>4, PostOrder
    <2>6. ASSUME NEW b \in Pending PROVE AllKnown(b)' \/ AllNew(b)'
      <3>1. CASE AllKnown(b)
        <4>1. ASSUME NEW x \in wire, x.batch = b, x.ts < sent'[b.sender]
              PROVE  IsPosted(x)'
          <5>1. x.sender = b.sender /\ x.ts \in Nat /\ b.sender \in Senders
            BY <1>10, <4>1
          <5>2. CASE x.ts < sent[b.sender]
            BY <2>5, <3>1, <4>1, <5>2 DEF AllKnown
          <5>3. CASE ~(x.ts < sent[b.sender])
            <6>1. b.sender = r
              BY <1>4, <4>1, <5>1, <5>3
            <6>2. x.ts = m.ts
              BY <1>1, <1>2, <1>4, <4>1, <5>1, <5>3, <6>1
            <6>3. x = m
              BY <1>9, <5>1, <6>1, <6>2
            <6> QED BY <2>5, <6>3
          <5> QED BY <5>2, <5>3
        <4> QED BY <1>1, <3>1, <4>1 DEF AllKnown
      <3>2. CASE AllNew(b)
        BY <1>1, <2>5, <3>2 DEF AllNew
      <3> QED BY <3>1, <3>2 DEF VanInv, OneWay
    <2>7. VanTypeOK'
      BY <1>1, <1>5, <2>5 DEF VanInv, VanTypeOK
    <2> QED BY <1>6, <1>8, <2>5, <2>6, <2>7, Zenon DEF VanInv, PostedOK, OneWay
  <1>12. CASE Slot(m) \notin known[r]
    <2>1. posted' = posted
      BY <1>12 DEF SendMsg
    <2>2. \A x : IsPosted(x)' <=> IsPosted(x)
      BY <2>1 DEF IsPosted
    <2>3. ASSUME NEW s \in Senders PROVE QueueOK(s)'
      <3>1. QueueOK(s)
        BY DEF VanInv, PostedOK
      <3>2. ASSUME NEW i \in 1 .. Len(posted[s])
            PROVE  posted[s][i].ts < sent'[s]
        <4>1. /\ posted[s][i] \in wire /\ posted[s][i].ts < sent[s]
              /\ sent[s] \in Nat
          BY VanFacts
        <4>2. posted[s][i].ts \in Nat
          BY <1>10, <4>1
        <4> QED BY <1>4, <4>1, <4>2
      <3> QED BY <2>1, <3>1, <3>2, Zenon DEF QueueOK
    <2>4. NonePassed'
      BY <1>1, <2>2, Zenon DEF VanInv, NonePassed
    <2>5. ASSUME NEW b \in Pending PROVE AllKnown(b)' \/ AllNew(b)'
      <3>1. CASE AllKnown(b)
        <4>1. b # m.batch
          BY <1>2, <1>12, <3>1 DEF AllKnown
        <4>2. ASSUME NEW x \in wire, x.batch = b, x.ts < sent'[b.sender]
              PROVE  x.ts < sent[b.sender]
          <5>1. x.sender = b.sender /\ x.ts \in Nat /\ b.sender \in Senders
            BY <1>10, <4>2
          <5>2. CASE b.sender = r
            <6>1. x.ts # m.ts
              BY <1>9, <4>1, <4>2, <5>1, <5>2
            <6> QED BY <1>1, <1>2, <1>4, <4>2, <5>1, <5>2, <6>1
          <5>3. CASE b.sender # r
            BY <1>4, <4>2, <5>1, <5>3
          <5> QED BY <5>2, <5>3
        <4> QED BY <1>1, <2>2, <3>1, <4>2 DEF AllKnown
      <3>2. CASE AllNew(b)
        BY <1>1, <2>2, <3>2 DEF AllNew
      <3> QED BY <3>1, <3>2 DEF VanInv, OneWay
    <2>6. VanTypeOK'
      BY <1>1, <1>5, <2>1 DEF VanInv, VanTypeOK
    <2> QED BY <1>6, <1>8, <2>3, <2>4, <2>5, <2>6, Zenon
            DEF VanInv, PostedOK, OneWay
  <1> QED BY <1>11, <1>12

(***************************************************************************)
(* The reply to the oldest rendezvous posts the next message of a batch    *)
(* whose messages all wait; no other of them waits for the same key.       *)
(***************************************************************************)
LEMMA ReplyVan ==
    ASSUME BatchesEnd, Inv, VanInv, NEW m \in wire, RendezvousReply(m)
    PROVE  VanInv'
  <1> DEFINE r == m.sender
  <1>1. /\ Post(m)
        /\ known' = [known EXCEPT ![r] = @ \union {Slot(m)}]
        /\ wire' = wire /\ next_ts' = next_ts /\ sent' = sent
        /\ \A x \in Waiting(r) : m.ts <= x.ts
    BY DEF RendezvousReply
  <1>2. /\ r \in Senders /\ m.ts \in Nat
        /\ m.batch \in Pending /\ m.batch.sender = r
    BY WireFacts
  <1>3. ~IsPosted(m) /\ m.ts < sent[r]
    BY DEF RendezvousReply, Waiting, Unposted
  <1>4. \A s \in Senders : sent[s] \in Nat
    BY VanFacts, Zenon
  <1>5. Pending' = Pending
    BY <1>1 DEF Pending
  <1>6. \A x \in wire : x.sender = x.batch.sender /\ x.sender \in Senders
                        /\ x.ts \in Nat
    BY WireFacts
  <1>7. ASSUME NEW y \in wire, y.batch = m.batch, ~IsPosted(y), y # m
        PROVE  m.ts < y.ts
    <2>1. y.sender = r /\ y.ts \in Nat
      BY <1>2, <1>6, <1>7
    <2>2. y.ts # m.ts
      BY <1>7, <2>1, SameMessage
    <2>3. CASE y.ts < sent[r]
      <3>1. y \in Waiting(r)
        BY <1>7, <2>1, <2>3 DEF Waiting, Unposted
      <3> QED BY <1>1, <1>2, <2>1, <2>2, <3>1
    <2>4. CASE ~(y.ts < sent[r])
      BY <1>2, <1>3, <1>4, <2>1, <2>4
    <2> QED BY <2>3, <2>4
  <1>8. /\ posted' \in [Senders -> Seq(wire')]
        /\ \A s \in Senders : QueueOK(s)'
        /\ NonePassed'
        /\ \A x \in wire : IsPosted(x)' <=> IsPosted(x) \/ x = m
    BY <1>1, <1>3, <1>4, <1>7, PostOrder
  <1>9. known \in [Senders -> SUBSET ({"push", "pull"} \X Keys)]
    BY DEF VanInv, VanTypeOK
  <1>10. /\ known' \in [Senders -> SUBSET ({"push", "pull"} \X Keys)]
         /\ known'[r] = known[r] \union {Slot(m)}
         /\ \A s \in Senders : s # r => known'[s] = known[s]
    BY <1>1, <1>2, <1>9, SlotType
  <1>11. VanTypeOK'
    BY <1>1, <1>8, <1>10 DEF VanInv, VanTypeOK
  <1>12. PostedOK'
    BY <1>1, <1>8, Zenon DEF VanInv, PostedOK
  <1>13. ASSUME NEW b \in Pending PROVE AllKnown(b)' \/ AllNew(b)'
    <2>0. b.sender \in Senders
      BY <1>6 DEF Pending
    <2>1. CASE AllKnown(b)
      <3>1. known[b.sender] \subseteq known'[b.sender]
        BY <1>10, <2>0
      <3> QED BY <1>1, <1>8, <2>1, <3>1 DEF AllKnown
    <2>2. CASE AllNew(b)
      <3> SUFFICES ASSUME NEW x \in wire, x.batch = b, ~IsPosted(x), x # m
                   PROVE  Slot(x) \notin known'[b.sender]
        BY <1>1, <1>8, <2>2 DEF AllNew
      <3>1. Slot(x) \notin known[b.sender]
        BY <2>2 DEF AllNew
      <3>2. CASE b.sender = r
        <4>1. Slot(m) # Slot(x)
          BY <1>3, <2>2, <3>2 DEF AllNew
        <4> QED BY <1>10, <3>1, <3>2, <4>1
      <3>3. CASE b.sender # r
        BY <1>10, <2>0, <3>1, <3>3
      <3> QED BY <3>2, <3>3
    <2> QED BY <2>1, <2>2 DEF VanInv, OneWay
  <1>14. OneWay'
    BY <1>5, <1>13 DEF OneWay
  <1> QED BY <1>8, <1>11, <1>12, <1>14 DEF VanInv

(***************************************************************************)
(* A delivery leaves the order of the rest.                                *)
(***************************************************************************)
LEMMA HandlerVan ==
    ASSUME BatchesEnd, Inv, VanInv, NEW m \in wire, KVHandler(m)
    PROVE  VanInv'
  <1>1. /\ wire' = wire \ {m} /\ next_ts' = next_ts
        /\ sent' = sent /\ known' = known
    BY DEF KVHandler
  <1>2. /\ m.sender \in Senders
        /\ posted' \in [Senders -> Seq(wire')]
        /\ \A s \in Senders : s # m.sender => posted'[s] = posted[s]
        /\ Len(posted'[m.sender]) = Len(posted[m.sender]) - 1
        /\ \A i \in 1 .. Len(posted'[m.sender]) :
              posted'[m.sender][i] = posted[m.sender][i + 1]
    BY TakeFacts
  <1>3. \A x \in wire' : IsPosted(x)' <=> IsPosted(x)
    <2>1. \A x \in wire' : x.sender \in Senders /\ x # m
      BY <1>1, WireFacts
    <2> QED BY <2>1, TakeFacts
  <1>4. Pending' \subseteq Pending
    BY <1>1 DEF Pending
  <1>5. VanTypeOK'
    BY <1>1, <1>2 DEF VanInv, VanTypeOK
  <1>6. ASSUME NEW s \in Senders PROVE QueueOK(s)'
    <2>1. QueueOK(s)
      BY DEF VanInv, PostedOK
    <2>2. CASE s # m.sender
      <3>1. posted'[s] = posted[s]
        BY <1>2, <2>2
      <3> QED BY <1>1, <2>1, <3>1, Zenon DEF QueueOK
    <2>3. CASE s = m.sender
      <3> DEFINE p == posted[s]
                 q == posted'[s]
      <3>1. /\ Len(p) \in Nat /\ Len(q) = Len(p) - 1
            /\ \A i \in 1 .. Len(q) : q[i] = p[i + 1]
        BY <1>2, <2>3, VanFacts
      <3>2. ASSUME NEW i \in 1 .. Len(q)
            PROVE  i + 1 \in 1 .. Len(p) /\ q[i] = p[i + 1] /\ i \in Int
        BY <3>1
      <3> HIDE DEF p, q
      <3>3. ASSUME NEW i \in 1 .. Len(q)
            PROVE  q[i].sender = s /\ q[i].ts < sent[s]
        BY <2>1, <3>2 DEF QueueOK, p
      <3>4. ASSUME NEW i \in 1 .. Len(q), NEW j \in 1 .. Len(q), i < j
            PROVE  /\ q[i] # q[j]
                   /\ q[i].batch = q[j].batch => q[i].ts < q[j].ts
        <4>1. i + 1 < j + 1
          BY <3>2, <3>4
        <4>2. /\ i + 1 \in 1 .. Len(p) /\ q[i] = p[i + 1]
              /\ j + 1 \in 1 .. Len(p) /\ q[j] = p[j + 1]
          BY <3>2
        <4>3. \A k, l \in 1 .. Len(p) : k < l =>
                 /\ p[k] # p[l]
                 /\ p[k].batch = p[l].batch => p[k].ts < p[l].ts
          BY <2>1, Zenon DEF QueueOK, p
        <4>4. /\ p[i + 1] # p[j + 1]
              /\ p[i + 1].batch = p[j + 1].batch => p[i + 1].ts < p[j + 1].ts
          BY <4>1, <4>2, <4>3, Zenon
        <4> QED BY <4>2, <4>4, Zenon
      <3> QED BY <1>1, <3>3, <3>4, Zenon DEF QueueOK, q
    <2> QED BY <2>2, <2>3
  <1>7. PostedOK'
    BY <1>1, <1>6, Zenon DEF VanInv, PostedOK
  <1>8. NonePassed'
    BY <1>1, <1>3 DEF VanInv, NonePassed
  <1>9. ASSUME NEW b \in Pending' PROVE AllKnown(b)' \/ AllNew(b)'
    <2>1. CASE AllKnown(b)
      BY <1>1, <1>3, <2>1 DEF AllKnown
    <2>2. CASE AllNew(b)
      BY <1>1, <1>3, <2>2 DEF AllNew
    <2> QED BY <1>4, <2>1, <2>2 DEF VanInv, OneWay
  <1> QED BY <1>5, <1>7, <1>8, <1>9 DEF VanInv, OneWay

-----------------------------------------------------------------------------
(***************************************************************************)
(* KVHandler preserves the invariant.                                      *)
(***************************************************************************)
LEMMA HandlerInv ==
    ASSUME BatchesEnd, Inv, VanInv, NEW m \in wire, KVHandler(m)
    PROVE  InOrder(m) /\ Inv' /\ HandsOver(m)
  <1>1. /\ posted[m.sender] # << >> /\ m = Head(posted[m.sender])
        /\ wire' = wire \ {m} /\ next_ts' = next_ts
    BY DEF KVHandler
  <1>2. InOrder(m)
    BY <1>1, WireFacts, HeadInOrder
  <1>3. HandleSingle(m) \/ HandleStart(m) \/ HandleReordered(m) \/ HandleLatest(m)
    BY DEF KVHandler
  <1> QED BY <1>1, <1>2, <1>3, SingleInv, StartInv, ReorderedInv, LatestInv

(***************************************************************************)
(* The steps that only move a message within the van leave KVHandler's     *)
(* half of the invariant alone.                                            *)
(***************************************************************************)
LEMMA SameInv ==
    ASSUME Inv, UNCHANGED <<next_ts, wire, serverVars>>
    PROVE  Inv' /\ Pending' = Pending /\ handled' = handled
  <1>1. UNCHANGED <<next_ts, wire, batch_data, reorder_buffer, responses, handled>>
    BY DEF serverVars
  <1>2. Pending' = Pending /\ \A meta, b : Holds(meta, b)' <=> Holds(meta, b)
    BY <1>1, Zenon DEF Pending, Holds
  <1>3. \A b : Kept(b)' <=> Kept(b)
    BY <1>1, <1>2, Zenon DEF Kept
  <1>4. ServerTypeOK' /\ WireOK'
    BY <1>1, Zenon DEF Inv, ServerTypeOK, WireOK
  <1>5. Disjoint' /\ Unique'
    BY <1>1, <1>2, Zenon DEF Inv, Disjoint, Unique
  <1>6. MetasOK' /\ StartedKept'
    BY <1>1, <1>2, <1>3, Zenon DEF Inv, MetasOK, StartedKept
  <1> QED BY <1>1, <1>2, <1>4, <1>5, <1>6, Zenon DEF Inv

(***************************************************************************)
(* Every step preserves both halves.                                       *)
(***************************************************************************)
LEMMA StepInv ==
    BatchesEnd /\ Settled /\ Inv /\ VanInv /\ [Next]_vars => Inv' /\ VanInv'
  <1> SUFFICES ASSUME BatchesEnd, Settled, Inv, VanInv, [Next]_vars
               PROVE  Inv' /\ VanInv'
    OBVIOUS
  <1>1. ASSUME NEW s \in Senders, NEW shape \in Shapes, ZBatchPushPull(s, shape)
        PROVE  Inv' /\ VanInv'
    BY <1>1, SendInv, SendVan
  <1>2. ASSUME NEW m \in wire, SendMsg(m) PROVE Inv' /\ VanInv'
    <2>1. UNCHANGED <<next_ts, wire, serverVars>>
      BY <1>2 DEF SendMsg
    <2> QED BY <1>2, <2>1, SameInv, SendMsgVan
  <1>3. ASSUME NEW m \in wire, RendezvousReply(m) PROVE Inv' /\ VanInv'
    <2>1. UNCHANGED <<next_ts, wire, serverVars>>
      BY <1>3 DEF RendezvousReply
    <2> QED BY <1>3, <2>1, SameInv, ReplyVan
  <1>4. ASSUME NEW m \in wire, KVHandler(m) PROVE Inv' /\ VanInv'
    BY <1>4, HandlerInv, HandlerVan
  <1>5. CASE UNCHANGED vars
    <2>1. UNCHANGED <<next_ts, wire, sent, known, posted, serverVars>>
      BY <1>5 DEF vars, vanVars
    <2>2. /\ Pending' = Pending
          /\ \A x : (IsPosted(x)' <=> IsPosted(x)) /\ Slot(x)' = Slot(x)
      BY <2>1, Zenon DEF Pending, IsPosted, Slot
    <2>3. VanTypeOK' /\ NonePassed'
      BY <2>1, <2>2, Zenon DEF VanInv, VanTypeOK, NonePassed
    <2>4. ASSUME NEW s \in Senders PROVE QueueOK(s)'
      <3>1. posted'[s] = posted[s] /\ sent'[s] = sent[s]
        BY <2>1, Zenon
      <3>2. QueueOK(s)
        BY Zenon DEF VanInv, PostedOK
      <3> QED BY <3>1, <3>2, Zenon DEF QueueOK
    <2>5. PostedOK'
      BY <2>1, <2>4, Zenon DEF VanInv, PostedOK
    <2>6. \A b : (AllKnown(b)' <=> AllKnown(b)) /\ (AllNew(b)' <=> AllNew(b))
      BY <2>1, <2>2, Zenon DEF AllKnown, AllNew
    <2>7. OneWay'
      BY <2>2, <2>6, Zenon DEF VanInv, OneWay
    <2> QED BY <2>1, <2>3, <2>5, <2>7, SameInv, Zenon DEF VanInv
  <1> QED BY <1>1, <1>2, <1>3, <1>4, <1>5, Zenon DEF Next, Progress

(***************************************************************************)
(* TypeOK is an invariant: KVHandler's state, and the queues of the van.   *)
(***************************************************************************)
THEOREM TypeCorrect == ASSUME BatchesEnd, Settled PROVE Spec => []TypeOK
  <1>1. Inv /\ VanInv => TypeOK
    BY DEF Inv, VanInv, TypeOK
  <1> QED BY <1>1, InitInv, InitVan, StepInv, PTL DEF Spec

(***************************************************************************)
(* KVHandler never reaches for the AFTensorMeta of a batch it does not     *)
(* have, however the van's rendezvous replies and the messages of several  *)
(* batches interleave.                                                     *)
(***************************************************************************)
THEOREM MetaFound == ASSUME BatchesEnd, Settled PROVE Spec => []NoNullMeta
  <1>1. ASSUME Inv, VanInv PROVE NoNullMeta
    <2> SUFFICES ASSUME NEW s \in Senders, posted[s] # << >>,
                        Head(posted[s]).cmd \in {Middle, End}
                 PROVE  Continues(Head(posted[s])) # {} \/ batch_data[s] # NoMeta
      BY DEF NoNullMeta
    <2>1. PICK m : m = Head(posted[s])
      OBVIOUS
    <2>2. m \in wire /\ m.sender = s /\ InOrder(m)
      BY <1>1, <2>1, HeadInOrder
    <2>3. Continues(m) = {} => batch_data[m.sender] # NoMeta
      BY <1>1, <2>1, <2>2, Holder
    <2> QED BY <2>1, <2>2, <2>3
  <1> QED BY <1>1, InitInv, InitVan, StepInv, PTL DEF Spec

(***************************************************************************)
(* Every AFTensorMeta that KVHandler keeps waits for a message that is on  *)
(* its way, so none is left behind.                                        *)
(***************************************************************************)
THEOREM NoLeak == ASSUME BatchesEnd, Settled PROVE Spec => []NoMetaLeak
  <1>1. ASSUME Inv, NEW c \in Pending, NEW meta, Holds(meta, c)
        PROVE  Awaited(meta)
    <2>1. /\ c \in Batch
          /\ meta.sender = c.sender
          /\ meta.last_timestamp + 1 \in c.first .. Last(c)
          /\ Message(c, meta.last_timestamp + 1) \in wire
      BY <1>1, HoldsFacts
    <2>2. /\ Message(c, meta.last_timestamp + 1).sender = c.sender
          /\ Message(c, meta.last_timestamp + 1).ts = meta.last_timestamp + 1
      BY <2>1, MessageFacts
    <2> QED BY <2>1, <2>2 DEF Awaited
  <1>2. Inv => NoMetaLeak
    BY <1>1 DEF Inv, MetasOK, NoMetaLeak
  <1> QED BY <1>2, InitInv, InitVan, StepInv, PTL DEF Spec

(***************************************************************************)
(* KVHandler implements BatchSpec: however the van's rendezvous and the    *)
(* messages of different batches and workers interleave, the request       *)
(* handle is called once for every batch, with the whole of it and nothing *)
(* else.                                                                   *)
(***************************************************************************)
THEOREM BatchRefinement == ASSUME BatchesEnd, Settled PROVE Spec => DeliversBatches
  <1>1. Init => Abstract!Init
    BY DEF Init, Pending, Abstract!Init
  <1>2. Inv /\ VanInv /\ [Next]_vars => [Abstract!Next]_<<Pending, handled>>
    <2> SUFFICES ASSUME Inv, VanInv, [Next]_vars
                 PROVE  [Abstract!Next]_<<Pending, handled>>
      OBVIOUS
    <2>1. ASSUME NEW s \in Senders, NEW shape \in Shapes, ZBatchPushPull(s, shape)
          PROVE  Abstract!Next
      <3>1. PICK b \in Batch : /\ b \notin Pending
                               /\ Pending' = Pending \union {b}
                               /\ handled' = handled
        BY <2>1, SendInv
      <3>2. Abstract!Send(b)
        BY <3>1 DEF Abstract!Send
      <3> QED BY <3>2 DEF Abstract!Next
    <2>2. ASSUME NEW m \in wire, SendMsg(m) \/ RendezvousReply(m)
          PROVE  UNCHANGED <<Pending, handled>>
      <3>1. UNCHANGED <<next_ts, wire, serverVars>>
        BY <2>2 DEF SendMsg, RendezvousReply
      <3> QED BY <3>1, SameInv
    <2>3. ASSUME NEW m \in wire, KVHandler(m)
          PROVE  [Abstract!Next]_<<Pending, handled>>
      <3>1. InOrder(m) /\ wire' = wire \ {m} /\ next_ts' = next_ts
        BY <2>3, HandlerInv, Zenon DEF KVHandler
      <3>2. /\ m.batch \in Batch /\ m.batch \in Pending
            /\ Pending' = IF m.ts = Last(m.batch) THEN Pending \ {m.batch}
                                                  ELSE Pending
        BY <3>1, NextMessage, Delivered
      <3>3. handled' = IF m.ts = Last(m.batch) THEN MetaOf(m.batch) ELSE handled
        BY <2>3, HandlerInv DEF HandsOver
      <3>4. CASE m.ts = Last(m.batch)
        <4>1. Abstract!Handle(m.batch)
          BY <3>2, <3>3, <3>4 DEF Abstract!Handle
        <4> QED BY <3>2, <4>1 DEF Abstract!Next
      <3>5. CASE m.ts # Last(m.batch)
        BY <3>2, <3>3, <3>5
      <3> QED BY <3>4, <3>5
    <2>4. CASE UNCHANGED vars
      BY <2>4 DEF vars, serverVars, Pending
    <2> QED BY <2>1, <2>2, <2>3, <2>4, Zenon DEF Next, Progress
  <1> QED BY <1>1, <1>2, InitInv, InitVan, StepInv, PTL
          DEF Spec, DeliversBatches, Abstract!Spec

=============================================================================
