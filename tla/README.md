# StepMesh in TLA+

StepMesh moves tensors between the attention nodes (*workers*) and the FFN nodes
(*servers*) of a disaggregated model.  This directory holds TLA+ models of its
coordination code, TLC configurations that check them on small instances, and
TLAPS proofs of the main results for every instance.  `PROJECT.json` maps every
definition to the lines it models.

    tlc -workers 2 -config Barrier.cfg MCBarrier     # model-check a run
    tlapm VanProofs.tla                              # check proofs

## The system and its parts

A job is one scheduler, some workers and some servers, each a process with one or
more *instances* (`DMLC_GROUP_SIZE`).  A worker calls `push_pull`: its tensors go to
one instance of every server group, every server's request handle computes, and the
answers come back into the worker's buffers.

| part | state | operations | who interacts |
|---|---|---|---|
| `ThreadsafeQueue` | ring of slots, `head_`, `tail_` (or a `std::queue` and a mutex) | `Push`, `WaitAndPop`, `Size` | user threads, sending, receiving and polling threads |
| `Postoffice` barriers | `barrier_done_`, the scheduler's `barrier_count_` and `group_barrier_requests_` | `DoBarrier`, `Manage`, `Process*BarrierCommand` | user thread and receiving thread of every node, the scheduler |
| `AFTensorWorker` | `pushpull_queue_`, `batch_timestamps_`, event pool | `ZBatchPushPull`, `Wait`, `PushPullWorker` | user threads, the sending thread |
| `AFTensorServer` | `batch_data_`, `reorder_buffer_`, `response_queue_`, event pool | `KVHandler`, `Response`, `ResponseWorker` | receiving thread, user thread, response thread |
| `KVWorker`, `KVServer` | `recv_kvs_`, `callbacks_`, request handle | `Send`, `Process`, `Response`, `RunCallback` | user threads, receiving thread |
| `Customer` | `tracker_` | `NewRequest`, `WaitRequest`, `AddResponse`, `DirectProcess` | user threads, receiving thread |
| fserver | `q_`, `q_signal_`, `meta_map_`, `handler_counter_` | `RequestHandler`, `get_batch`, `respond` | receiving thread, Python threads |
| `Resender` | `send_buff_`, `acked_` | `AddOutgoing`, `AddIncomming`, `Monitoring` | sending, receiving and monitoring threads |
| `Van` | membership, heartbeats, threads | `Start`, `Stop`, `Send`, `Receiving`, `ProcessAddNodeCommand*` | all nodes |
| `RDMAVan` | address cache, rendezvous buffers, connections | `SendMsg`, `RecvMsg`, `PollCQ`, `OnConnected`, `OnRejected` | polling and event threads |
| `ZMQVan` | `senders_`, ROUTER and DEALER sockets | `Bind`, `Connect`, `SendMsg`, `RecvMsg` | a thread per socket |
| `FabricVan` | endpoints, contexts, tags, address pools | `Connect`, `SendMsg`, `PollCQ`, `RecvMsg`, `Stop` | the thread of every endpoint |
| `UCXVan` | `client_eps_`, `server_eps_`, receive pool, reordering | `Connect`, `SendMsg`, `PollRx`, `ReorderMsg`, `RecvMsg`, `Stop` | sending, polling and reordering threads |

What is hard about them: threads meet in rings without locks; barrier answers name no
round; batches overtake each other on the wire; a mask is read before the lock that
protects what it describes; acknowledgements are lost; nodes die and come back;
threads are stopped while they wait.  `PROJECT.json` lists these hazards at their
lines with the properties that watch them.

What each part has to promise:

* a queue: elements come out in order, each once, and a push completes;
* a barrier: nobody leaves before everybody has entered, and everybody leaves;
* a server: the request handle sees exactly the batches that were sent, whole;
* fserver: the n-th `get_batch` returns the n-th request of every worker;
* a worker: `Wait` returns when, and only when, every answer of the batch is there;
* the resender: every message is processed once although messages are lost;
* membership: all nodes agree on distinct, contiguous ranks; a dead node's rank goes
  to one replacement;
* the RDMA, fabric and UCX vans: Connect returns, a message arrives once, with its own
  meta and its own tensor, and Stop returns.

## Modules

| module | models | abstract specification | proofs |
|---|---|---|---|
| `ThreadsafeQueue`, `LockedQueue` (`MCThreadsafeQueue`) | `include/ps/internal/threadsafe_queue.h` | `Fifo` | `MessagingProofs` |
| `Barrier` (`MCBarrier`) | barriers of `src/postoffice.cc` and `src/van.cc` | `BarrierSpec` | `VanProofs` |
| `AFTensorServer` (`MCAFTensorServer`) | batching of `include/ps/af_tensor_app.h` | `BatchSpec` | `AFTensorServerProofs` |
| `FServer` | `fserver/csrc/public.hpp` | `RoundSpec` | `FServerProofs` |
| `Resender` (`MCResender`) | `src/resender.h` and its calls in `src/van.cc` | `DeliverySpec` | `MessagingProofs` |
| `KVApp` | `src/customer.cc`, `include/ps/kv_app.h` | | `KVAppProofs`, `AFTensorAppProofs` |
| `AFTensorApp` (`MCAFTensorApp`) | the round trip of `include/ps/af_tensor_app.h`, on `KVApp` | | `AFTensorWorkerProofs`, `AFTensorResponderProofs`, `AFTensorAppProofs` |
| `NodeIds` | ids and ranks of `include/ps/internal/postoffice.h`, ids of `src/multi_van.h` | | `MessagingProofs` |
| `ZMQVan` | the sockets of `src/zmq_van.h` | | |
| `Membership` (`MCMembership`) | registration, recovery and shutdown of `src/van.cc` and `src/postoffice.cc`, on `ZMQVan` and `NodeIds` | | |
| `RDMAConnection` | `Connect` and connection events of `src/rdma_van.h` | | |
| `RDMAVan` (`MCRDMAVan`) | the data path of `src/rdma_van.h` and `src/rdma_transport.h`, on `RDMAConnection` | | |
| `FabricTransport` | `src/fabric_transport.h` | | |
| `FabricVan` | `src/fabric_van.h`, on `FabricTransport` | | |
| `UCXEndpoints` | `UCXEndpointsPool` of `src/ucx_van.h` | | `VanProofs` |
| `UCXVan` | the rest of `src/ucx_van.h`, on `UCXEndpoints` | | `VanProofs` |

A *run* below is an entry of `PROJECT.json`: a module, a `.cfg` and the properties it
checks.  Operators named as mutants in their comments are variants of an action with a
plausible mistake; with one of them in place TLC finds the property violated.

### ThreadsafeQueue

With `STEPAF_BUSY_POLL_ENABLE` (the default) `Push` and `WaitAndPop` work on a ring
without a lock.  Every load and store of an index and every access to a slot is an
action of its own (`LoadTail`, `CheckFull`, `WriteSlot`, `StoreTail`; `LoadHead`,
`ReloadHead`, `CheckEmpty`, `ReadSlot`, `StoreHead`), with the local variables of each
thread in `ptail`, `pval`, `chead`, `cval`.  The spin loops are the absence of
`CheckFull` or `CheckEmpty`.  The code's release stores and acquire loads order the
slot accesses with the indices, so interleaving the steps loses no behaviour for one
thread at each end.  `LockedQueue` is the class without busy polling: what a call does
under the mutex is a step, the wait on the condition variable and its notification are
steps of their own, and a sleeping thread may also wake up for no reason.
`MCThreadsafeQueue` chooses one of the two, as the constructor does.

* `queue`: `IsFifo` and `PushReturns` for the ring (one thread at each end, capacity 4,
  two values), `PopsGoOn` for the mutex-protected queue (two threads at each end).
  Capacity 4 holds three elements: the ring is empty, full, and wraps.  `MaxQueue`
  bounds the unbounded `std::queue` and nothing else.  That the mutex-protected queue
  is first-in first-out is not a property: its pushes and pops are those of `std::queue`.
* `queue_two_producers`: `PushAppends` fails.  `Push` is documented as thread-safe
  and is called by several threads in the ZeroMQ van and the multi-van.

Fairness: a thread inside `Push` keeps running, and a consumer is a loop around
`WaitAndPop`.  Nobody has to push, and nobody wakes up unless notified.

### Barrier

A node asks the scheduler and blocks; the scheduler counts requests and answers; the
receiving thread of the node sets `barrier_done_` and wakes the caller.  `DoBarrier`
up to the wait is one action because `barrier_mu_` is held until the wait releases it.
Requests are a set because a node has at most one under way; answers are a number per
node because nothing tells two of them apart.  `Callers` are the nodes that call a
barrier: those whose role `DoBarrier` admits, and for group barriers the `Leaders`.

* `barrier`: scheduler, two servers and two workers in instance groups of two, one
  caller per group; three overlapping barriers (that of fserver's `init`, a group barrier
  of everybody and one without the scheduler), each entered up to twice.  Two rounds
  suffice for the hazard: an answer or a flag of round one taken for round two.
  `IsBarrier`, `EverybodyLeaves`.

Fairness: receiving threads process what arrives and a woken caller runs.  Nobody has
to enter a barrier.  A run may end when all entries are used up.

### AFTensorServer

A push-pull call becomes one message per tensor with consecutive timestamps and a flag
(`Cmd`).  `KVHandler` puts a batch together again.  A message's `batch` field is
not on the wire; it only lets the properties speak of the batch a message came from.

Between the two is as much of the RDMA van as decides the order.  `SendMsg` posts a
message at once when the van knows its key and direction (`known`: `push_addr_`,
`pull_addr_`); otherwise it begins a rendezvous and returns, and `PollCQ` posts the message
when the reply comes (`RendezvousReply`), the oldest first.  So batches overtake each
other.  So do the messages of one batch, if the van knows the key of one and not of
another, or if a key that is still waiting is used again: then an END may come before its
START, and `KVHandler` uses a null `AFTensorMeta` (the table of *Where code and documents
disagree*).  The model therefore has a constant `Settled`: the program makes a call only
when all of its keys are known to the van, or all are new, different and not in use
(`SettledCall`).  A first round of calls and a `Wait` before the next one is such a program.

* `batches`: two workers with overlapping timestamps, settled calls of shapes push 1 pull 1,
  push 2 pull 1, pull 1 over three keys; one worker allocates 7 timestamps, enough for three
  batches that overlap, the other 2: `DeliversBatches`, `EveryBatchHandled`.

Fairness: the sending, the polling and the receiving thread run on.

### FServer

`RequestHandler` queues a request and sets the worker's bit of `q_signal_`; `get_batch`
spins on `q_signal_`, then takes one request of every worker under the lock.  The spin
and the locked section are two actions (`SpinExit`, `TakeBatch`), so everything can
happen between them.  A `uint64_t` is the set of its one bits; shifts are those of the
x86 build, with the width of an `int` a constant.  `respond` is called with handlers
`get_batch` returned, once each.

* `fserver`: two workers, three requests each, a 3-bit `int`: `NoEmptyPop`,
  `ServesRounds`, `EveryRoundServed`.

Fairness: the Python thread calls `get_batch` again and again and answers what it got.

### Resender

A message is one call of `Van::Send` by the program.  `SendMsg` and `AddOutgoing` are
two steps, so an acknowledgement can overtake the second; `Monitoring` is `Collect`
under the lock and then `MonitorSendMsg` and `MonitorAddOutgoing` for each message, so
a message can be put back after it was acknowledged.  `AddIncomming` and the processing
of a message are one step of the receiving thread.  The van is a number of copies per
message; any copy, and any acknowledgement, may be delivered or dropped next.  Entries
are late whenever `Collect` says so: clocks are left out.

* `resender`: a worker sends two messages to a server, and so does the scheduler one
  before its own resender exists; one loss, `max_num_retry_` 2 instead of 10.
  `DeliversOnce`, `EverythingProcessed`.
  `MaxCopies` keeps the copies on the way finite: a message that is put back starts its
  retries anew, so the code bounds them only by time.

Fairness: threads run and the van delivers (weak fairness); every round of the monitor
looks at every entry, and an entry that is there in infinitely many rounds has become
late in one (strong fairness of `Collect` for each message).  The losses are finite.

### KVApp and AFTensorApp: a call from beginning to end

`KVApp` is one worker's tracker (`NewRequest`, `WaitRequest`, `DirectProcess`), the
slicing, responses and callbacks of `KVWorker`, and the servers' request handle.
`AFTensorApp` adds `ZBatchPushPull`, the sending thread, `batch_timestamps_`, the event
pools of both sides, `Response`, `ResponseWorker` and the destructors.  The program's
thread, the receiving thread, the sending thread, the servers' threads and the GPUs
interleave freely.  A value is the set of pushes it is the sum of; the GPU is a counter
of finished work.  `tracker_` is a `std::vector` that `NewRequest` may move while it is
read without the lock: that step is undefined behaviour and the model ends there with
`raced`; `RaceNeedsOverlap` says when it can happen.

The program of a server answers the calls in the order they came in, as fserver's
`get_batch` hands them out: `RespondSingle` for a call of one message, `RespondVec(s, k)`
for the first `k` others, with one piece of GPU work and one event for all `k` responses
(`need_event` of `respond` is true for the first only).  `respond` checks that a call has as
many pulls as tensors to return, and `respond_vec` returns one: so the calls have one pull
or are a single push (`AFAssumption`).

* `pushpull`: `app` is chosen in `Init`: plain `Push` and `Pull`, or batches, with one and
  two servers, with requests that may overlap: up to three `Push` and `Pull` with one server
  and two with two, or two calls with four timestamps and two; one server crash.
  `PartsReceived` and `BatchAnswered` (what a returned `Wait` means: for a plain pull, that
  the parts are in `recv_kvs_`),
  `RaceNeedsOverlap`, `SentReady` and `EventsAccounted` (events are not mixed up and not
  lost), `NothingDropped`, `WaitEnds` (with what may end the process instead),
  `ResponderEnds`.
  `NumEvents` 1 makes the pools run out and grow; `MaxRequests` bounds the timestamps by
  the number of servers, and `MaxCalls` the calls.
* `pull_values`: `PullFills` fails.  `Wait` of a plain pull returns and the program's `vals`
  are as they were.

Fairness: some thread that can run runs, the GPU gets on, and `WaitRequest` times out when
a server is down.  A timeout without a crash is possible but not assumed.

### Membership over ZMQVan

`ZMQVan` has the sockets: one ROUTER bound by every process, a DEALER per peer, and a
polling thread per socket.  What was sent to an address nobody is bound to reaches the
next process that binds it.  `Membership` is `Van::Start`, `Stop`, `Receiving` and
`Heartbeat`, the ADD_NODE, heartbeat and TERMINATE handlers, and `Postoffice`'s
customers and dead nodes.  The scheduler sorts the registered nodes, gives ids by
`NodeIds`, and later gives the id of a dead node to one that registers again.  Heartbeats
that find an id fresh change nothing and are left out; the timeout passes (`Expire`) only
for a process that no longer sends them.

* `membership`: the deployments of `MCMembership`: one or two servers that crash and come
  back at their own, another's or a new address; two recoveries; a worker with two
  customers on one address; every order of ranks.  `IdsDistinct`, `RoutesAgree`
  (sockets and answers), `CrashContained` (which processes one crash may bring down),
  `StartEnds`, `StopEnds`.

Fairness: as long as some thread can run, one does.  Crashes, restarts and the program's
calls are never forced.

### RDMAConnection and RDMAVan

`RDMAConnection` is the loop of `Connect` against the event threads of both nodes, queue
pair by queue pair, with rejected and lost connections.  `RDMAVan` is the data path over
one connection: rendezvous, the address cache, the address pool, the two halves of a
message on two queue pairs, GPU buffers, and the shared-memory transport with its copy
thread.  The network card executes the work of a queue pair in order and completes it in
any order between queue pairs.  `SendPushRequest` in halves is four steps (the counter is
loaded, `CountSlave`, `PostFirst`, `PostSecond`) of the program's thread or of `PollCQ`,
which sends the first message of a key; the two overlap.

* `rdma`: one and two queue pairs, host, GPU and shared memory, worker and server as the
  sender, without and with `STEPMESH_SPLIT_QP_LAG`; one failed attempt.  Whole tensors: one
  key sent twice, from either of two tensors where the host copies, and one control message.
  In halves: two keys and three messages from a worker, one key and two messages else.
  Two messages of a key are a rendezvous and a use of the cache; more use the cache again.
  `ConnectedMeansUp`, `Intact` (meta and number of every message; its data if the key is
  pushed from its first tensor and no two threads sent halves at once), `ResourcesKept`
  (posted receives and pool entries), `ConnectReturns`, `EverythingReceived`.

`SlaveBit` stands for 0x8000 and `kMaxEntries` for the 10240 entries of the pool.  The
program sends once the connection is good: every attempt succeeded and its events are
handled.  Fairness: the event thread, the polling threads and the receiving thread run;
failures are not forced.

### FabricTransport and FabricVan

Two nodes exchange endpoint names over the inner ZeroMQ van; every endpoint has a thread.
The first message of a key and a direction takes a rendezvous that yields a tag; the send
context is kept with the key and packed again for every later message: with the new meta
and the address of the first message's tensor.  Messages are
sent in place, so `wire` refers to a buffer and what arrives is what it holds then.
`recv_buffers_` is a ring for one producer; two threads of a node in its `Push` end the
model with `raced`.

* `fabric`: three calls on one key (push and pull), whose tensor is in one of two places at
  each end, one control message, both orders of connecting.  `Intact` (the tensor of a
  message is its own if it is where that of the first message was), `ContextsKept`,
  `CallsEnd`, `StopEnds`.  The program has one call of a key and a kind at a time.

Fairness: as long as some thread or the fabric can take a step, one is taken.

### UCXEndpoints and UCXVan

`UCXEndpoints` is how endpoints are created, answered, made again by the error handler
and erased: an attempt fails, a connection that is up fails at any time, and a server
crashes and is started again, after which the lists of the scheduler come in any order
with the error handlers.  `UCXVan` is the threads
that send (a sequence id is taken under a lock, the messages are sent outside it, at once
or through `tx_reqs_`), the
receives that complete in any order, the receive buffers, the thread that puts requests
back in order, and `Stop`.  What is sent without an endpoint, or was under way on a
connection that fails, is lost (`dropped`).  `tx_reqs_` is a ring for one producer: two
threads in its `Push` end the model with `raced`, as does an entry of `client_eps_` that is
erased while `Create` waits.

* `ucx`: push and pull on key 1, push on key 2 (so three threads may send), small and
  large tensors, with and without `BYTEPS_UCX_FORCE_REQ_ORDER` and queued sends; three
  calls without a fault and one after or before one, one failed attempt or connection and one
  restart.  (With two calls beside a fault the run passes too, with 11 million states.)
  Sequence ids are taken modulo `SidCount` 3 and start
  at 2, so that they wrap.  `Intact`, `OrderKept`, `EndpointsKept`,
  `ConnectEnds`, `CallsEnd`, `StopEnds`.

The server restarts before the first call and not with forced order: a restarted server
expects sequence id 0 of a worker that goes on counting (`ucx_van.h:1278`).  Fairness: as long as some thread can take a step, one does.

## Proofs

Five components, each in a section of its own of `MessagingProofs` (queue, resender),
`VanProofs` (barriers), `AFTensorServerProofs` or `FServerProofs`, have an inductive
invariant `Inv` (`QueueInv` for the queue), proved once per action, and
from it one theorem per safety property and one refinement theorem.  Each theorem
states its hypotheses on the constants; they are what the code's callers guarantee.

| theorems | hypothesis | what the inductive invariant adds |
|---|---|---|
| `QueueTypeCorrect`, `RaceFreedom`, `FifoRefinement` | `OneThreadPerEnd` | the local copies equal the shared indices where it matters: a producer that has loaded `tail_` still sees the current one, its slot is outside the ring's contents from `CheckFull` on, and a written slot holds its value until published |
| `TypeCorrect`, `AnswersMeetTheirCall`, `BarrierSafety`, `BarrierRefinement` | `OneCallerPerGroup` | a blocked node is in exactly one place: its request is on the way, counted, or answered; and the rounds of any two callers differ by at most the one that is being counted |
| `TypeCorrect`, `MetaFound`, `NoLeak`, `BatchRefinement` | `BatchesEnd`, `Settled` | for every batch under way with a missing prefix, exactly one `AFTensorMeta` holds that prefix, the latest started batch of a worker is the only one outside the reorder buffer, and the timestamps of a worker's batches do not overlap; for the van (`VanInv`): no posted message has passed an unposted one of its batch, and every batch goes one way, its sent messages all posted with known keys, or its unposted ones all waiting for different new keys; the order within a batch (`InOrder`) follows |
| `TypeCorrect`, `QueuesNotEmpty`, `AnswersAreUnique`, `RoundRefinement` | `FitsMask`, `OneConsumer` | a worker's bit is set exactly when its queue is not empty, the queue holds its requests from the current round on, and handlers are distinct |
| `TypeCorrect`, `Retained`, `DuplicatesOnly`; `AtMostOnce`, `DeliveryRefinement` | `KeysFit`; and `NoLateReceiver` | an acknowledgement under way, and a key in `acked_`, belong to a processed message, and keys are injective (which needs one customer, see below): so an acknowledgement erases a processed message and nothing else; without late receivers every processed message has its key in `acked_` |

`AFTensorAppInv` defines one inductive invariant, `IInv`, for the round trip of both
applications.  `KVAppProofs` proves that the steps of `KVWorker` and `KVServer` preserve it,
`AFTensorWorkerProofs` those of the program and the sending thread of `AFTensorWorker`,
`AFTensorResponderProofs` the responses of `AFTensorServer`, and `AFTensorAppProofs` its
handler and the answers.  `AFTensorAppProofs` puts them together and proves from `IInv`
every safety property of `pushpull`: `PartsReceived`, `BatchAnswered`, `SentReady`,
`EventsAccounted`, `NothingDropped` and `RaceNeedsOverlap` (theorems `PartsReceivedHolds`
and so on).  They hold for every number of servers, every
bound on requests, calls and crashes, every size of the event pools and every set of calls
that `AFAssumption` allows.  None of the properties is inductive.  What `IInv` adds:

* *Every answer is in one place* (`Counted`, `Once`).  Server `s` owes `ts` while the request is
  unsent, under way or waiting in the server, and then its answer is under way.  The
  responses counted, the servers for which one of these holds and the response between
  `Process` and its count always add up to `num_servers`.  So a finished request has no
  answer outstanding, although a response carries nothing but its timestamp.
* *One order* (`Calls`, `Chain`, `InOrder`, `Waiting`, `Responses`).  Timestamps go from the
  program through `pushpull_queue`, the sending thread, `to_server`, `batch_data`, `pending`
  and `response_queue` in increasing order, with one position between any two stages
  (`Enqueued`, `Sent`, `Handled`, `Begun`).  What a stage holds is determined by these
  positions and the table of requests; that makes a batch whole, with its own pushes.
* *An event covers what follows it* (`WorkerEvents`, `PoolKept`).  Occupied events of the
  queued entries are distinct and hold their work.  A queued response without an event has
  one before it in the queue that recorded work at least as late, or its work is done.  The
  events without an owner (`Orphans`) are at most the single pulls already answered.
* *A stop comes after the last answer* (`Waits`, lemma `AllAnswered`): when the program has
  waited for everything, all stages are empty.
* For `KVWorker` (`KVMessages`, `KVSeen`, `KVGot`): the pushes seen before a request was made
  are in the store of every server with keys of them, and a pull has exactly one part from
  a server that owes it nothing.

Lemmas with the prefix `Frame` say what a step that leaves some variables alone preserves;
then there is one lemma per action, and `KVNext`, `AFNext` and `NextIInv` combine them.
`GetEventFree` and `Least` replace the induction that `CHOOSE` of the first released event
asks for by a minimal element.

Two more results:

* `EndpointsKeptHolds` in `VanProofs`, for every set of keys and every bound: `EndpointsKept`.
  Its invariant (`Entries`) says what the state of a connection implies for the entry in
  `client_eps_`, its flag and `Connect`: an attempt is under way only for an entry that
  `Create` waits for; a connection that is up has an entry that is connected; and one that
  is down is still to be made by `Connect`, or by a list that is on its way, or is `lost`.
* The node ids in `MessagingProofs`, for every rank, group size and port: `RankRoundTrip`, `IdsUnique`,
  `GroupRoundTrip`, `InstancesUnique`, `ManagedRoundTrip`.  They rest on two lemmas about
  quotient and remainder.  `ManagedRoundTrip` needs ids below 1000.

The five components of the table have properties that the runs leave to the proofs, because the
theorem is about every instance: the type invariants (`QueueTypeCorrect`, `TypeCorrect`), `NoSlotRace`
(`RaceFreedom`), `NoStrayResponse` and `NobodyLeavesEarly` (`AnswersMeetTheirCall`,
`BarrierSafety`), `NoNullMeta` and `NoMetaLeak` (`MetaFound`, `NoLeak`), `AnsweredOnce`
(`AnswersAreUnique`), `NothingForgotten`, `DropsOnlyDuplicates` and `ProcessedOnce`
(`Retained`, `DuplicatesOnly`, `AtMostOnce`).  Each hypothesis of the table is needed: see
*Where code and documents disagree*.

Only model-checked: every liveness property (fairness is out of the prover's reach), and
the safety properties of `Membership`, `RDMAVan`, `FabricVan` and of `UCXVan` other than
`EndpointsKept`.  `OrderKept` is about `SelectSeq` of a queue, and what a recursive
definition gives for every sequence needs induction, which the provers do not do.  For the
others no inductive invariant has been written: it would have to say, for every message or
connection, in which of the queues, buffers and receives it is.  `WaitEnds` has a part that is safety (a complete request never ends the
process); it is checked with the rest of it.

## Where code and documents disagree

`queue_two_producers` and `pull_values` are runs.  The others are instances on which a property of the
module fails; take the run's `.cfg`, change the constants as given, and check that property.

| code | instance | property that fails | what happens |
|---|---|---|---|
| `threadsafe_queue.h:109`, "threadsafe" at `:35` | run `queue_two_producers` | `PushAppends` | two threads write one slot and an element is lost |
| `kv_app.h:771`, `customer.cc:78`; `kv_app.h:176-178`, `:205-206` | run `pull_values` | `PullFills` | `NumResponse` is the number of responses expected, so the callback that fills `vals` never runs |
| `van.cc:433`; `ut_tensor_worker.cc:18` calls the group barrier from every instance | `Barrier.cfg`, `Leaders <- MCNode` | `NobodyLeavesEarly` | the instances of one group release each other while no server has entered |
| `af_tensor_app.h:357`; `:92-93` promise the pulled tensors | `AFTensorServer.cfg`, `Shapes <- PullOnly`, `NumServers = 2` | `EveryBatchHandled` | no message of the batch carries the END flag, and it never reaches the handle |
| `rdma_van.h:342`; `af_tensor_app.h:87` "a batch operation" | `AFTensorServer.cfg`, `Settled = FALSE` | `NoNullMeta` | a message with a known key passes one of its batch that waits for a rendezvous; an END without START is added to a null `AFTensorMeta` (`:668`) |
| `public.hpp:180`; `docs/python.md:30` | `FServer.cfg`, `num_worker = 32`, `Width = 32` | `NoEmptyPop` | the mask is computed in `int` and is 0 |
| `van.cc:645`; `resender.h:52` | `Resender.cfg`, `Message <- OneMessage` | `DeliversOnce` | a message that comes before the receiver's resender exists is processed again when it is repeated |
| `resender.h:99`; `:52` | `Resender.cfg`, `Message <- TwoWorkersMessages`, `Node = {1, 9, 265}` | `DropsOnlyDuplicates` | ids are cut to eight bits, and the second worker's message is dropped as a duplicate; timestamps from 2^30 on have the same effect |
| `resender.h:96-106`; `:52` | `Resender.cfg`, `Message <- TwoCustomersMessages` | `EverythingProcessed` | the key has no customer, and two customers of a node count timestamps from 0: the second one's message is dropped as a duplicate |

## What the models leave to the reader

Facts seen while translating that shape the models or bound what the runs mean.

*Push-pull.*  The answer to a single pull is not synchronised with the GPU, and its event
stays occupied: `SentReady` and `EventsAccounted` say so.  A pull-only batch for several
servers is excluded from `pushpull` for the reason in the table.

*Membership.*  A crash before everybody has registered is not handled.  A node that
registers again before its predecessor's heartbeat has timed out is ignored and waits in
`Start`.  `recovery_nodes` is never cleared, so a second recovery fails the check at
`van.cc:293`; the properties exclude two dead processes where they must.  With two dead
nodes of a role the first dead id is given, whichever node came back (`Moved`).  A server
that comes back at another address makes ZeroMQ workers abort (`zmq_van.h:148`, `:372`), as
does a worker with two customers at a new address.  A restarted server may get requests
before it has an id (`van.cc:460`).  An answer to a worker that left fails the server,
and one to a crashed worker may reach its replacement.  A recovery list queued for a dead
peer can make a restarted process ready without an id, whose heartbeat ends the scheduler.

*RDMA.*  `Endpoint::Init` posts receives only the first `QP_NUM` times
(`rdma_transport.h:224-229`): after a failed attempt the connection has none, which is why
data is sent over good connections.  With two queue pairs the order of CONNECT_REQUEST
events decides the place of an id, and `ConnectedMeansUp` holds only without failures.
With two queue pairs the handlers share one counter (`inComingCount`): if a connection is
established between the two routes, `Connect` may wait for ever, and with
`STEPMESH_SPLIT_QP_LAG` `SetQPLag` uses a queue pair that does not exist
(`rdma_transport.h:240`); `ConnectReturns` excludes this order (`CountersAgree`).  If the
ends number the queue pairs differently, `PollCQ` posts receives on the wrong one
(`rdma_van.h:894`); `GoodConnection` excludes it.  A key pushed from another tensor than
the first arrives with the bytes of the first (`rdma_transport.h:596`), although
`kv_app.h:128` takes any `vals`.  When the program sends a tensor in halves while `PollCQ`
does, the counter of halves (`:622`) does not say whose half has come, and a message may
be handed out incomplete.  `Intact` excludes both.
Control messages share a slot with key 0 (`rdma_van.h:360`); pool entries are never
released (`van_common.h:109`); the polling thread can wait for a reply context that only
it can release (`rdma_transport.h:523`), which the instance's depths avoid; an index from
0x8000 on is read as a second half (`rdma_van.h:816`); a copy of length 0 is dropped
(`rdma_transport.h:992`).

*Fabric.*  A later message of a key is sent from the address of the first one's tensor, and
a pull response is received at the address of the first pull (`fabric_van.h:588-598`):
`Intact` excludes keys that moved.  The threads of two endpoints push to `recv_buffers_`
without a lock (`fabric_van.h:486`): a message of the peer and one to the node itself, such
as TERMINATE, may meet there.  `StoreRemoteContext` queues the context of a first message twice;
`SendRendezvousBegin` waits, in the thread that would release them, when 128 contexts are
outstanding; control messages share the context of key 0 and take a pool entry each; a
message received after `should_stop_` ends the polling before TERMINATE is sent, and `Stop`
then hangs (`cut`); a receive is posted again before `RecvMsg` has read the buffer, which
is safe with one call of a key and a kind at a time.

*UCX.*  `MAX_SID_COUNT` is `1 << 31`, an `int` overflow: ids wrap to 0 only if the build
wraps.  A send that fails has used up a sequence id.  The callers of `Send` push to `tx_reqs_`
without a lock (`ucx_van.h:1107`, `:1170`), although `kv_app.h:144` says "This function is
thread-safe".  A connected endpoint that fails is erased (`:324-330`) and not made again:
`Find` gives null, messages are dropped with an error in the log, and a call waits for its
timeout.  If a new node list comes before the error handler has erased the old entry,
`Create` returns at once (`:160`) with an endpoint that is broken.  `Create` goes through
`client_eps_` without the lock (`:188`), and waits on an entry that the error handler may
erase.  A restarted server expects sequence id 0 (`:1278`).  Two outstanding pushes of one
key could exchange their data (`:790`); the program has one.

## Not modelled

* Weak-memory effects beyond one thread at each end of a ring.
* The TensorPipe van, and MultiVan beyond its ids: a van for tests over several ZeroMQ
  vans.
* `PackMeta` and `UnpackMeta`: they copy fields; messages are records here.
* The wrappers of fserver and `SimpleNotify`; a second thread in `get_batch` is outside
  the hypothesis `OneConsumer`.
* The scheduler's own `Stop`; instance groups in `Membership`.
* Memory registration, device set-up and clean-up of the vans, network device
  discovery, GPU kernels, launch scripts and utilities: library calls and I/O without
  shared state of their own.
* Several customers in `Barrier`; shared addresses are in `Membership` only.
* Tensor contents, logging, tracing and performance settings.
