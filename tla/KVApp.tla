-------------------------------- MODULE KVApp --------------------------------
(***************************************************************************)
(* Requests and their responses: the tracker of Customer (src/customer.cc) *)
(* and KVWorker and KVServer (include/ps/kv_app.h), for one worker and the *)
(* servers it talks to.  Three threads of the worker take part: the        *)
(* program's, the van's receiving thread, which runs DirectProcess, and,   *)
(* with AFTensorWorker, the one that sends.  The van keeps the order of    *)
(* the messages between two nodes.                                         *)
(*                                                                         *)
(* A value is the set of the pushes that it is the sum of.  tracker_ is    *)
(* read without its lock: when NewRequest is moving it meanwhile, the      *)
(* behaviour is undefined, and the model ends there, with raced.           *)
(***************************************************************************)
EXTENDS Integers, Sequences, FiniteSets

CONSTANTS Apps,        \* "kv": KVWorker and KVServer; "af": AFTensor...
          ServerCounts,\* values of num_servers()
          MaxRequests, \* bound: requests, by the number of servers
          MaxCalls,    \* bound: calls, by the application
          MaxCrashes,  \* bound: servers that crash
          Null

(* What a server sends back: request, timestamp, and the value of a pull.  *)
KVReply == [op : {"push", "pull"}, ts : Nat, val : SUBSET Nat]

ASSUME KVAssumption ==
    /\ Apps \subseteq {"kv", "af"}
    /\ ServerCounts \subseteq Nat \ {0}
    /\ MaxRequests \in [ServerCounts -> Nat]
    /\ MaxCalls \in [Apps -> Nat]
    /\ MaxCrashes \in Nat
    /\ Null \notin KVReply

VARIABLES app, num_servers,
          tracker,   \* tracker[ts + 1]: count and response_count
          requests,  \* requests[ts + 1]: what the program asked for
          growing,   \* NewRequest is moving tracker_ to a larger array
          raced,     \* tracker_ was read meanwhile
          aborted,   \* "no", or why the worker's process ended
          pc, cur,   \* where the program is, and its call
          expired,   \* the timeout of the request it waits for is over
          waited,    \* the timestamps whose Wait has returned
          callbacks, \* callbacks_: the timestamps with a callback
          recv_kvs,  \* recv_kvs_[ts]: parts received for a pull
          filled,    \* pulls whose callback filled the program's values
          to_server, to_worker,  \* messages under way, by server
          rcv,       \* the response between Process and its count
          store,     \* store[s] of the KVServerDefaultHandle of server s
          down       \* servers that crashed

confVars == <<app, num_servers>>
tableVars == <<tracker, requests, growing>>
endVars == <<raced, aborted>>
programVars == <<pc, cur, expired, waited>>
pullVars == <<callbacks, recv_kvs, filled>>
netVars == <<to_server, to_worker>>
peerVars == <<store, down>>
kvVars == <<confVars, tableVars, endVars, programVars, pullVars, netVars, rcv,
            peerVars>>

Servers == 1 .. num_servers
Timestamps == 0 .. Len(tracker) - 1

KVInit ==
    /\ app \in Apps
    /\ num_servers \in ServerCounts
    /\ tracker = <<>> /\ requests = <<>>
    /\ growing = FALSE /\ raced = FALSE /\ aborted = "no"
    /\ pc = "idle" /\ cur = Null
    /\ expired = FALSE
    /\ waited = {}
    /\ callbacks = {}
    /\ recv_kvs = [ts \in 0 .. MaxRequests[num_servers] - 1 |-> <<>>]
    /\ filled = {}
    /\ to_server = [s \in Servers |-> <<>>]
    /\ to_worker = [s \in Servers |-> <<>>]
    /\ rcv = Null
    /\ store = [s \in Servers |-> {}]
    /\ down = {}

Running == ~raced /\ aborted = "no"

-----------------------------------------------------------------------------
(***************************************************************************)
(* Customer::NewRequest.  push_back moves a full array first; the lock     *)
(* keeps out only another NewRequest.                                      *)
(***************************************************************************)
Full == Len(tracker) \in {0, 1, 2, 4, 8, 16}

Grow ==
    /\ Running
    /\ pc = "alloc" /\ Full /\ ~growing
    /\ growing' = TRUE
    /\ UNCHANGED <<confVars, tracker, requests, endVars, programVars,
                   pullVars, netVars, rcv, peerVars>>

(* The timestamp is Len(tracker); request is what it is for.               *)
NewRequest(request) ==
    /\ Running
    /\ pc = "alloc" /\ (Full => growing)
    /\ growing' = FALSE
    /\ tracker' = Append(tracker, [count |-> num_servers, response_count |-> 0])
    /\ requests' = Append(requests, request)

(* The program calls Wait for timestamp ts.                                *)
WaitRequest(ts) ==
    /\ pc' = "wait"
    /\ cur' = [ts |-> ts, done |-> tracker[ts + 1].response_count = tracker[ts + 1].count]
    /\ expired' = FALSE

(* Mutant of Finished: one response is enough.                             *)
FinishedEarly(ts) == tracker[ts + 1].response_count > 0

Finished(ts) == tracker[ts + 1].response_count = tracker[ts + 1].count

(* A round of the loop of WaitRequest ends the process.                    *)
WaitFails(ts) == ~Finished(ts) /\ expired

Timeout ==
    /\ Running
    /\ pc = "wait" /\ ~expired
    /\ expired' = TRUE
    /\ UNCHANGED <<confVars, tableVars, endVars, pc, cur, waited, pullVars,
                   netVars, rcv, peerVars>>

WaitAborts ==
    /\ Running
    /\ pc = "wait" /\ WaitFails(cur.ts)
    /\ aborted' = "timeout"
    /\ UNCHANGED <<confVars, tableVars, raced, programVars, pullVars, netVars,
                   rcv, peerVars>>

-----------------------------------------------------------------------------
(***************************************************************************)
(* KVWorker::ZPush and Pull_, with the servers whose key range the request *)
(* has keys in.  AddCallback is for pulls, or for a push with a callback.  *)
(***************************************************************************)
Call(op, slice) ==
    /\ Running
    /\ app = "kv" /\ pc = "idle"
    /\ Len(tracker) < MaxRequests[num_servers] /\ Len(tracker) < MaxCalls[app]
    /\ pc' = "alloc"
    /\ cur' = [op |-> op, slice |-> slice]
    /\ UNCHANGED <<confVars, tableVars, endVars, expired, waited, pullVars,
                   netVars, rcv, peerVars>>

CallNewRequest ==
    /\ app = "kv"
    /\ NewRequest([op |-> cur.op, slice |-> cur.slice, seen |-> waited])
    /\ callbacks' = callbacks \union {Len(tracker)}
    /\ pc' = "send"
    /\ UNCHANGED <<confVars, endVars, cur, expired, waited, recv_kvs, filled,
                   netVars, rcv, peerVars>>

(* Servers without keys count as responses before anything is sent.        *)
Skipped(slice) == num_servers - Cardinality(slice)

(* What the callback of a pull does with recv_kvs_.                        *)
RunCallback(ts) ==
    IF ts \in callbacks
    THEN /\ callbacks' = callbacks \ {ts}
         /\ filled' = filled \union {ts}
         /\ recv_kvs' = [recv_kvs EXCEPT ![ts] = <<>>]
    ELSE UNCHANGED pullVars

Send ==
    LET ts == Len(tracker) - 1
        n == Skipped(cur.slice)
    IN  /\ Running
        /\ pc = "send"
        /\ tracker' = [tracker EXCEPT ![ts + 1].response_count = @ + n]
        /\ IF n = num_servers
           THEN RunCallback(ts)
           ELSE UNCHANGED pullVars
        /\ to_server' = [s \in Servers |->
                IF s \in cur.slice
                THEN Append(to_server[s], [op |-> cur.op, ts |-> ts, cmd |-> 0])
                ELSE to_server[s]]
        /\ pc' = "idle"
        /\ UNCHANGED <<confVars, requests, growing, endVars, cur, expired,
                       waited, to_worker, rcv, peerVars>>

Wait(ts) ==
    /\ Running
    /\ app = "kv" /\ pc = "idle" /\ ts \in Timestamps \ waited
    /\ WaitRequest(ts)
    /\ UNCHANGED <<confVars, tableVars, endVars, waited, pullVars, netVars,
                   rcv, peerVars>>

WaitReturns ==
    /\ Running
    /\ app = "kv" /\ pc = "wait" /\ Finished(cur.ts)
    /\ pc' = "idle"
    /\ waited' = waited \union {cur.ts}
    /\ UNCHANGED <<confVars, tableVars, endVars, cur, expired, pullVars,
                   netVars, rcv, peerVars>>

-----------------------------------------------------------------------------
KVServerDefaultHandle(s, m) ==
    store' = IF m.op = "push" THEN [store EXCEPT ![s] = @ \union {m.ts}] ELSE store

(* KVServer::Response to the request m.                                    *)
Response(s, m, val) == [op |-> m.op, ts |-> m.ts, val |-> val]

(* KVServer::Process with the handle that answers at once.                 *)
Process(s) ==
    LET m == Head(to_server[s])
    IN  /\ Running
        /\ app = "kv" /\ s \notin down /\ to_server[s] # <<>>
        /\ to_server' = [to_server EXCEPT ![s] = Tail(@)]
        /\ KVServerDefaultHandle(s, m)
        /\ to_worker' = [to_worker EXCEPT ![s] = Append(@, Response(s, m, store'[s]))]
        /\ UNCHANGED <<confVars, tableVars, endVars, programVars, pullVars,
                       rcv, down>>

Crash(s) ==
    /\ Running
    /\ Cardinality(down) < MaxCrashes
    /\ down' = down \union {s}
    /\ UNCHANGED <<confVars, tableVars, endVars, programVars, pullVars,
                   netVars, rcv, store>>

-----------------------------------------------------------------------------
(* NumResponse returns the responses expected, not those received.         *)
NumResponse(ts) == tracker[ts + 1].count

(***************************************************************************)
(* DirectProcess of a response: KVWorker::Process, which keeps the data of *)
(* a pull and may run the callback, and then the count.                    *)
(***************************************************************************)
ProcessResponse(s) ==
    LET m == Head(to_worker[s])
        kvs == [recv_kvs EXCEPT ![m.ts] = Append(@, [server |-> s, val |-> m.val])]
    IN  /\ Running
        /\ rcv = Null /\ to_worker[s] # <<>>
        /\ to_worker' = [to_worker EXCEPT ![s] = Tail(@)]
        /\ rcv' = m
        /\ raced' = growing
        /\ IF NumResponse(m.ts) = num_servers - 1
           THEN RunCallback(m.ts)
           ELSE /\ recv_kvs' = IF m.op = "pull" THEN kvs ELSE recv_kvs
                /\ UNCHANGED <<callbacks, filled>>
        /\ UNCHANGED <<confVars, tableVars, aborted, programVars, to_server,
                       peerVars>>

(* Mutant of CountResponse: the count is set, not added to.                *)
CountLost ==
    /\ Running
    /\ rcv # Null
    /\ tracker' = [tracker EXCEPT ![rcv.ts + 1].response_count = 1]
    /\ raced' = growing
    /\ rcv' = Null
    /\ UNCHANGED <<confVars, requests, growing, aborted, programVars,
                   pullVars, netVars, peerVars>>

CountResponse ==
    /\ Running
    /\ rcv # Null
    /\ tracker' = [tracker EXCEPT ![rcv.ts + 1].response_count = @ + 1]
    /\ raced' = growing
    /\ rcv' = Null
    /\ UNCHANGED <<confVars, requests, growing, aborted, programVars,
                   pullVars, netVars, peerVars>>

(* Steps of the threads, and those that only the program's choice makes.   *)
KVProgram ==
    \/ \E op \in {"push", "pull"}, slice \in SUBSET Servers : Call(op, slice)
    \/ \E ts \in Timestamps : Wait(ts)

KVStep ==
    \/ Grow \/ CallNewRequest \/ Send \/ WaitReturns \/ WaitAborts
    \/ CountResponse
    \/ \E s \in Servers : Process(s) \/ ProcessResponse(s)

-----------------------------------------------------------------------------
Mine(ts, s) == {p \in requests[ts + 1].seen :
                   requests[p + 1].op = "push" /\ s \in requests[p + 1].slice}

(***************************************************************************)
(* What Wait of KVWorker does guarantee.  When Wait of a push returns,     *)
(* every server with keys of it has added it.  When Wait of a pull         *)
(* returns, the part of every server with keys of it is in recv_kvs_,      *)
(* once, and it contains every push that the program had waited for before *)
(* it called Pull.  That the parts get from there to the program's vals is *)
(* PullFills.                                                              *)
(***************************************************************************)
PartsReceived ==
    app = "kv" => \A ts \in waited : \A s \in requests[ts + 1].slice :
        /\ requests[ts + 1].op = "push" => ts \in store[s]
        /\ requests[ts + 1].op = "pull" /\ ts \notin filled =>
              LET parts == {i \in DOMAIN recv_kvs[ts] : recv_kvs[ts][i].server = s}
              IN  /\ Cardinality(parts) = 1
                  /\ \A i \in parts : Mine(ts, s) \subseteq recv_kvs[ts][i].val

(***************************************************************************)
(* What the comments of Pull and Wait say: when Wait of a pull returns,    *)
(* its callback has filled vals with the parts.  It does not hold: Process *)
(* runs the callback when NumResponse is num_servers() - 1, and            *)
(* NumResponse is always num_servers().                                    *)
(***************************************************************************)
PullFills ==
    app = "kv" =>
        \A ts \in waited : requests[ts + 1].op = "pull" => ts \in filled

(***************************************************************************)
(* tracker_ moves under a reader only while a response to an earlier       *)
(* request is outstanding: a program that waits for each call is safe.     *)
(***************************************************************************)
RaceNeedsOverlap == raced => \E i \in DOMAIN tracker : i - 1 \notin waited

=============================================================================
