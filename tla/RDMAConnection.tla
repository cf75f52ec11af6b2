---------------------------- MODULE RDMAConnection ----------------------------
(***************************************************************************)
(* How RDMAVan connects a node to another: RDMAVan::Connect of             *)
(* src/rdma_van.h, the handlers of the event thread on both nodes and the  *)
(* Endpoint of src/rdma_transport.h.  An endpoint has QP_NUM queue pairs,  *)
(* each with a connection of its own.  "out" is the endpoint in endpoints_ *)
(* of the connecting node, "in" the one in incoming_ of the accepting one. *)
(*                                                                         *)
(* The events of librdmacm come in the order of a connection's life, and   *)
(* in any order between the connections.                                   *)
(***************************************************************************)
EXTENDS Integers, FiniteSets

CONSTANTS QPNums,      \* values of STEPAF_QP_NUM, at most QP_MAX_NUM = 2
          kRxDepth,    \* receive contexts of an endpoint
          MaxFailures, \* bound: rejected and lost connections
          Null

ASSUME ConnectionAssumption ==
    /\ QPNums \subseteq {1, 2}
    /\ kRxDepth \in Nat \ {0}
    /\ MaxFailures \in Nat

Side == {"out", "in"}
Peer(s) == IF s = "out" THEN "in" ELSE "out"

(* An attempt to connect queue pair id[1], and the id of both of its ends. *)
Id == {0, 1} \X (0 .. MaxFailures)

VARIABLES qp_num,        \* QP_NUM
          lag,           \* STEPMESH_SPLIT_QP_LAG is 1
          status_list,   \* status_list[s][q]
          cm_ids,        \* cm_ids[s][q]
          inComingCount,
          inited,
          posted,        \* posted[s][q]: receives posted on connection q
          transport,     \* transport[s]: GetTransport() is not null
          events,        \* events not yet handled: <<side, event, id>>
          up,            \* connections that are established and not lost
          connect,       \* where Connect is
          notified,      \* the condition variable was notified
          failures,
          multi_qp,      \* multi_qp[s]: Endpoint::multi_qp_
          aborted        \* a process ended at a failed check or a null pointer

(* What no step but those of the connection changes, and all of its state. *)
setupVars == <<qp_num, lag, status_list, cm_ids, inComingCount, inited, transport,
               events, up, connect, notified, failures, multi_qp>>
connectionVars == <<setupVars, posted>>

(* What only SetQPLag changes here.                                        *)
lagVars == <<multi_qp, aborted>>

QPs == 0 .. qp_num - 1

ConnectionInit ==
    /\ qp_num \in QPNums
    /\ lag \in BOOLEAN
    /\ status_list = [s \in Side |-> [q \in QPs |-> "IDLE"]]
    /\ cm_ids = [s \in Side |-> [q \in QPs |-> Null]]
    /\ inComingCount = [s \in Side |-> 0]
    /\ inited = [s \in Side |-> 0]
    /\ posted = [s \in Side |-> [q \in {0, 1} |-> 0]]
    /\ transport = [s \in Side |-> FALSE]
    /\ events = {}
    /\ up = {}
    /\ connect = "start"
    /\ notified = FALSE
    /\ failures = 0
    /\ multi_qp = [s \in Side |-> FALSE]
    /\ aborted = FALSE

GetAllStatus(s, st) == \A q \in QPs : status_list[s][q] = st

(* Endpoint::SetStatus finds the queue pair by its id.                     *)
SetStatus(s, id, st) ==
    [status_list EXCEPT ![s] =
        [q \in QPs |-> IF cm_ids[s][q] = id THEN st ELSE @[q]]]

PostRecv(s, c, n) == posted' = [posted EXCEPT ![s][c] = n]

(***************************************************************************)
(* Endpoint::Init creates the queue pair of id, and posts receives only    *)
(* the first QP_NUM times that it is called for the endpoint.              *)
(***************************************************************************)
EndpointInit(s, id) ==
    /\ inited' = [inited EXCEPT ![s] = @ + 1]
    /\ PostRecv(s, id[1], IF inited[s] < qp_num THEN kRxDepth \div qp_num ELSE 0)

Handled(s, type, id, new) == events' = (events \ {<<s, type, id>>}) \union new

Wrap(n) == IF n = qp_num THEN 0 ELSE n

-----------------------------------------------------------------------------
(* The queue pairs that have to be connected, or connected again.          *)
ToConnect == {q \in QPs : status_list["out"][q] \notin {"CONNECTING", "CONNECTED"}}

NextId(q) == <<q, IF cm_ids["out"][q] = Null THEN 0 ELSE cm_ids["out"][q][2] + 1>>

(***************************************************************************)
(* A round of the loop of Connect: the old id of such a queue pair goes    *)
(* with its queue pair and its events, a new one starts to resolve its     *)
(* address, and Connect waits.                                             *)
(***************************************************************************)
ConnectRound ==
    /\ connect \in {"start", "sleep"}
    /\ ~GetAllStatus("out", "CONNECTED")
    /\ cm_ids' = [cm_ids EXCEPT !["out"] =
                     [q \in QPs |-> IF q \in ToConnect THEN NextId(q) ELSE @[q]]]
    /\ status_list' = [status_list EXCEPT !["out"] =
                     [q \in QPs |-> IF q \in ToConnect THEN "CONNECTING" ELSE @[q]]]
    /\ events' = {e \in events : \A q \in ToConnect :
                                    ~(e[1] = "out" /\ e[3] = cm_ids["out"][q])}
                 \union {<<"out", "ADDR_RESOLVED", NextId(q)>> : q \in ToConnect}
    /\ connect' = "wait"
    /\ notified' = FALSE
    /\ UNCHANGED <<qp_num, lag, inComingCount, inited, posted, transport, up, failures>>

(* The wait ends when no queue pair is CONNECTING.                         *)
ConnectWake ==
    /\ connect = "wait" /\ notified
    /\ notified' = FALSE
    /\ connect' = IF \E q \in QPs : status_list["out"][q] = "CONNECTING"
                  THEN "wait"
                  ELSE IF GetAllStatus("out", "CONNECTED") THEN "return"
                       ELSE "sleep"
    /\ UNCHANGED <<qp_num, lag, status_list, cm_ids, inComingCount, inited, posted,
                   transport, events, up, failures>>

(* The transport is made when the loop is left, by its break or its test.  *)
ConnectReturn ==
    /\ \/ connect = "return"
       \/ connect = "sleep" /\ GetAllStatus("out", "CONNECTED")
    /\ connect' = "returned"
    /\ transport' = [transport EXCEPT !["out"] = TRUE]
    /\ UNCHANGED <<qp_num, lag, status_list, cm_ids, inComingCount, inited, posted,
                   events, up, notified, failures>>

-----------------------------------------------------------------------------
OnAddrResolved(id) ==
    /\ <<"out", "ADDR_RESOLVED", id>> \in events
    /\ Handled("out", "ADDR_RESOLVED", id, {<<"out", "ROUTE_RESOLVED", id>>})
    /\ UNCHANGED <<qp_num, lag, status_list, cm_ids, inComingCount, inited, posted,
                   transport, up, connect, notified, failures>>

(* rdma_connect: the peer gets the request, or it is rejected.             *)
OnRouteResolved(id) ==
    /\ <<"out", "ROUTE_RESOLVED", id>> \in events
    /\ EndpointInit("out", id)
    /\ inComingCount' = [inComingCount EXCEPT !["out"] = Wrap(@ + 1)]
    /\ \/ /\ Handled("out", "ROUTE_RESOLVED", id, {<<"in", "CONNECT_REQUEST", id>>})
          /\ UNCHANGED failures
       \/ /\ failures < MaxFailures
          /\ failures' = failures + 1
          /\ Handled("out", "ROUTE_RESOLVED", id, {<<"out", "REJECTED", id>>})
    /\ UNCHANGED <<qp_num, lag, status_list, cm_ids, transport, up, connect, notified>>

(* The id takes the place that inComingCount names, and is accepted.       *)
OnConnectRequest(id) ==
    /\ <<"in", "CONNECT_REQUEST", id>> \in events
    /\ cm_ids' = [cm_ids EXCEPT !["in"][inComingCount["in"]] = id]
    /\ inComingCount' = [inComingCount EXCEPT !["in"] = Wrap(@ + 1)]
    /\ EndpointInit("in", id)
    /\ transport' = [transport EXCEPT !["in"] = TRUE]
    /\ up' = up \union {id}
    /\ Handled("in", "CONNECT_REQUEST", id,
               {<<s, "ESTABLISHED", id>> : s \in Side})
    /\ UNCHANGED <<qp_num, lag, status_list, connect, notified, failures>>

(* Endpoint::Init made the queue pair of an id before rdma_connect or      *)
(* rdma_accept, so it is there once the id is and its route is resolved.   *)
HasQueuePair(s, q) ==
    /\ cm_ids[s][q] # Null
    /\ \A type \in {"ADDR_RESOLVED", "ROUTE_RESOLVED"} :
          <<s, type, cm_ids[s][q]>> \notin events

(***************************************************************************)
(* Endpoint::SetQPLag, called once inComingCount comes to QP_NUM, gives    *)
(* the queue pairs of the endpoint their ports, and does not test whether  *)
(* they are there.                                                         *)
(***************************************************************************)
SetQPLag(s) ==
    /\ multi_qp' = [multi_qp EXCEPT ![s] = TRUE]
    /\ aborted' = \E q \in QPs : ~HasQueuePair(s, q)

(* Mutant of OnConnected: Connect is notified of every queue pair, and the *)
(* status of all of them is set.                                           *)
OnConnectedAll(s, id) ==
    /\ <<s, "ESTABLISHED", id>> \in events
    /\ status_list' = [status_list EXCEPT ![s] = [q \in QPs |-> "CONNECTED"]]
    /\ inComingCount' = [inComingCount EXCEPT ![s] = Wrap(@ + 1)]
    /\ notified' = TRUE
    /\ IF lag /\ inComingCount[s] + 1 = qp_num THEN SetQPLag(s) ELSE UNCHANGED lagVars
    /\ Handled(s, "ESTABLISHED", id, {})
    /\ UNCHANGED <<qp_num, lag, cm_ids, inited, posted, transport, up, connect,
                   failures>>

(***************************************************************************)
(* The status that inComingCount names becomes CONNECTED, and Connect is   *)
(* notified when all are.                                                  *)
(***************************************************************************)
OnConnected(s, id) ==
    /\ <<s, "ESTABLISHED", id>> \in events
    /\ status_list' = [status_list EXCEPT ![s][inComingCount[s]] = "CONNECTED"]
    /\ inComingCount' = [inComingCount EXCEPT ![s] = Wrap(@ + 1)]
    /\ notified' = \/ notified
                   \/ s = "out" /\ \A q \in QPs : status_list'[s][q] = "CONNECTED"
    /\ IF lag /\ inComingCount[s] + 1 = qp_num THEN SetQPLag(s) ELSE UNCHANGED lagVars
    /\ Handled(s, "ESTABLISHED", id, {})
    /\ UNCHANGED <<qp_num, lag, cm_ids, inited, posted, transport, up, connect,
                   failures>>

(* Mutant of OnRejected: Connect is not notified.                          *)
OnRejectedSilently(id) ==
    /\ <<"out", "REJECTED", id>> \in events
    /\ status_list' = SetStatus("out", id, "REJECTED")
    /\ Handled("out", "REJECTED", id, {})
    /\ UNCHANGED <<qp_num, lag, cm_ids, inComingCount, inited, posted, transport, up,
                   connect, notified, failures>>

OnRejected(id) ==
    /\ <<"out", "REJECTED", id>> \in events
    /\ status_list' = SetStatus("out", id, "REJECTED")
    /\ notified' = TRUE
    /\ Handled("out", "REJECTED", id, {})
    /\ UNCHANGED <<qp_num, lag, cm_ids, inComingCount, inited, posted, transport, up,
                   connect, failures>>

(***************************************************************************)
(* A connection is lost while Connect runs; both ends are told after they  *)
(* were established.  (Later, a failed completion ends the process.)       *)
(***************************************************************************)
Lose(id) ==
    /\ id \in up
    /\ connect # "returned"
    /\ \A s \in Side : <<s, "ESTABLISHED", id>> \notin events
    /\ failures < MaxFailures
    /\ failures' = failures + 1
    /\ up' = up \ {id}
    /\ events' = events \union {<<s, "DISCONNECTED", id>> : s \in Side}
    /\ UNCHANGED <<qp_num, lag, status_list, cm_ids, inComingCount, inited, posted,
                   transport, connect, notified>>

OnDisconnected(s, id) ==
    /\ <<s, "DISCONNECTED", id>> \in events
    /\ status_list' = SetStatus(s, id, "IDLE")
    /\ notified' = (notified \/ s = "out")
    /\ Handled(s, "DISCONNECTED", id, {})
    /\ UNCHANGED <<qp_num, lag, cm_ids, inComingCount, inited, posted, transport, up,
                   connect, failures>>

ConnectionNext ==
    /\ ~aborted
    /\ \/ /\ ConnectRound \/ ConnectWake \/ ConnectReturn
          /\ UNCHANGED lagVars
       \/ \E id \in Id :
             \/ /\ \/ OnAddrResolved(id) \/ OnRouteResolved(id)
                   \/ OnConnectRequest(id) \/ OnRejected(id) \/ Lose(id)
                   \/ \E s \in Side : OnDisconnected(s, id)
                /\ UNCHANGED lagVars
             \/ \E s \in Side : OnConnected(s, id)

=============================================================================
