-------------------------------- MODULE ZMQVan --------------------------------
(***************************************************************************)
(* The sockets of ZMQVan (src/zmq_van.h).  A process binds one ROUTER      *)
(* socket to its address and connects a DEALER socket, in senders_, to     *)
(* every node that it sends to.  A thread polls the ROUTER, and in a       *)
(* worker also each DEALER: a server answers on the connection that the    *)
(* request came from.  Each thread pushes what it reads to recv_buffers_.  *)
(*                                                                         *)
(* ZeroMQ keeps the messages of a connection in order.  It reconnects to   *)
(* an address by itself: what was sent while nobody was bound reaches the  *)
(* next process that binds.                                                *)
(***************************************************************************)
EXTENDS NodeIds, Sequences, FiniteSets, SequencesExt, FiniteSetsExt

CONSTANTS Deployments, \* the deployments that are explored
          Null

(***************************************************************************)
(* A deployment: its processes with role, address (host and port),         *)
(* preferred rank (-1: none) and the number of customers that call         *)
(* StartPS; the spare processes, started in place of one that crashed; the *)
(* instances of each role; how ranks are ordered; whether StartPS has a    *)
(* barrier; whether there is a heartbeat timeout; which processes may      *)
(* crash, how often one does; which processes call Finalize; whether       *)
(* workers send requests.                                                  *)
(***************************************************************************)
VARIABLES dep,       \* the deployment
          st,        \* where the program of a process is
          my_id,     \* my_node_.id
          senders,   \* senders_[id]: the address, and the identity of the socket
          threads,   \* ids of the nodes whose DEALER socket is polled
          closed,    \* the ones of them whose socket was closed
          connected, \* connected_nodes_: addresses
          ready,     \* ready_
          ctl,       \* ctl[a]: ADD_NODE messages for the process at address a
          data,      \* data[a]: requests for the process at address a
          req        \* req[p]: the request of worker p

nodeVars == <<my_id, senders, threads, closed, connected, ready>>

Procs == DOMAIN dep.procs
Addr(p) == dep.procs[p].addr
Role(p) == dep.procs[p].role
Addrs == {Addr(p) : p \in Procs}
AllIds == GetNodeIDs(kWorkerGroup + kServerGroup, dep.num)

NumNodes == dep.num["server"] + dep.num["worker"]

Up(p) == st[p] \in {"start", "run", "stop", "lost"}

(* A failed check ends the process.                                        *)
Fail(p) == st' = [st EXCEPT ![p] = "failed"]

SchedulerNode == [addr |-> <<0, 0>>, role |-> "scheduler", id |-> kScheduler,
                  aux |-> -1, is_recovery |-> FALSE]

ZMQInit ==
    /\ my_id = [p \in Procs |-> kEmpty]
    /\ senders = [p \in Procs |-> [i \in AllIds \union {kScheduler} |-> Null]]
    /\ threads = [p \in Procs |-> {}]
    /\ closed = [p \in Procs |-> {}]
    /\ connected = [p \in Procs |-> {}]
    /\ ready = [p \in Procs |-> FALSE]
    /\ ctl = [a \in Addrs |-> <<>>]
    /\ data = [a \in Addrs |-> <<>>]
    /\ req = [p \in Procs |-> Null]

(* Connect skips the other nodes of the role of the process.               *)
Skips(p, id, node) == node.role = Role(p) /\ node.id # id

(* Mutant of Connects: a node is known by its id, not by its address.      *)
ConnectsNewIds(p, id, nodes) ==
    {i \in DOMAIN nodes : senders[p][nodes[i].id] = Null /\ ~Skips(p, id, nodes[i])}

(* The nodes of a list that Connect is called for and that it connects:    *)
(* the addresses that connected_nodes_ does not have.                      *)
Connects(p, id, nodes) ==
    {i \in DOMAIN nodes : /\ nodes[i].addr \notin connected[p]
                          /\ \A j \in 1 .. i - 1 : nodes[j].addr # nodes[i].addr
                          /\ ~Skips(p, id, nodes[i])}

(***************************************************************************)
(* Connect for all of them, in process p with id my: an old socket to the  *)
(* node is closed, and the new one has an identity once the process has an *)
(* id.  A worker starts a thread for it, but not if senders_ had the node: *)
(* an id that is listed with two addresses has the thread of the first     *)
(* socket, and the second socket.                                          *)
(***************************************************************************)
Connect(p, my, nodes) ==
    LET new == Connects(p, my, nodes)
        at(id) == {i \in new : nodes[i].id = id}
        ids == {nodes[i].id : i \in new}
        old == {id \in ids : senders[p][id] # Null}
        started == IF Role(p) = "worker" /\ my # kEmpty THEN ids \ old ELSE {}
        twice == {id \in ids : Cardinality(at(id)) > 1}
    IN  /\ senders' = [senders EXCEPT ![p] =
               [id \in DOMAIN @ |->
                   IF id \in ids
                   THEN [addr |-> nodes[Max(at(id))].addr, identity |-> my]
                   ELSE @[id]]]
        /\ threads' = [threads EXCEPT ![p] = @ \union started]
        /\ closed' = [closed EXCEPT ![p] =
               @ \union (old \intersect threads[p]) \union (twice \intersect started)]

(* SendMsg fails when there is no socket to the node.                      *)
CanSend(p, id) == id # kEmpty /\ senders[p][id] # Null

(* A thread of worker p polls a socket that Connect has closed: the        *)
(* receive fails with ENOTSOCK, and the check after it.                    *)
RecvThreadFails(p) ==
    /\ Up(p)
    /\ closed[p] # {}
    /\ Fail(p)
    /\ UNCHANGED <<dep, nodeVars, ctl, data, req>>

(***************************************************************************)
(* The answer of server q goes through its ROUTER to the identity of the   *)
(* socket that the request came from: to the process that has a socket of  *)
(* that identity to q, and polls it.  When there is none the answer is     *)
(* dropped, or the send fails (EHOSTUNREACH), and the check after it.  The *)
(* check of senders_ comes first, though that socket is not used.          *)
(***************************************************************************)
Listeners(q, identity) ==
    {p \in Procs : Up(p) /\ \E id \in threads[p] \ closed[p] :
        senders[p][id] # Null /\ senders[p][id] = [addr |-> Addr(q), identity |-> identity]}

NonWorkerSendMsg(q, m) ==
    LET L == Listeners(q, m.sender)
    IN  \/ ~CanSend(q, m.sender) /\ Fail(q) /\ UNCHANGED req
        \/ /\ CanSend(q, m.sender) /\ L # {}
           /\ \E p \in L :
                 req' = [req EXCEPT ![p] =
                            IF @ = Null THEN @
                            ELSE [@ EXCEPT !.at = IF p = m.from THEN "answered"
                                                  ELSE "mistaken"]]
           /\ UNCHANGED st
        \/ /\ CanSend(q, m.sender) /\ L = {}
           /\ (UNCHANGED st \/ Fail(q)) /\ UNCHANGED req

=============================================================================
