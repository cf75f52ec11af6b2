------------------------------ MODULE Membership ------------------------------
(***************************************************************************)
(* How a node joins, comes back after a crash and leaves: Van::Start,      *)
(* Stop, Receiving, Heartbeat and the ADD_NODE handlers of src/van.cc, and *)
(* Start, Finalize, GetCustomer and GetDeadNodes of src/postoffice.cc,     *)
(* over ZMQVan.                                                            *)
(*                                                                         *)
(* The scheduler orders the nodes once all have registered, gives them     *)
(* ids, and sends the list to each.  A later registration takes the id of  *)
(* a node of its role whose heartbeats stopped.                            *)
(***************************************************************************)
EXTENDS ZMQVan

VARIABLES nodes,          \* nodes of Receiving, in the scheduler
          recovery_nodes, \* recovery_nodes of Receiving, in the scheduler
          sched,          \* the scheduler: "up", or the check that failed
          s_ready,        \* its ready_
          s_senders,      \* its senders_: addresses
          fresh,          \* ids with a heartbeat within the timeout
          left,           \* left[p]: customers that have not called Start
          regs,           \* regs[p]: ADD_NODE messages of p to the scheduler
          beats,          \* processes with a HEARTBEAT to the scheduler: its id
          app,            \* servers whose customer is registered
          met,            \* the barrier of StartPS is over
          crashes

schedVars == <<nodes, recovery_nodes, sched, s_ready, s_senders, fresh>>
vars == <<dep, st, nodeVars, ctl, data, req, schedVars, left, regs, beats, app,
          met, crashes>>

Init ==
    /\ dep \in Deployments
    /\ ZMQInit
    /\ st = [p \in Procs |-> "off"]
    /\ nodes = <<>>
    /\ recovery_nodes = <<>>
    /\ sched = "up"
    /\ s_ready = FALSE
    /\ s_senders = [i \in AllIds |-> Null]
    /\ fresh = {}
    /\ left = [p \in Procs |-> dep.procs[p].customers]
    /\ regs = [p \in Procs |-> 0]
    /\ beats = [p \in Procs |-> Null]
    /\ app = {}
    /\ met = ~dep.barrier
    /\ crashes = 0

-----------------------------------------------------------------------------
(* Starting.                                                               *)

(* Bind never takes an address that is in use.                             *)
Bind(p) == \A q \in Procs : Up(q) => Addr(q) # Addr(p)

(***************************************************************************)
(* A customer of process p calls Start: the first binds, connects to the   *)
(* scheduler and starts the receiving thread; each registers the node.  A  *)
(* spare process starts for a process of its role that crashed, one for    *)
(* each.                                                                   *)
(***************************************************************************)
Start(p) ==
    /\ left[p] > 0
    /\ st[p] \in {"off", "start", "run"}
    /\ st[p] = "off" =>
          /\ p \in dep.spare =>
                LET same == {q \in Procs : Role(q) = Role(p)}
                IN  Cardinality({q \in same \intersect dep.spare : st[q] # "off"})
                      < Cardinality({q \in same : st[q] = "crashed"})
          /\ Bind(p)
    /\ left' = [left EXCEPT ![p] = @ - 1]
    /\ regs' = [regs EXCEPT ![p] = @ + 1]
    /\ IF st[p] = "off"
       THEN /\ st' = [st EXCEPT ![p] = "start"]
            /\ senders' = [senders EXCEPT ![p][kScheduler] =
                              [addr |-> SchedulerNode.addr, identity |-> kEmpty]]
       ELSE UNCHANGED <<st, senders>>
    /\ UNCHANGED <<dep, my_id, threads, closed, connected, ready, ctl, data, req,
                   schedVars, beats, app, met, crashes>>

(* Start returns when the node is ready and the last customer has called;  *)
(* the heartbeat thread is started.                                        *)
StartReturns(p) ==
    /\ st[p] = "start"
    /\ ready[p]
    /\ left[p] = 0
    /\ st' = [st EXCEPT ![p] = "run"]
    /\ UNCHANGED <<dep, nodeVars, ctl, data, req, schedVars, left, regs, beats,
                   app, met, crashes>>

(* The barrier of StartPS, of the processes of the first list.             *)
StartBarrier ==
    /\ ~met
    /\ \A p \in Procs \ dep.spare : st[p] = "run"
    /\ met' = TRUE
    /\ UNCHANGED <<dep, st, nodeVars, ctl, data, req, schedVars, left, regs,
                   beats, app, crashes>>

-----------------------------------------------------------------------------
(* The scheduler.                                                          *)

(* Nodes are ordered by falling host, then by rising port.                 *)
Before(a, b) == a[1] > b[1] \/ (a[1] = b[1] /\ a[2] < b[2])

Colocated(ns, a) == Cardinality({i \in DOMAIN ns : ns[i].addr[1] = a[1]})

(***************************************************************************)
(* The order of ranks.  "mixed" (BYTEPS_ENABLE_MIXED_MODE) puts hosts with *)
(* one node first; "sparse" (BYTEPS_ORDERED_HOSTS) takes the order of the  *)
(* hosts in a list, here that of their numbers.                            *)
(***************************************************************************)
Precedes(ns, a, b) ==
    CASE dep.mode = "sparse" -> a[1] < b[1]
      [] dep.mode = "mixed" ->
            IF Colocated(ns, a) = Colocated(ns, b) THEN Before(a, b)
            ELSE Colocated(ns, a) < Colocated(ns, b)
      [] OTHER -> Before(a, b)

(* std::sort: any order in which no node precedes one that is before it.   *)
Sorts(ns) ==
    {s \in {[i \in DOMAIN ns |-> ns[f[i]]] : f \in Permutations(DOMAIN ns)} :
        \A i, j \in DOMAIN s : i < j => ~Precedes(ns, s[j].addr, s[i].addr)}

MixedOK(ns) ==
    dep.mode = "mixed" =>
        \A i \in DOMAIN ns : /\ Colocated(ns, ns[i].addr) <= 2
                             /\ Colocated(ns, ns[i].addr) = 1 => ns[i].role = "server"

WithPreferredRank(ns) == \E i \in DOMAIN ns : ns[i].aux # -1

(* The preferred ranks of a role are exactly 0 to its instances - 1.       *)
RanksOK(ns) ==
    WithPreferredRank(ns) =>
        \A r \in {"server", "worker"} :
            LET of == {i \in DOMAIN ns : ns[i].role = r}
            IN  /\ \A i, j \in of : ns[i].aux = ns[j].aux => i = j
                /\ {ns[i].aux : i \in of} = 0 .. dep.num[r] - 1

RankOf(ns, i) ==
    IF WithPreferredRank(ns) THEN ns[i].aux
    ELSE Cardinality({j \in 1 .. i - 1 : ns[j].role = ns[i].role})

IdOf(ns, i) == RankToID(ns[i].role, RankOf(ns, i))

(* The customers of one process share the id of the first of them.         *)
FirstAt(ns, i) == Min({j \in DOMAIN ns : ns[j].addr = ns[i].addr})

(* Mutant of Shared: no id is shared.                                      *)
SharedNone(ns) == {}

Shared(ns) == {IdOf(ns, i) : i \in {j \in DOMAIN ns : FirstAt(ns, j) # j}}

Assigned(ns) == [i \in DOMAIN ns |-> [ns[i] EXCEPT !.id = IdOf(ns, FirstAt(ns, i))]]

(* The address of each id that got a connection.                           *)
Sockets(ns) ==
    [id \in AllIds |->
        IF \E i \in DOMAIN ns : FirstAt(ns, i) = i /\ IdOf(ns, i) = id
        THEN ns[CHOOSE i \in DOMAIN ns : FirstAt(ns, i) = i /\ IdOf(ns, i) = id].addr
        ELSE Null]

(***************************************************************************)
(* Send list[id] to every id of ids through sockets, workers first: one    *)
(* without a socket ends the scheduler before it sends to the next.        *)
(***************************************************************************)
SentBefore(i, j) ==
    \/ GetRoleFromId(i) = "worker" /\ GetRoleFromId(j) = "server"
    \/ GetRoleFromId(i) = GetRoleFromId(j) /\ i < j

SendLists(ids, sockets, list) ==
    LET none == {id \in ids : sockets[id] = Null}
        sent == {id \in ids \ none : \A i \in none : SentBefore(id, i)}
    IN  /\ ctl' = [a \in DOMAIN ctl |->
               LET to == {id \in sent : sockets[id] = a}
               IN  IF to = {} THEN ctl[a]
                   ELSE Append(ctl[a], list[CHOOSE id \in to : TRUE])]
        /\ sched' = IF none = {} THEN "up" ELSE "no socket"

(* The last node has registered: ranks, ids, connections, and the list to  *)
(* every id that has a connection of its own.                              *)
Assign(ns) ==
    IF ~MixedOK(ns) \/ ~RanksOK(ns)
    THEN /\ sched' = "ranks"
         /\ nodes' = ns
         /\ UNCHANGED <<ctl, s_ready, s_senders, fresh, recovery_nodes>>
    ELSE \E s \in Sorts(ns) :
            /\ nodes' = Append(Assigned(s), SchedulerNode)
            /\ s_senders' = Sockets(s)
            /\ fresh' = {id \in AllIds : Sockets(s)[id] # Null}
            /\ s_ready' = TRUE
            /\ SendLists(AllIds \ Shared(s), Sockets(s), [id \in AllIds |-> nodes'])
            /\ UNCHANGED recovery_nodes

GetDeadNodes == IF dep.timeout /\ s_ready THEN AllIds \ fresh ELSE {}

(* Mutant of Replaceable: any node of the role is replaced.                *)
ReplaceableAny(node) ==
    {i \in 1 .. Len(nodes) - 1 : nodes[i].role = node.role}

(* The dead nodes that a node can take the place of.                       *)
Replaceable(node) ==
    {i \in 1 .. Len(nodes) - 1 : nodes[i].id \in GetDeadNodes
                                 /\ nodes[i].role = node.role}

(* The list sent to id: all nodes for the one that is back, and only that  *)
(* one for the others.                                                     *)
RecoveryList(id, back, ns, rs) == IF id = back THEN ns ELSE rs

(* Mutant of RecoveryIds: the node that is back counts as dead.            *)
RecoveryIdsAlive(back) == AllIds \ GetDeadNodes

(* Nothing is sent to dead nodes.                                          *)
RecoveryIds(back) == (AllIds \ GetDeadNodes) \union {back}

(***************************************************************************)
(* A node registers after the first list is complete.  It replaces the     *)
(* first dead node of its role.  recovery_nodes is never cleared: when     *)
(* none is dead the last recovery is sent again, and a second one fails    *)
(* the check that there is one.                                            *)
(***************************************************************************)
Recover(node) ==
    LET R == Replaceable(node)
        new == [node EXCEPT !.id = nodes[Min(R)].id, !.is_recovery = TRUE]
        ns == IF R = {} THEN nodes ELSE [nodes EXCEPT ![Min(R)] = new]
        rs == IF R = {} THEN recovery_nodes ELSE Append(recovery_nodes, new)
        back == rs[1].id
        sockets == [s_senders EXCEPT ![back] = rs[1].addr]
    IN  /\ nodes' = ns
        /\ recovery_nodes' = rs
        /\ IF rs = <<>> THEN UNCHANGED <<sched, s_senders, fresh, ctl>>
           ELSE IF Len(rs) # 1
                THEN /\ sched' = "recovery"
                     /\ UNCHANGED <<s_senders, fresh, ctl>>
                ELSE /\ s_senders' = sockets
                     /\ fresh' = fresh \union {back}
                     /\ SendLists(RecoveryIds(back), sockets,
                                  [id \in AllIds |-> RecoveryList(id, back, ns, rs)])
        /\ UNCHANGED s_ready

ProcessAddNodeCommandAtScheduler(p) ==
    LET node == [addr |-> Addr(p), role |-> Role(p), id |-> kEmpty,
                 aux |-> dep.procs[p].aux, is_recovery |-> FALSE]
        ns == Append(nodes, node)
    IN  /\ sched = "up"
        /\ regs[p] > 0
        /\ regs' = [regs EXCEPT ![p] = @ - 1]
        /\ IF Len(nodes) >= NumNodes THEN Recover(node)
           ELSE IF Len(ns) = NumNodes THEN Assign(ns)
                ELSE /\ nodes' = ns
                     /\ UNCHANGED <<recovery_nodes, sched, s_ready, s_senders,
                                    fresh, ctl>>
        /\ UNCHANGED <<dep, st, nodeVars, data, req, left, beats, app, met,
                       crashes>>

(* The scheduler answers a heartbeat; the answer only updates a time that  *)
(* the node does not use.  It cannot be sent to an empty id.               *)
ProcessHearbeat(p) ==
    /\ sched = "up"
    /\ beats[p] # Null
    /\ beats' = [beats EXCEPT ![p] = Null]
    /\ IF beats[p] = kEmpty
       THEN /\ sched' = "empty id"
            /\ UNCHANGED fresh
       ELSE /\ fresh' = fresh \union {beats[p]}
            /\ UNCHANGED sched
    /\ UNCHANGED <<dep, st, nodeVars, ctl, data, req, nodes, recovery_nodes,
                   s_ready, s_senders, left, regs, app, met, crashes>>

(* The timeout passes without a heartbeat of id.  A running process that   *)
(* has the id, or is about to read it, sends them in time.                 *)
Expire(id) ==
    /\ dep.timeout
    /\ id \in fresh
    /\ \A p \in Procs : Up(p) =>
          /\ my_id[p] # id
          /\ s_senders[id] = Addr(p) => ctl[Addr(p)] = <<>>
    /\ fresh' = fresh \ {id}
    /\ UNCHANGED <<dep, st, nodeVars, ctl, data, req, nodes, recovery_nodes,
                   sched, s_ready, s_senders, left, regs, beats, app, met, crashes>>

-----------------------------------------------------------------------------
(* A node.                                                                 *)

UpdateLocalID(p, list) ==
    LET mine == {i \in DOMAIN list : list[i].addr = Addr(p)}
    IN  IF mine = {} THEN my_id[p] ELSE list[Max(mine)].id

ProcessAddNodeCommand(p) ==
    LET a == Addr(p)
        list == Head(ctl[a])
        my == UpdateLocalID(p, list)
    IN  /\ Up(p)
        /\ ctl[a] # <<>>
        /\ my_id' = [my_id EXCEPT ![p] = my]
        /\ Connect(p, my, list)
        /\ connected' = [connected EXCEPT ![p] =
                            @ \union {list[i].addr : i \in DOMAIN list}]
        /\ ready' = [ready EXCEPT ![p] = TRUE]
        /\ ctl' = [ctl EXCEPT ![a] = Tail(@)]
        /\ UNCHANGED <<dep, st, data, req, schedVars, left, regs, beats, app,
                       met, crashes>>

(* The heartbeat thread of p runs.                                         *)
Beats(p) == dep.timeout /\ st[p] \in {"run", "stop", "lost"} /\ ready[p]

(* The heartbeats of a running process that find its id fresh change       *)
(* nothing and are left out, but for one that a crash leaves under way.    *)
Heartbeat(p) ==
    /\ Beats(p)
    /\ my_id[p] \notin fresh
    /\ beats[p] = Null
    /\ beats' = [beats EXCEPT ![p] = my_id[p]]
    /\ UNCHANGED <<dep, st, nodeVars, ctl, data, req, schedVars, left, regs, app,
                   met, crashes>>

-----------------------------------------------------------------------------
(* Requests.                                                               *)

(* The application of a server registers its customer.                     *)
AddCustomer(q) ==
    /\ Role(q) = "server" /\ st[q] = "run" /\ dep.asks
    /\ q \notin app
    /\ app' = app \union {q}
    /\ UNCHANGED <<dep, st, nodeVars, ctl, data, req, schedVars, left, regs,
                   beats, met, crashes>>

(* A worker sends a request to server id.                                  *)
SendRequest(p, id) ==
    /\ Role(p) = "worker" /\ st[p] = "run" /\ met /\ dep.asks
    /\ req[p] = Null
    /\ IF ~CanSend(p, id)
       THEN Fail(p) /\ UNCHANGED <<data, req>>
       ELSE /\ data' = [data EXCEPT ![senders[p][id].addr] =
                           Append(@, [from |-> p, sender |-> senders[p][id].identity])]
            /\ req' = [req EXCEPT ![p] = [id |-> id, at |-> "sent"]]
            /\ UNCHANGED st
    /\ UNCHANGED <<dep, nodeVars, ctl, schedVars, left, regs, beats, app, met,
                   crashes>>

(* The checks of ProcessDataMsg on the ids of the message.                 *)
Acceptable(q, m) == m.sender # kEmpty /\ my_id[q] # kEmpty

(* GetCustomer waits for the customer for at most five seconds.            *)
GetCustomer(q) == q \in app

(* The receiving thread handles a request; without a customer it fails.    *)
ProcessDataMsg(q) ==
    LET a == Addr(q)
        m == Head(data[a])
    IN  /\ Up(q)
        /\ data[a] # <<>>
        /\ data' = [data EXCEPT ![a] = Tail(@)]
        /\ \/ /\ Acceptable(q, m) /\ GetCustomer(q)
              /\ NonWorkerSendMsg(q, m)
           \/ /\ Acceptable(q, m) => ~GetCustomer(q)
              /\ Fail(q)
              /\ UNCHANGED req
        /\ UNCHANGED <<dep, nodeVars, ctl, schedVars, left, regs, beats, app,
                       met, crashes>>

-----------------------------------------------------------------------------
(* Leaving.                                                                *)

(* Finalize: Stop sends TERMINATE to the node itself, if the socket of its *)
(* id leads there.                                                         *)
Stop(p) ==
    /\ p \in dep.ends
    /\ st[p] = "run"
    /\ met
    /\ req[p] # Null => req[p].at = "answered"
    /\ IF ~CanSend(p, my_id[p]) THEN Fail(p)
       ELSE st' = [st EXCEPT ![p] = IF senders[p][my_id[p]].addr = Addr(p)
                                    THEN "stop" ELSE "lost"]
    /\ UNCHANGED <<dep, nodeVars, ctl, data, req, schedVars, left, regs, beats,
                   app, met, crashes>>

(* Mutant of ProcessTerminateCommand: the node stays ready.                *)
ProcessTerminateCommandReady(p) ==
    /\ st[p] = "stop"
    /\ ready[p]
    /\ UNCHANGED vars

ProcessTerminateCommand(p) ==
    /\ st[p] = "stop"
    /\ ready[p]
    /\ ready' = [ready EXCEPT ![p] = FALSE]
    /\ UNCHANGED <<dep, st, my_id, senders, threads, closed, connected, ctl, data,
                   req, schedVars, left, regs, beats, app, met, crashes>>

(* Both threads are joined, the sockets are closed, the tables cleared.    *)
StopReturns(p) ==
    /\ st[p] = "stop"
    /\ ~ready[p]
    /\ st' = [st EXCEPT ![p] = "stopped"]
    /\ my_id' = [my_id EXCEPT ![p] = kEmpty]
    /\ senders' = [senders EXCEPT ![p] = [id \in DOMAIN @ |-> Null]]
    /\ threads' = [threads EXCEPT ![p] = {}]
    /\ closed' = [closed EXCEPT ![p] = {}]
    /\ connected' = [connected EXCEPT ![p] = {}]
    /\ app' = app \ {p}
    /\ UNCHANGED <<dep, ready, ctl, data, req, schedVars, left, regs, beats, met,
                   crashes>>

(* A process crashes, once all have registered: the code has no way back   *)
(* from an earlier crash.  What waits in its sockets is lost; what it has  *)
(* sent may still arrive.                                                  *)
Crash(p) ==
    /\ Up(p)
    /\ s_ready
    /\ p \in dep.mortal
    /\ crashes < dep.crashes
    /\ crashes' = crashes + 1
    /\ st' = [st EXCEPT ![p] = "crashed"]
    /\ ctl' = [ctl EXCEPT ![Addr(p)] = <<>>]
    /\ data' = [data EXCEPT ![Addr(p)] = <<>>]
    /\ \/ UNCHANGED beats
       \/ Beats(p) /\ beats' = [beats EXCEPT ![p] = my_id[p]]
    /\ UNCHANGED <<dep, nodeVars, req, schedVars, left, regs, app, met>>

-----------------------------------------------------------------------------
ProcStep(p) ==
    \/ Start(p) \/ StartReturns(p) \/ ProcessAddNodeCommand(p) \/ AddCustomer(p)
    \/ ProcessTerminateCommand(p) \/ StopReturns(p) \/ ProcessDataMsg(p)
    \/ RecvThreadFails(p) /\ UNCHANGED <<schedVars, left, regs, beats, app, met,
                                         crashes>>

SchedulerStep(p) == ProcessAddNodeCommandAtScheduler(p) \/ ProcessHearbeat(p)

Program(p) ==
    \/ Stop(p) \/ Crash(p) \/ Heartbeat(p)
    \/ \E id \in InstanceIDs("server", dep.num) : SendRequest(p, id)

Threads == StartBarrier \/ \E p \in Procs : ProcStep(p) \/ SchedulerStep(p)

Next ==
    \/ Threads
    \/ \E p \in Procs : Program(p)
    \/ \E id \in AllIds : Expire(id)

(* Threads get on as long as one of them can.                              *)
Spec == Init /\ [][Next]_vars /\ WF_vars(Threads)

-----------------------------------------------------------------------------
(* Two running processes never have the same id, and the id of a process   *)
(* is one of its role: what UpdateLocalID and the order of the scheduler   *)
(* are for, after crashes and restarts too.                                *)
IdsDistinct ==
    \A p \in Procs : Up(p) /\ my_id[p] # kEmpty =>
        /\ GetRoleFromId(my_id[p]) = Role(p)
        /\ \A q \in Procs \ {p} : Up(q) => my_id[q] # my_id[p]

(* The node that is back took the address of another node that is dead.    *)
Moved == \E i, j \in AllIds : i # j /\ s_senders[i] # Null /\ s_senders[i] = s_senders[j]

(***************************************************************************)
(* A process that has handled its ADD_NODE messages sends to an id of the  *)
(* other role where the scheduler knows it: connected_nodes_ is keyed by   *)
(* address, and must not hide that a node moved.  (It does when the node   *)
(* that is back has the address of another dead node.)  An answer goes to  *)
(* the worker that asked, unless one with its id has replaced it.          *)
(***************************************************************************)
RoutesAgree ==
    \A p \in Procs :
        /\ Up(p) /\ ready[p] /\ my_id[p] # kEmpty /\ ctl[Addr(p)] = <<>> /\ ~Moved =>
              \A id \in AllIds : s_senders[id] # Null /\ GetRoleFromId(id) # Role(p) =>
                  senders[p][id] # Null /\ senders[p][id].addr = s_senders[id]
        /\ req[p] # Null /\ req[p].at = "mistaken" => p \in dep.spare

(***************************************************************************)
(* What one crash may bring down.  The end of one process never ends the   *)
(* scheduler: the nodes that it sends a recovery to have sockets, and      *)
(* recovery_nodes has one entry.  A worker ends only after a recovery, of  *)
(* a server at another address or of itself, with two customers or with    *)
(* the list of another recovery.  After the barrier of StartPS only a      *)
(* server that was restarted is asked before it knows its id.              *)
(***************************************************************************)
CrashContained ==
    /\ Cardinality({p \in Procs : ~Up(p) /\ st[p] # "off"}) <= 1 => sched = "up"
    /\ \A p \in Procs : st[p] = "failed" =>
          /\ Role(p) = "worker" =>
                recovery_nodes # <<>> /\ (closed[p] # {} \/ my_id[p] = kEmpty)
          /\ dep.barrier /\ my_id[p] = kEmpty => p \in dep.spare

(***************************************************************************)
(* Nobody waits in Start for ever: not when no process crashes or fails,   *)
(* and not one that the scheduler took in place of a dead one.             *)
(***************************************************************************)
StartEnds ==
    /\ <>(\/ \E p \in Procs : st[p] \in {"crashed", "failed"}
          \/ \A p \in Procs \ dep.spare : st[p] \notin {"off", "start"})
    /\ []<>(\A p \in Procs : sched = "up" /\ st[p] = "start" =>
               \A i \in DOMAIN recovery_nodes : recovery_nodes[i].addr # Addr(p))

(* Nobody waits in Stop for ever: the receiving thread gets its TERMINATE, *)
(* and the heartbeat thread sees that ready_ is false.                     *)
StopEnds == []<>(\A p \in Procs : st[p] \notin {"stop", "lost"})

=============================================================================
