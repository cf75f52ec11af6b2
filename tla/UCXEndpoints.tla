----------------------------- MODULE UCXEndpoints -----------------------------
(***************************************************************************)
(* UCXEndpointsPool of src/ucx_van.h: how a node gets a connected endpoint *)
(* to another one, or to itself.  The client creates an endpoint and sends *)
(* its id (NODE_INFO_REQ); the server accepts the connection, keeps the    *)
(* endpoint and sends the id back; then the client's endpoint is connected *)
(* and Create returns.  An attempt that fails is made again by the error   *)
(* handler; a connected endpoint that fails is erased.                     *)
(*                                                                         *)
(* <<n, p>> is the endpoint in client_eps_ of node n to node p.  Each node *)
(* has one port.                                                           *)
(***************************************************************************)
EXTENDS Integers, Sequences, FiniteSets, SequencesExt

CONSTANTS Nodes,
          MaxFailures, \* bound: attempts and connections that fail
          MaxRestarts  \* bound: crashes of the server, each with a restart

ASSUME EndpointsAssumption ==
    Nodes = {"w", "s"} /\ MaxFailures \in Nat /\ MaxRestarts \in Nat

(* Connect: to itself and to the nodes of the other role.                  *)
Pairs == Nodes \X Nodes

VARIABLES client_eps,  \* client_eps[n]: the nodes with an entry
          connected,   \* connected[c]: of the entry
          conn,        \* conn[c]: the connection of c, as UCX has it
          attempt,     \* attempt[c]: the ucp_ep_h, one not in use
          server_eps,  \* server_eps[p]: client and attempt
          server_errs, \* server_errs[p]: members that failed
          todo,        \* todo[n]: the nodes for Connect, in order
          waits,       \* waits[n]: Create waits for the one it made
          lists,       \* nodes that a new list is on its way to
          lost,        \* lost[c]: failed when connected, and not made again
          failures, restarts,
          raced        \* a data race: what follows is undefined

endpointVars == <<client_eps, connected, conn, attempt, server_eps, server_errs,
                  todo, waits, lists, lost, failures, restarts>>

EndpointsInit ==
    /\ client_eps = [n \in Nodes |-> {}]
    /\ connected = [c \in Pairs |-> FALSE]
    /\ conn = [c \in Pairs |-> "none"]
    /\ attempt = [c \in Pairs |-> 0]
    /\ server_eps = [n \in Nodes |-> {}]
    /\ server_errs = [n \in Nodes |-> {}]
    /\ \E list \in {<<"w", "s">>, <<"s", "w">>} : todo = [n \in Nodes |-> list]
    /\ waits = [n \in Nodes |-> FALSE]
    /\ lists = {}
    /\ lost = [c \in Pairs |-> FALSE]
    /\ failures = 0
    /\ restarts = 0
    /\ raced = FALSE

(* Find gives an endpoint that is connected, or nullptr.                   *)
Find(n, p) == p \in client_eps[n] /\ connected[<<n, p>>]

(* Create of a UCXEp: a new ucp_ep_h, and the id is sent.                  *)
CreateEp(c) ==
    /\ ~connected[c]
    /\ conn' = [conn EXCEPT ![c] = "requested"]
    /\ attempt' = [attempt EXCEPT ![c] =
          Min({a \in 1 .. MaxFailures + MaxRestarts + 1 : <<c[1], a>> \notin server_eps[c[2]]})]

(* Create(const Node&) enters the endpoint and waits.                      *)
Create(n) ==
    LET p == Head(todo[n])
    IN  /\ todo[n] # <<>> /\ p \notin client_eps[n] /\ ~waits[n]
        /\ client_eps' = [client_eps EXCEPT ![n] = @ \union {p}]
        /\ CreateEp(<<n, p>>)
        /\ waits' = [waits EXCEPT ![n] = TRUE]
        /\ lost' = [lost EXCEPT ![<<n, p>>] = FALSE]
        /\ UNCHANGED <<connected, server_eps, server_errs, todo, lists, failures,
                       restarts>>

(* It returns at once if there is an entry.                                *)
CreateFinds(n) ==
    /\ todo[n] # <<>> /\ Head(todo[n]) \in client_eps[n] /\ ~waits[n]
    /\ todo' = [todo EXCEPT ![n] = Tail(@)]
    /\ UNCHANGED <<client_eps, connected, conn, attempt, server_eps, server_errs,
                   waits, lists, lost, failures, restarts>>

(* Mutant of CreateReturns: it does not wait for the connection.           *)
CreateReturnsSoon(n) ==
    /\ waits[n]
    /\ waits' = [waits EXCEPT ![n] = FALSE]
    /\ todo' = [todo EXCEPT ![n] = Tail(@)]
    /\ UNCHANGED <<client_eps, connected, conn, attempt, server_eps, server_errs,
                   lists, lost, failures, restarts>>

(* Else it returns when the endpoint is connected.                         *)
CreateReturns(n) ==
    /\ waits[n] /\ connected[<<n, Head(todo[n])>>]
    /\ waits' = [waits EXCEPT ![n] = FALSE]
    /\ todo' = [todo EXCEPT ![n] = Tail(@)]
    /\ UNCHANGED <<client_eps, connected, conn, attempt, server_eps, server_errs,
                   lists, lost, failures, restarts>>

(* The listener of c[2] accepts: Create(ucp_conn_request_h).               *)
CreateByRequest(c) ==
    /\ conn[c] = "requested"
    /\ conn' = [conn EXCEPT ![c] = "accepted"]
    /\ UNCHANGED <<client_eps, connected, attempt, server_eps, server_errs, todo,
                   waits, lists, lost, failures, restarts>>

AmRxNodeInfoReq(c) ==
    /\ conn[c] = "accepted"
    /\ server_eps' = [server_eps EXCEPT ![c[2]] = @ \union {<<c[1], attempt[c]>>}]
    /\ conn' = [conn EXCEPT ![c] = "replied"]
    /\ UNCHANGED <<client_eps, connected, attempt, server_errs, todo, waits,
                   lists, lost, failures, restarts>>

(* Mutant of AmRxNodeInfoReply: Create is not told.                        *)
AmRxNodeInfoReplySilent(c) ==
    /\ conn[c] = "replied"
    /\ conn' = [conn EXCEPT ![c] = "up"]
    /\ UNCHANGED <<client_eps, connected, attempt, server_eps, server_errs, todo,
                   waits, lists, lost, failures, restarts>>

AmRxNodeInfoReply(c) ==
    /\ conn[c] = "replied"
    /\ connected' = [connected EXCEPT ![c] = TRUE]
    /\ conn' = [conn EXCEPT ![c] = "up"]
    /\ UNCHANGED <<client_eps, attempt, server_eps, server_errs, todo, waits,
                   lists, lost, failures, restarts>>

-----------------------------------------------------------------------------
(* Faults: an attempt fails, and both ends are told.                       *)
ServerErrs(c) ==
    [server_errs EXCEPT ![c[2]] = @ \union (server_eps[c[2]] \intersect {<<c[1], attempt[c]>>})]

FailAttempt(c) ==
    /\ conn[c] \in {"requested", "accepted", "replied"}
    /\ failures < MaxFailures
    /\ failures' = failures + 1
    /\ conn' = [conn EXCEPT ![c] = "failed"]
    /\ server_errs' = ServerErrs(c)
    /\ UNCHANGED <<client_eps, connected, attempt, server_eps, todo, waits, lists,
                   lost, restarts>>

(* A connection fails.                                                     *)
Break(c) ==
    /\ conn[c] = "up"
    /\ failures < MaxFailures
    /\ failures' = failures + 1
    /\ conn' = [conn EXCEPT ![c] = "broken"]
    /\ lost' = [lost EXCEPT ![c] = TRUE]
    /\ server_errs' = ServerErrs(c)
    /\ UNCHANGED <<client_eps, connected, attempt, server_eps, todo, waits, lists,
                   restarts>>

(***************************************************************************)
(* The server crashes when all are connected, and is back: the connections *)
(* to it and from it break.  The scheduler will send a list to both nodes. *)
(***************************************************************************)
Restart ==
    /\ restarts < MaxRestarts
    /\ \A n \in Nodes : todo[n] = <<>>
    /\ restarts' = restarts + 1
    /\ client_eps' = [client_eps EXCEPT !["s"] = {}]
    /\ connected' = [c \in Pairs |-> c[1] = "w" /\ connected[c]]
    /\ conn' = [c \in Pairs |-> IF c[1] = "s" THEN "none"
                                ELSE IF c[2] = "s" /\ conn[c] = "up" THEN "broken"
                                ELSE conn[c]]
    /\ lost' = [c \in Pairs |-> c[1] = "w" /\ (lost[c] \/ c[2] = "s")]
    /\ server_eps' = [server_eps EXCEPT !["s"] = {}]
    /\ server_errs' = [server_errs EXCEPT
          !["s"] = {}, !["w"] = @ \union {x \in server_eps["w"] : x[1] = "s"}]
    /\ lists' = Nodes
    /\ UNCHANGED <<attempt, todo, waits, failures>>

(* The list comes: the whole one to the server, the server's to the worker.*)
GetList(n) ==
    /\ n \in lists /\ todo[n] = <<>>
    /\ lists' = lists \ {n}
    /\ todo' = [todo EXCEPT ![n] = IF n = "s" THEN <<"w", "s">> ELSE <<"s">>]
    /\ UNCHANGED <<client_eps, connected, conn, attempt, server_eps, server_errs,
                   waits, lost, failures, restarts>>

(* ErrorHandler of an endpoint that is not connected yet.                  *)
ErrorHandlerRetry(c) ==
    /\ conn[c] = "failed"
    /\ CreateEp(c)
    /\ UNCHANGED <<client_eps, connected, server_eps, server_errs, todo, waits, lists,
                   lost, failures, restarts>>

(***************************************************************************)
(* Of one that is: the entry is erased.  Create goes through client_eps_   *)
(* without the lock and waits on an entry of it, which may be this one.    *)
(***************************************************************************)
ErrorHandlerPeer(c) ==
    /\ conn[c] = "broken"
    /\ client_eps' = [client_eps EXCEPT ![c[1]] = @ \ {c[2]}]
    /\ connected' = [connected EXCEPT ![c] = FALSE]
    /\ conn' = [conn EXCEPT ![c] = "none"]
    /\ raced' = waits[c[1]]
    /\ UNCHANGED <<attempt, server_eps, server_errs, todo, waits, lists, lost, failures,
                   restarts>>

(* Of one in server_eps_.                                                  *)
ErrorHandlerServer(n, x) ==
    /\ x \in server_errs[n]
    /\ server_eps' = [server_eps EXCEPT ![n] = @ \ {x}]
    /\ server_errs' = [server_errs EXCEPT ![n] = @ \ {x}]
    /\ UNCHANGED <<client_eps, connected, conn, attempt, todo, waits, lists, lost,
                   failures, restarts>>

EndpointsStep ==
    \/ /\ \E n \in Nodes : \/ Create(n) \/ CreateFinds(n) \/ CreateReturns(n)
                           \/ GetList(n)
                           \/ \E x \in server_errs[n] : ErrorHandlerServer(n, x)
       /\ UNCHANGED raced
    \/ /\ \E c \in Pairs : \/ CreateByRequest(c) \/ AmRxNodeInfoReq(c)
                           \/ AmRxNodeInfoReply(c) \/ ErrorHandlerRetry(c)
       /\ UNCHANGED raced
    \/ \E c \in Pairs : ErrorHandlerPeer(c)

=============================================================================
