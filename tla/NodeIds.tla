------------------------------- MODULE NodeIds -------------------------------
(***************************************************************************)
(* The ids of nodes: include/ps/internal/postoffice.h, the id tables of    *)
(* Postoffice::Start, and the ids that MultiVan gives to the vans of its   *)
(* ports.  An id below 8 is a group: the sum of kScheduler, kServerGroup   *)
(* and kWorkerGroup.                                                       *)
(***************************************************************************)
EXTENDS Integers

kScheduler == 1
kServerGroup == 2
kWorkerGroup == 4
kEmpty == 32767

WorkerRankToID(rank) == rank * 2 + 9

ServerRankToID(rank) == rank * 2 + 8

RankToID(role, rank) ==
    IF role = "server" THEN ServerRankToID(rank) ELSE WorkerRankToID(rank)

IDtoRank(id) == IF id < 8 THEN 0 ELSE (id - 8) \div 2

GetRoleFromId(id) ==
    IF id < 8 THEN "scheduler" ELSE IF id % 2 # 0 THEN "worker" ELSE "server"

GroupRankToInstanceID(role, rank, idx, group_size) ==
    RankToID(role, rank * group_size + idx)

InstanceIDtoGroupRank(id, group_size) == IDtoRank(id) \div group_size

(* node_ids_[g] of a group g, with n[role] instances of a role.            *)
Has(g, bit) == (g \div bit) % 2 = 1

InstanceIDs(role, n) == {RankToID(role, r) : r \in 0 .. n[role] - 1}

GetNodeIDs(g, n) ==
    (IF Has(g, kWorkerGroup) THEN InstanceIDs("worker", n) ELSE {})
    \union (IF Has(g, kServerGroup) THEN InstanceIDs("server", n) ELSE {})
    \union (IF Has(g, kScheduler) THEN {kScheduler} ELSE {})

(* MultiVan: the id of port index of node id.                              *)
MAX_NUM_IDS == 1000
ID_OFFSET == 1000000

EncodeManagedID(id, index) ==
    IF id = kEmpty THEN kEmpty ELSE ID_OFFSET + id + index * MAX_NUM_IDS

DecodeManagedID(id) ==
    IF id = kEmpty THEN kEmpty ELSE (id - ID_OFFSET) % MAX_NUM_IDS

=============================================================================
