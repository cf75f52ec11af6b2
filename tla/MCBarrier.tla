------------------------------ MODULE MCBarrier ------------------------------
(***************************************************************************)
(* Barrier for a scheduler, servers and workers.  The constants name the   *)
(* instances; instances of one role form instance groups.                  *)
(***************************************************************************)
EXTENDS Barrier

CONSTANTS Scheduler, Servers, Workers

MCNode == {Scheduler} \union Servers \union Workers

MCRole == [n \in MCNode |-> IF n = Scheduler THEN "scheduler"
                            ELSE IF n \in Servers THEN "server" ELSE "worker"]

(* fserver's init, a group barrier of everybody and one without the        *)
(* scheduler; instances come in groups of two.                             *)
ThreeBarriers == {<<"instance", {"server", "worker"}>>,
                  <<"group", Roles>>,
                  <<"group", {"server", "worker"}>>}

=============================================================================
