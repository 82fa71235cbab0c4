------------------------- MODULE MCRightSizingReview -------------------------
(***************************************************************************)
(* Two Pods of one workload, an on-prem node and one of another platform,  *)
(* and a catalog with two profiles of one cost, vCPU and another memory.   *)
(* Capacities are in tenths, loads in whole vCPUs and GiB.                 *)
(***************************************************************************)
EXTENDS RightSizingReview, TLC

Of(v, m) == [vcpu |-> v, memory |-> m]

MCProfiles == <<Of(20, 40), Of(40, 60), Of(40, 80)>>
MCHost == Of(120, 240)
MCHeadroom == Of(13, 13)
MCReserved == Of(5, 10)
MCLoad == {Of(1, 2), Of(1, 3), Of(2, 6)}

MCPods == {"web-0", "web-1"}
MCWorkload == [p \in MCPods |-> "web"]
MCPlaces == "web-0" :> {"onp", "cloud"} @@ "web-1" :> {"onp"}
MCRequest == [p \in MCPods |-> Of(10, 25)]
=============================================================================
