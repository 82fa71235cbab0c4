--------------------------- MODULE MCGcpRecommender ---------------------------
(***************************************************************************)
(* One node with an older and a newer recommendation, and a VM that is no  *)
(* node listed between them: the listing takes up to three pages.          *)
(***************************************************************************)
EXTENDS GcpRecommender

Rec(vm, number) == [node |-> vm, id |-> number]

MCListing == <<Rec("a", 1), Rec("vm", 1), Rec("a", 2)>>
MCZoneOf == [vm \in {"a", "vm"} |-> 1]
=============================================================================
