----------------------------- MODULE RoutingMC -----------------------------
(* Every graph on the zones, without edges from a zone to itself. *)
EXTENDS Routing, TLC

AllGraphs == SUBSET {e \in Zones \X Zones : e[1] # e[2]}
Others == Permutations(Zones \ Sources)
=============================================================================
