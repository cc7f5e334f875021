----------------------- MODULE MCRoutingTableHandler -----------------------
(***************************************************************************)
(* Bounded instances of RoutingTableHandler.                               *)
(***************************************************************************)
EXTENDS RoutingTableHandler, TLC

CONSTANTS Ports, MaxRoutes

MCExternalEndpointInfos == [routerGroupGuid : RouterGroupGuids, port : Ports]

\* Bounds on the routes of one desired LRP.
MCRouteSets == {r \in SUBSET TCPRoutes : Cardinality(r) <= MaxRoutes}

\* Routes that include port 1, alone or with others.
MCPort1RouteSets == {r \in MCRouteSets : \E route \in r : route.external.port = 1}

\* Instance guids and addresses are interchangeable.
Symmetry == Permutations(InstanceGuids) \cup Permutations(Addresses)
=============================================================================
