-------------------------- MODULE MappingRequests --------------------------
(***************************************************************************)
(* Package routing_table/schema/event: which routing events are valid, and *)
(* the TCP route mappings the valid ones ask the routing API to upsert and *)
(* to delete.                                                              *)
(*                                                                         *)
(* A mapping names a router group, an external port cut down to sixteen    *)
(* bits and a backend address.  The time to live is the same for all and   *)
(* is left out.                                                            *)
(***************************************************************************)
EXTENDS RoutingTableOps

Uint16(n) == n % 65536

Uint16s == 0 .. (65536 - 1)

TcpRouteMappings ==
  [routerGroupGuid : RouterGroupGuids, port : Uint16s, address : Addresses]

\* One external port 0 makes the whole event invalid.
Valid(e) ==
  /\ PresentEndpoints(e.entry) # {}
  /\ e.entry.externalEndpoints # {}
  /\ \A x \in e.entry.externalEndpoints : x.port # 0

mapRoutingEvent(e) ==
  {[routerGroupGuid |-> x.routerGroupGuid,
    port            |-> Uint16(x.port),
    address         |-> e.entry.endpoints[ek].address] :
     x \in e.entry.externalEndpoints, ek \in PresentEndpoints(e.entry)}

buildMappingRequests(events) == UNION {mapRoutingEvent(e) : e \in events}

ToMappingRequests(events) ==
  LET valid == {e \in events : Valid(e)}
  IN  [upserts |-> buildMappingRequests({e \in valid : e.eventType = Registration}),
       deletes |-> buildMappingRequests({e \in valid : e.eventType = Unregistration})]
=============================================================================
