------------------------------ MODULE Endpoint ------------------------------
(***************************************************************************)
(* Package routing_table/schema/endpoint: routing keys, endpoints and the  *)
(* entries of the routing table, with the functions that build and compare *)
(* them.                                                                   *)
(*                                                                         *)
(* An entry's external endpoints are a slice in the code and a set here;   *)
(* the code never depends on their order.  A Go map is a total function    *)
(* whose value is Nil at the missing keys.  The log guid of an entry is    *)
(* left out: it is stored and never read.                                  *)
(***************************************************************************)
EXTENDS BBSModels

RoutingKeys == [processGuid : ProcessGuids, containerPort : ContainerPorts]

EndpointKeys == [instanceGuid : InstanceGuids, evacuating : BOOLEAN]

\* The guid and the evacuating flag of an endpoint are in its key, its
\* container port in the routing key it is filed under.
Endpoints == [address : Addresses, modificationTag : ModificationTags]

RoutableEndpoints ==
  [externalEndpoints : SUBSET ExternalEndpointInfos,
   endpoints         : [EndpointKeys -> Endpoints \cup {Nil}],
   modificationTag   : ModificationTags \cup {Nil}]

\* What a Go map lookup yields for a missing routing key.
ZeroEntry ==
  [externalEndpoints |-> {},
   endpoints         |-> [ek \in EndpointKeys |-> Nil],
   modificationTag   |-> Nil]

\* The keys of entry.Endpoints.
PresentEndpoints(entry) == {ek \in EndpointKeys : entry.endpoints[ek] # Nil}

-----------------------------------------------------------------------------
(* External endpoints are told apart by their port alone. *)

HasNoExternalPorts(externals) == externals = {}

ContainsExternalPort(externals, port) == \E x \in externals : x.port = port

\* ExternalEndpointInfos.Remove
Remove(setA, setB) == {x \in setA : ~ContainsExternalPort(setB, x.port)}

\* Mutant: the difference taken the wrong way round.
RemoveExternalEndpointsSwapped(entry, externals) ==
  [entry EXCEPT !.externalEndpoints = Remove(externals, @)]

RemoveExternalEndpoints(entry, externals) ==
  [entry EXCEPT !.externalEndpoints = Remove(@, externals)]

HaveExternalEndpointsChanged(entry, newEntry) ==
  \/ Cardinality(entry.externalEndpoints) # Cardinality(newEntry.externalEndpoints)
  \/ \E x \in entry.externalEndpoints :
       ~ContainsExternalPort(newEntry.externalEndpoints, x.port)

\* Mutant: an endpoint that was replaced under its key goes unnoticed.
HaveEndpointsChangedIgnoringTags(entry, newEntry) ==
  \/ Cardinality(PresentEndpoints(entry)) # Cardinality(PresentEndpoints(newEntry))
  \/ \E ek \in PresentEndpoints(newEntry) : entry.endpoints[ek] = Nil

\* Mutant: an endpoint that went away goes unnoticed.
HaveEndpointsChangedIgnoringNumber(entry, newEntry) ==
  \E ek \in PresentEndpoints(newEntry) :
    \/ entry.endpoints[ek] = Nil
    \/ SucceededBy(entry.endpoints[ek].modificationTag,
                   newEntry.endpoints[ek].modificationTag)

HaveEndpointsChanged(entry, newEntry) ==
  \/ Cardinality(PresentEndpoints(entry)) # Cardinality(PresentEndpoints(newEntry))
  \/ \E ek \in PresentEndpoints(newEntry) :
       \/ entry.endpoints[ek] = Nil
       \/ SucceededBy(entry.endpoints[ek].modificationTag,
                      newEntry.endpoints[ek].modificationTag)

-----------------------------------------------------------------------------
(* Keys and endpoints of the LRPs the BBS reports. *)

NewRoutingKeysFromDesired(desiredLRP) ==
  {k \in RoutingKeys :
     /\ k.processGuid = desiredLRP.processGuid
     /\ \E r \in desiredLRP.routes : r.containerPort = k.containerPort}

NewRoutingKeysFromActual(group) ==
  {k \in RoutingKeys :
     /\ k.processGuid = Resolve(group).processGuid
     /\ Resolve(group).ports[k.containerPort] # Nil}

\* The endpoint for container port c, and the key it is stored under.
NewEndpointFromActual(group, c) ==
  [address         |-> Resolve(group).ports[c],
   modificationTag |-> Resolve(group).modificationTag]

\* Mutant: an instance and its evacuating twin share a key.
EndpointKeyIgnoringEvacuation(group) ==
  [instanceGuid |-> Resolve(group).instanceGuid, evacuating |-> FALSE]

EndpointKeyOf(group) ==
  [instanceGuid |-> Resolve(group).instanceGuid,
   evacuating   |-> ResolvesToEvacuating(group)]

ASSUME NilIsNoEntry == Nil \notin Endpoints /\ Nil \notin RoutableEndpoints

ASSUME FiniteEndpointKeys == IsFiniteSet(EndpointKeys)
=============================================================================
