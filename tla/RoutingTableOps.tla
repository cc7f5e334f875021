--------------------------- MODULE RoutingTableOps ---------------------------
(***************************************************************************)
(* Package routing_table/schema: the operations of the routing table, each *)
(* as a function of the table and its argument whose result is the new     *)
(* table and the set of routing events returned to the caller.             *)
(*                                                                         *)
(* Every operation works on each routing key by itself, so an operation is *)
(* written as what it does at one key.  Events form a set: the caller only *)
(* ever separates them by type, and a repeated event is idempotent.        *)
(***************************************************************************)
EXTENDS Endpoint

Tables == [RoutingKeys -> RoutableEndpoints \cup {Nil}]

NewTable == [k \in RoutingKeys |-> Nil]

Lookup(table, k) == IF table[k] = Nil THEN ZeroEntry ELSE table[k]

RouteCount(table) == Cardinality({k \in RoutingKeys : table[k] # Nil})

Registration   == "RouteRegistrationEvent"
Unregistration == "RouteUnregistrationEvent"

RoutingEvents ==
  [eventType : {Registration, Unregistration},
   key       : RoutingKeys,
   entry     : RoutableEndpoints]

\* No event for an entry that maps nothing.
createRoutingEvent(k, entry, eventType) ==
  IF HasNoExternalPorts(entry.externalEndpoints) \/ PresentEndpoints(entry) = {}
    THEN {}
    ELSE {[eventType |-> eventType, key |-> k, entry |-> entry]}

-----------------------------------------------------------------------------
(* Routes *)

\* The external endpoints the desired LRP maps to routing key k.
NewExternalEndpoints(k, desiredLRP) ==
  {r.external : r \in {s \in desiredLRP.routes : s.containerPort = k.containerPort}}

RegistrationNeeded(existingEntry, externals) ==
  \E x \in externals : ~ContainsExternalPort(existingEntry.externalEndpoints, x.port)

UpdatedEntry(existingEntry, externals, modificationTag) ==
  [existingEntry EXCEPT !.externalEndpoints = externals,
                        !.modificationTag   = modificationTag]

\* Mutant: only the new ports are stored.
mergeRoutesEntryNewOnly(table, k, desiredLRP) ==
  LET added == Remove(NewExternalEndpoints(k, desiredLRP), Lookup(table, k).externalEndpoints)
  IN  IF added # {}
        THEN UpdatedEntry(Lookup(table, k), added, desiredLRP.modificationTag)
        ELSE table[k]

\* mergeRoutes writes the entry only when an external port is new; an entry
\* that only loses ports is left as it is, tag included.
mergeRoutesEntry(table, k, desiredLRP) ==
  LET externals == NewExternalEndpoints(k, desiredLRP) IN
  IF RegistrationNeeded(Lookup(table, k), externals)
    THEN UpdatedEntry(Lookup(table, k), externals, desiredLRP.modificationTag)
    ELSE table[k]

mergeRoutesEvents(table, k, desiredLRP) ==
  LET existing  == Lookup(table, k)
      externals == NewExternalEndpoints(k, desiredLRP)
  IN  (IF RegistrationNeeded(existing, externals)
         THEN createRoutingEvent(
                k, UpdatedEntry(existing, externals, desiredLRP.modificationTag),
                Registration)
         ELSE {})
      \cup createRoutingEvent(k, RemoveExternalEndpoints(existing, externals),
                              Unregistration)

\* The keys whose stored tag lets the desired LRP in.
KeysToMerge(table, desiredLRP) ==
  {k \in NewRoutingKeysFromDesired(desiredLRP) :
     SucceededBy(Lookup(table, k).modificationTag, desiredLRP.modificationTag)}

AddRoutes(table, desiredLRP) ==
  [entries |-> [k \in RoutingKeys |->
                  IF k \in KeysToMerge(table, desiredLRP)
                    THEN mergeRoutesEntry(table, k, desiredLRP)
                    ELSE table[k]],
   events  |-> UNION {mergeRoutesEvents(table, k, desiredLRP) :
                        k \in KeysToMerge(table, desiredLRP)}]

\* Mutant: late removals are let in.
KeysToDeleteUnguarded(table, keys, modificationTag) == {k \in keys : table[k] # Nil}

\* The keys among keys whose stored tag lets the removal in.
KeysToDelete(table, keys, modificationTag) ==
  {k \in keys : table[k] # Nil /\ SucceededBy(table[k].modificationTag, modificationTag)}

removeRoutingKeys(table, keys, modificationTag) ==
  [entries |-> [k \in RoutingKeys |->
                  IF k \in KeysToDelete(table, keys, modificationTag)
                    THEN Nil ELSE table[k]],
   events  |-> UNION {createRoutingEvent(k, table[k], Unregistration) :
                        k \in KeysToDelete(table, keys, modificationTag)}]

UpdateRoutes(table, before, after) ==
  LET deleted == NewRoutingKeysFromDesired(before) \ NewRoutingKeysFromDesired(after)
      added   == AddRoutes(table, after)
      removed == removeRoutingKeys(added.entries, deleted, after.modificationTag)
  IN  [entries |-> removed.entries, events |-> added.events \cup removed.events]

RemoveRoutes(table, desiredLRP) ==
  removeRoutingKeys(table, NewRoutingKeysFromDesired(desiredLRP),
                    desiredLRP.modificationTag)

-----------------------------------------------------------------------------
(* Endpoints *)

WithEndpoint(entry, ek, endpoint) == [entry EXCEPT !.endpoints[ek] = endpoint]

\* Mutant: late endpoints are let in.
KeysToExtendUnguarded(table, group) == NewRoutingKeysFromActual(group)

KeysToExtend(table, group) ==
  {k \in NewRoutingKeysFromActual(group) :
     LET existing == Lookup(table, k).endpoints[EndpointKeyOf(group)] IN
     existing # Nil =>
       SucceededBy(existing.modificationTag, Resolve(group).modificationTag)}

ExtendedEntry(table, k, group) ==
  WithEndpoint(Lookup(table, k), EndpointKeyOf(group),
               NewEndpointFromActual(group, k.containerPort))

getRegistrationEvents(k, existingEntry, newEntry) ==
  IF \/ HasNoExternalPorts(newEntry.externalEndpoints)
     \/ /\ ~HaveExternalEndpointsChanged(existingEntry, newEntry)
        /\ ~HaveEndpointsChanged(existingEntry, newEntry)
    THEN {}
    ELSE createRoutingEvent(k, newEntry, Registration)

AddEndpoint(table, group) ==
  [entries |-> [k \in RoutingKeys |->
                  IF k \in KeysToExtend(table, group)
                    THEN ExtendedEntry(table, k, group) ELSE table[k]],
   events  |-> UNION {getRegistrationEvents(k, Lookup(table, k),
                                            ExtendedEntry(table, k, group)) :
                        k \in KeysToExtend(table, group)}]

\* Mutant: a removal that carries the stored tag is ignored.
KeysToReduceOnlyNewer(table, group) ==
  {k \in NewRoutingKeysFromActual(group) :
     LET current == Lookup(table, k).endpoints[EndpointKeyOf(group)] IN
     /\ current # Nil
     /\ SucceededBy(current.modificationTag, Resolve(group).modificationTag)}

\* A removal is let in by an equal tag as well as by a newer one.
KeysToReduce(table, group) ==
  {k \in NewRoutingKeysFromActual(group) :
     LET current == Lookup(table, k).endpoints[EndpointKeyOf(group)] IN
     /\ current # Nil
     /\ \/ Equal(current.modificationTag, Resolve(group).modificationTag)
        \/ SucceededBy(current.modificationTag, Resolve(group).modificationTag)}

\* Mutant: the endpoint is blanked out instead of deleted.
ReducedEntryBlank(table, k, group) ==
  WithEndpoint(Lookup(table, k), EndpointKeyOf(group),
               [address |-> Nil, modificationTag |-> Nil])

ReducedEntry(table, k, group) ==
  WithEndpoint(Lookup(table, k), EndpointKeyOf(group), Nil)

\* Mutant: all the endpoints count as deleted.
getDeletedEntryWhole(existingEntry, newEntry) == existingEntry

\* The part of existingEntry that newEntry no longer has.
getDeletedEntry(existingEntry, newEntry) ==
  [existingEntry EXCEPT !.endpoints =
     [ek \in EndpointKeys |->
        IF newEntry.endpoints[ek] # Nil THEN Nil ELSE existingEntry.endpoints[ek]]]

UnregistrationEvents(k, currentEntry, newEntry) ==
  IF /\ ~HaveExternalEndpointsChanged(currentEntry, newEntry)
     /\ ~HaveEndpointsChanged(currentEntry, newEntry)
    THEN {}
    ELSE createRoutingEvent(k, getDeletedEntry(currentEntry, newEntry), Unregistration)

RemoveEndpoint(table, group) ==
  [entries |-> [k \in RoutingKeys |->
                  IF k \in KeysToReduce(table, group)
                    THEN ReducedEntry(table, k, group) ELSE table[k]],
   events  |-> UNION {UnregistrationEvents(k, Lookup(table, k),
                                           ReducedEntry(table, k, group)) :
                        k \in KeysToReduce(table, group)}]

-----------------------------------------------------------------------------
(* Whole tables *)

GetRoutingEvents(table) ==
  UNION {createRoutingEvent(k, Lookup(table, k), Registration) : k \in RoutingKeys}

\* Mutant: the old entry is always unregistered as a whole.
SwapEventsUnregisterAll(table, newTable, k) ==
  createRoutingEvent(k, Lookup(newTable, k), Registration)
    \cup createRoutingEvent(k, Lookup(table, k), Unregistration)

\* Mutant: the keys missing from the new table are forgotten.
SwapEventsOfNewKeys(table, newTable, k) ==
  IF newTable[k] # Nil
    THEN createRoutingEvent(k, newTable[k], Registration)
         \cup createRoutingEvent(
                k, RemoveExternalEndpoints(Lookup(table, k), newTable[k].externalEndpoints),
                Unregistration)
    ELSE {}

\* Mutant: only the entries that changed are registered.
SwapEventsOfChanges(table, newTable, k) ==
  (IF Lookup(newTable, k) # Lookup(table, k)
     THEN createRoutingEvent(k, Lookup(newTable, k), Registration) ELSE {})
    \cup createRoutingEvent(
           k, RemoveExternalEndpoints(Lookup(table, k), Lookup(newTable, k).externalEndpoints),
           Unregistration)

\* At a key of the new table only the external ports it lacks are
\* unregistered; at a key it does not have, the whole entry is.
SwapEvents(table, newTable, k) ==
  IF newTable[k] # Nil
    THEN createRoutingEvent(k, newTable[k], Registration)
         \cup createRoutingEvent(
                k, RemoveExternalEndpoints(Lookup(table, k), newTable[k].externalEndpoints),
                Unregistration)
    ELSE createRoutingEvent(k, Lookup(table, k), Unregistration)

Swap(table, newTable) ==
  [entries |-> newTable,
   events  |-> UNION {SwapEvents(table, newTable, k) : k \in RoutingKeys}]
=============================================================================
