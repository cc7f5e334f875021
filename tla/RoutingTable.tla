---------------------------- MODULE RoutingTable ----------------------------
(***************************************************************************)
(* The routing table as an object: its entries, and the routing events its *)
(* last operation returned.  Any operation may be called at any time with  *)
(* any of the arguments the constants list, in any order of their tags:    *)
(* bulk syncs and late events make every order possible.                   *)
(*                                                                         *)
(* Each operation holds the table's mutex; the two that release it between *)
(* routing keys (AddEndpoint, RemoveEndpoint) are only ever called under   *)
(* the handler's own lock, so every operation is one step.                 *)
(***************************************************************************)
EXTENDS RoutingTableOps

CONSTANTS
  DesiredInputs,   \* desired LRPs that are added and removed
  DesiredChanges,  \* [before, after] pairs of desired LRPs
  ActualInputs,    \* actual LRP groups that are added and removed
  SwapTables       \* tables a bulk sync may have built

ASSUME InputsAssumption ==
  /\ DesiredInputs \subseteq DesiredLRPs
  /\ DesiredChanges \subseteq [before : DesiredLRPs, after : DesiredLRPs]
  /\ ActualInputs \subseteq ActualLRPGroups
  /\ SwapTables \subseteq Tables

VARIABLES
  entries,   \* table.entries
  returned,  \* the routing events the last operation returned
  op         \* the name of the last operation, for the properties below

vars == <<entries, returned, op>>

Operations ==
  {"NewTable", "AddRoutes", "UpdateRoutes", "RemoveRoutes", "AddEndpoint",
   "RemoveEndpoint", "Swap", "GetRoutingEvents"}

Returns(name, result) ==
  /\ entries'  = result.entries
  /\ returned' = result.events
  /\ op'       = name

Init ==
  /\ entries  = NewTable
  /\ returned = {}
  /\ op       = "NewTable"

CallAddRoutes(d)      == Returns("AddRoutes", AddRoutes(entries, d))
CallUpdateRoutes(c)   == Returns("UpdateRoutes", UpdateRoutes(entries, c.before, c.after))
CallRemoveRoutes(d)   == Returns("RemoveRoutes", RemoveRoutes(entries, d))
CallAddEndpoint(g)    == Returns("AddEndpoint", AddEndpoint(entries, g))
CallRemoveEndpoint(g) == Returns("RemoveEndpoint", RemoveEndpoint(entries, g))
CallSwap(t)           == Returns("Swap", Swap(entries, t))

CallGetRoutingEvents ==
  Returns("GetRoutingEvents", [entries |-> entries, events |-> GetRoutingEvents(entries)])

Next ==
  \/ \E d \in DesiredInputs  : CallAddRoutes(d)
  \/ \E c \in DesiredChanges : CallUpdateRoutes(c)
  \/ \E d \in DesiredInputs  : CallRemoveRoutes(d)
  \/ \E g \in ActualInputs   : CallAddEndpoint(g)
  \/ \E g \in ActualInputs   : CallRemoveEndpoint(g)
  \/ \E t \in SwapTables     : CallSwap(t)
  \/ CallGetRoutingEvents

Spec == Init /\ [][Next]_vars

-----------------------------------------------------------------------------
(* What the table holds and what an operation announces, key by key. *)

\* The TCP route mappings an entry stands for (event.mapRoutingEvent).
Mappings(entry) ==
  {[external |-> x, address |-> entry.endpoints[ek].address] :
     x \in entry.externalEndpoints, ek \in PresentEndpoints(entry)}

Held(table, k) == Mappings(Lookup(table, k))

Announced(events, eventType, k) ==
  UNION {Mappings(e.entry) : e \in {f \in events : f.eventType = eventType /\ f.key = k}}

\* Two endpoints of an entry at one address: an instance and its evacuating
\* twin.
SharesAddress(entry, a) ==
  \E i, j \in PresentEndpoints(entry) :
    i # j /\ entry.endpoints[i].address = a /\ entry.endpoints[j].address = a

\* Within an epoch the index does not go back.
NotOlder(t, other) ==
  t # Nil /\ other # Nil /\ t.epoch = other.epoch => t.index <= other.index

-----------------------------------------------------------------------------
(* Properties *)

\* The table's entries and the returned events have the types the code
\* declares (routingTable.entries, event.RoutingEvents).
TypeOK ==
  /\ entries \in Tables
  /\ returned \subseteq RoutingEvents
  /\ op \in Operations

\* Whatever an operation makes the table hold that it did not hold before,
\* the operation also registers: the checks that suppress a registration as
\* "no change" (mergeRoutes, getRegistrationEvents) never suppress a new
\* mapping, whatever order routes, endpoints and tags arrive in.
NewMappingsAreRegistered ==
  [][\A k \in RoutingKeys :
       Held(entries', k) \ Held(entries, k)
         \subseteq Announced(returned', Registration, k)]_vars

\* No event is made up: a registration only announces mappings the table
\* holds after the operation, an unregistration only mappings it held before.
EventsDescribeTheTable ==
  [][\A k \in RoutingKeys :
       /\ Announced(returned', Registration, k) \subseteq Held(entries', k)
       /\ Announced(returned', Unregistration, k) \subseteq Held(entries, k)]_vars

\* ExternalEndpointInfos.Remove is documented as the set difference a - b
\* (endpoint.go:209): every external endpoint a routing key loses, through a
\* route update, a route removal or a swap, is unregistered for all the
\* backends the key had.
DroppedExternalEndpointsAreUnregistered ==
  [][\A k \in RoutingKeys : \A m \in Held(entries, k) :
       m.external \notin Lookup(entries', k).externalEndpoints
         => m \in Announced(returned', Unregistration, k)]_vars

\* RemoveEndpoint unregisters every mapping its routing keys stop holding:
\* the "no change" check before it never hides the removal.
RemovedEndpointsAreUnregistered ==
  [][op' = "RemoveEndpoint" =>
       \A k \in RoutingKeys :
         Held(entries, k) \ Held(entries', k)
           \subseteq Announced(returned', Unregistration, k)]_vars

\* An operation takes a mapping away from the router while the table still
\* holds it in two cases only: mergeRoutes, for AddRoutes or UpdateRoutes, found
\* ports gone and none new and left the entry as it was; or RemoveEndpoint
\* removed one of two endpoints that share the address, an evacuating twin.
LiveMappingsStayRegistered ==
  [][\A k \in RoutingKeys :
       \A m \in Announced(returned', Unregistration, k) \cap Held(entries', k) :
         \/ op' \in {"AddRoutes", "UpdateRoutes"} /\ entries'[k] = entries[k]
         \/ op' = "RemoveEndpoint" /\ SharesAddress(Lookup(entries, k), m.address)]_vars

\* A late or repeated argument never takes a stored tag back: outside of a
\* swap, the tags of entries and endpoints only grow within an epoch.
TagsNeverRegress ==
  [][op' # "Swap" =>
       \A k \in RoutingKeys :
         LET old == Lookup(entries, k)
             new == Lookup(entries', k)
         IN  /\ NotOlder(old.modificationTag, new.modificationTag)
             /\ \A ek \in PresentEndpoints(old) \cap PresentEndpoints(new) :
                  NotOlder(old.endpoints[ek].modificationTag,
                           new.endpoints[ek].modificationTag)]_vars

\* A swap registers all of the new table, at every key, and unregisters
\* nothing the new table holds ("always register everything on sync").
SwapRegistersTheNewTable ==
  [][op' = "Swap" =>
       \A k \in RoutingKeys :
         /\ Announced(returned', Registration, k) = Held(entries', k)
         /\ Announced(returned', Unregistration, k) \cap Held(entries', k) = {}]_vars
=============================================================================
