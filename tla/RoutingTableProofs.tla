------------------------- MODULE RoutingTableProofs -------------------------
(***************************************************************************)
(* Theorems about the routing table, for any sets of keys, ports, tags and *)
(* arguments.  The types of what the operations return come first; the     *)
(* rest shows, key by key, what their events announce.                     *)
(***************************************************************************)
EXTENDS RoutingTable, RoutingTableOpsProofs

-----------------------------------------------------------------------------

\* The table and the events of the last operation have their types after any
\* sequence of calls.
THEOREM TableTypeOK == Spec => []TypeOK
<1>1. Init => TypeOK
  BY DEF Init, TypeOK, NewTable, Tables, Operations
<1>2. ASSUME TypeOK, [Next]_vars PROVE TypeOK'
  <2>0. entries \in Tables
    BY <1>2 DEF TypeOK
  <2>1. ASSUME NEW name \in Operations, NEW result \in Results, Returns(name, result)
        PROVE  TypeOK'
    BY <2>1 DEF Returns, Results, TypeOK
  <2>2. ASSUME NEW d \in DesiredInputs, CallAddRoutes(d) PROVE TypeOK'
    BY <2>0, <2>1, <2>2, InputsAssumption, AddRoutesType DEF CallAddRoutes, Operations
  <2>3. ASSUME NEW c \in DesiredChanges, CallUpdateRoutes(c) PROVE TypeOK'
    <3>1. c.before \in DesiredLRPs /\ c.after \in DesiredLRPs
      BY InputsAssumption
    <3> QED
      BY <2>0, <2>1, <2>3, <3>1, UpdateRoutesType DEF CallUpdateRoutes, Operations
  <2>4. ASSUME NEW d \in DesiredInputs, CallRemoveRoutes(d) PROVE TypeOK'
    BY <2>0, <2>1, <2>4, InputsAssumption, RemoveRoutesType DEF CallRemoveRoutes, Operations
  <2>5. ASSUME NEW g \in ActualInputs, CallAddEndpoint(g) PROVE TypeOK'
    BY <2>0, <2>1, <2>5, InputsAssumption, AddEndpointType DEF CallAddEndpoint, Operations
  <2>6. ASSUME NEW g \in ActualInputs, CallRemoveEndpoint(g) PROVE TypeOK'
    BY <2>0, <2>1, <2>6, InputsAssumption, RemoveEndpointType DEF CallRemoveEndpoint, Operations
  <2>7. ASSUME NEW t \in SwapTables, CallSwap(t) PROVE TypeOK'
    BY <2>0, <2>1, <2>7, InputsAssumption, SwapType DEF CallSwap, Operations
  <2>8. CASE CallGetRoutingEvents
    BY <2>0, <2>1, <2>8, GetRoutingEventsType DEF CallGetRoutingEvents, Operations, Results
  <2>9. CASE UNCHANGED vars
    BY <1>2, <2>9 DEF TypeOK, vars
  <2> QED
    BY <1>2, <2>2, <2>3, <2>4, <2>5, <2>6, <2>7, <2>8, <2>9 DEF Next
<1> QED
  BY <1>1, <1>2, PTL DEF Spec

-----------------------------------------------------------------------------
(* What the events of an operation announce at one routing key *)

\* An event announces the mappings of its entry, under its own type and key;
\* the entries createRoutingEvent gives no event map nothing.
LEMMA AnnouncedByEvent ==
  ASSUME NEW k, NEW entry, NEW type
  PROVE  /\ Announced(createRoutingEvent(k, entry, type), type, k) = Mappings(entry)
         /\ \A t, j : t # type \/ j # k =>
              Announced(createRoutingEvent(k, entry, type), t, j) = {}
         /\ \A e \in createRoutingEvent(k, entry, type) : e.key = k
<1> DEFINE ev == [eventType |-> type, key |-> k, entry |-> entry]
<1>1. CASE createRoutingEvent(k, entry, type) = {ev}
  <2>1. {f \in {ev} : f.eventType = type /\ f.key = k} = {ev}
    OBVIOUS
  <2>2. UNION {Mappings(e.entry) : e \in {ev}} = Mappings(entry)
    OBVIOUS
  <2>3. ASSUME NEW t, NEW j, t # type \/ j # k
        PROVE  {f \in {ev} : f.eventType = t /\ f.key = j} = {}
    BY <2>3
  <2>4. UNION {Mappings(e.entry) : e \in {}} = {}
    OBVIOUS
  <2>5. Announced({ev}, type, k) = Mappings(entry)
    BY <2>1, <2>2 DEF Announced
  <2>6. ASSUME NEW t, NEW j, t # type \/ j # k
        PROVE  Announced({ev}, t, j) = {}
    BY <2>3, <2>4, <2>6, Zenon DEF Announced
  <2> QED
    BY <1>1, <2>5, <2>6
<1>2. CASE createRoutingEvent(k, entry, type) = {} /\ Mappings(entry) = {}
  BY <1>2 DEF Announced
<1>3. HasNoExternalPorts(entry.externalEndpoints) \/ PresentEndpoints(entry) = {}
        => Mappings(entry) = {}
  BY DEF HasNoExternalPorts, Mappings
<1> QED
  BY <1>1, <1>2, <1>3 DEF createRoutingEvent

\* Two sets of events announce what each of them announces.
LEMMA AnnouncedByUnion ==
  ASSUME NEW E1, NEW E2, NEW type, NEW k
  PROVE  Announced(E1 \cup E2, type, k) = Announced(E1, type, k) \cup Announced(E2, type, k)
BY DEF Announced

\* What is announced at a key depends on the events of that key only.
LEMMA AnnouncedAtKey ==
  ASSUME NEW events, NEW here, NEW type, NEW k,
         \A e : e.key = k => (e \in events <=> e \in here)
  PROVE  Announced(events, type, k) = Announced(here, type, k)
<1>1. {f \in events : f.eventType = type /\ f.key = k}
        = {f \in here : f.eventType = type /\ f.key = k}
  OBVIOUS
<1> QED
  BY <1>1, Zenon DEF Announced

\* No event announces nothing.
LEMMA AnnouncedByNone ==
  ASSUME NEW type, NEW k
  PROVE  Announced({}, type, k) = {}
BY DEF Announced

\* AddRoutes at one key: mergeRoutes or nothing.
LEMMA AddRoutesEffect ==
  ASSUME NEW table \in Tables, NEW d \in DesiredLRPs, NEW k \in RoutingKeys
  PROVE  LET existing  == Lookup(table, k)
             externals == NewExternalEndpoints(k, d)
             updated   == UpdatedEntry(existing, externals, d.modificationTag)
             merged    == k \in KeysToMerge(table, d)
             needed    == RegistrationNeeded(existing, externals)
             result    == AddRoutes(table, d)
         IN  /\ result.entries[k] = IF merged /\ needed THEN updated ELSE table[k]
             /\ Announced(result.events, Registration, k)
                  = IF merged /\ needed THEN Mappings(updated) ELSE {}
             /\ Announced(result.events, Unregistration, k)
                  = IF merged THEN Mappings(RemoveExternalEndpoints(existing, externals))
                              ELSE {}
<1> DEFINE existing  == Lookup(table, k)
           externals == NewExternalEndpoints(k, d)
           updated   == UpdatedEntry(existing, externals, d.modificationTag)
           K         == KeysToMerge(table, d)
           needed    == RegistrationNeeded(existing, externals)
           result    == AddRoutes(table, d)
<1>1. result.entries[k] = IF k \in K /\ needed THEN updated ELSE table[k]
  BY DEF AddRoutes, mergeRoutesEntry
<1>2. result.events = UNION {mergeRoutesEvents(table, j, d) : j \in K}
  BY DEF AddRoutes
<1>3. \A j : \A e \in mergeRoutesEvents(table, j, d) : e.key = j
  BY AnnouncedByEvent DEF mergeRoutesEvents
<1>4. Registration # Unregistration
  BY DEF Registration, Unregistration
<1>5. /\ Announced(mergeRoutesEvents(table, k, d), Registration, k)
           = IF needed THEN Mappings(updated) ELSE {}
      /\ Announced(mergeRoutesEvents(table, k, d), Unregistration, k)
           = Mappings(RemoveExternalEndpoints(existing, externals))
  <2> DEFINE regs   == IF needed THEN createRoutingEvent(k, updated, Registration) ELSE {}
             unregs == createRoutingEvent(k, RemoveExternalEndpoints(existing, externals),
                                          Unregistration)
  <2>2. mergeRoutesEvents(table, k, d) = regs \cup unregs
    BY DEF mergeRoutesEvents
  <2>3. /\ Announced(regs, Registration, k) = IF needed THEN Mappings(updated) ELSE {}
        /\ Announced(regs, Unregistration, k) = {}
    BY <1>4, AnnouncedByNone, AnnouncedByEvent
  <2>4. /\ Announced(unregs, Registration, k) = {}
        /\ Announced(unregs, Unregistration, k)
             = Mappings(RemoveExternalEndpoints(existing, externals))
    BY <1>4, AnnouncedByEvent
  <2> HIDE DEF regs, unregs, needed, updated, existing, externals
  <2>5. \A type : Announced(mergeRoutesEvents(table, k, d), type, k)
                   = Announced(regs, type, k) \cup Announced(unregs, type, k)
    BY <2>2, AnnouncedByUnion
  <2> QED
    BY <2>3, <2>4, <2>5
<1>6. ASSUME NEW type
      PROVE  Announced(result.events, type, k)
               = IF k \in K THEN Announced(mergeRoutesEvents(table, k, d), type, k) ELSE {}
  <2> HIDE DEF K, result
  <2>1. \A e : e.key = k =>
          (e \in result.events
             <=> e \in IF k \in K THEN mergeRoutesEvents(table, k, d) ELSE {})
    BY <1>2, <1>3
  <2> QED
    BY <2>1, AnnouncedAtKey, AnnouncedByNone
<1> HIDE DEF existing, externals, updated, needed, K, result
<1>7. QED
  BY <1>1, <1>5, <1>6 DEF existing, externals, updated, needed, K, result

\* removeRoutingKeys at one key: the entry goes and is unregistered, or stays.
LEMMA RemoveRoutingKeysEffect ==
  ASSUME NEW table \in Tables, NEW keys \in SUBSET RoutingKeys, NEW tag,
         NEW k \in RoutingKeys
  PROVE  LET gone   == k \in KeysToDelete(table, keys, tag)
             result == removeRoutingKeys(table, keys, tag)
         IN  /\ result.entries[k] = IF gone THEN Nil ELSE table[k]
             /\ Announced(result.events, Registration, k) = {}
             /\ Announced(result.events, Unregistration, k)
                  = IF gone THEN Mappings(table[k]) ELSE {}
<1> DEFINE K      == KeysToDelete(table, keys, tag)
           events == createRoutingEvent(k, table[k], Unregistration)
           result == removeRoutingKeys(table, keys, tag)
<1>1. result.entries[k] = IF k \in K THEN Nil ELSE table[k]
  BY DEF removeRoutingKeys
<1>2. result.events = UNION {createRoutingEvent(j, table[j], Unregistration) : j \in K}
  BY DEF removeRoutingKeys
<1>3. \A j : \A e \in createRoutingEvent(j, table[j], Unregistration) : e.key = j
  BY AnnouncedByEvent
<1>4. /\ Announced(events, Registration, k) = {}
      /\ Announced(events, Unregistration, k) = Mappings(table[k])
  BY AnnouncedByEvent DEF Registration, Unregistration
<1>5. \A e : e.key = k => (e \in result.events <=> e \in IF k \in K THEN events ELSE {})
  <2> HIDE DEF K, result
  <2> QED
    BY <1>2, <1>3
<1> HIDE DEF K, events, result
<1> QED
  BY <1>1, <1>4, <1>5, AnnouncedAtKey, AnnouncedByNone DEF K, result

\* UpdateRoutes at one key: AddRoutes where the new routes have the key,
\* removeRoutingKeys on the table as it was elsewhere.
LEMMA UpdateRoutesEffect ==
  ASSUME NEW table \in Tables, NEW before \in DesiredLRPs, NEW after \in DesiredLRPs,
         NEW k \in RoutingKeys
  PROVE  LET deleted == NewRoutingKeysFromDesired(before)
                          \ NewRoutingKeysFromDesired(after)
             result  == UpdateRoutes(table, before, after)
             same    == IF k \in NewRoutingKeysFromDesired(after)
                          THEN AddRoutes(table, after)
                          ELSE removeRoutingKeys(table, deleted, after.modificationTag)
         IN  /\ result.entries[k] = same.entries[k]
             /\ \A type \in {Registration, Unregistration} :
                  Announced(result.events, type, k) = Announced(same.events, type, k)
<1> DEFINE deleted == NewRoutingKeysFromDesired(before) \ NewRoutingKeysFromDesired(after)
           added   == AddRoutes(table, after)
           direct  == removeRoutingKeys(table, deleted, after.modificationTag)
           result  == UpdateRoutes(table, before, after)
<1>1. PICK mid \in Tables : mid = added.entries
  BY AddRoutesType DEF Results
<1> DEFINE removed == removeRoutingKeys(mid, deleted, after.modificationTag)
<1>2. deleted \in SUBSET RoutingKeys
  BY DEF NewRoutingKeysFromDesired
<1>3. /\ result.entries = removed.entries
      /\ result.events = added.events \cup removed.events
  BY <1>1 DEF UpdateRoutes
<1>4. LET gone == k \in KeysToDelete(mid, deleted, after.modificationTag)
      IN  /\ removed.entries[k] = IF gone THEN Nil ELSE mid[k]
          /\ Announced(removed.events, Registration, k) = {}
          /\ Announced(removed.events, Unregistration, k)
               = IF gone THEN Mappings(mid[k]) ELSE {}
  <2> HIDE DEF deleted
  <2> QED
    BY <1>2, RemoveRoutingKeysEffect
<1>5. CASE k \in NewRoutingKeysFromDesired(after)
  <2>1. k \notin KeysToDelete(mid, deleted, after.modificationTag)
    BY <1>5 DEF KeysToDelete
  <2>2. /\ removed.entries[k] = added.entries[k]
        /\ \A type \in {Registration, Unregistration} :
             Announced(removed.events, type, k) = {}
    BY <1>1, <1>4, <2>1
  <2> HIDE DEF added, removed, result, deleted
  <2>3. \A type : Announced(result.events, type, k)
                    = Announced(added.events, type, k) \cup Announced(removed.events, type, k)
    BY <1>3, AnnouncedByUnion
  <2> QED
    BY <1>3, <1>5, <2>2, <2>3 DEF added, result
<1>6. CASE k \notin NewRoutingKeysFromDesired(after)
  <2>1. k \notin KeysToMerge(table, after)
    BY <1>6 DEF KeysToMerge
  <2>2. /\ added.entries[k] = table[k]
        /\ \A type \in {Registration, Unregistration} :
             Announced(added.events, type, k) = {}
    BY <2>1, AddRoutesEffect
  <2>3. k \in KeysToDelete(mid, deleted, after.modificationTag)
          <=> k \in KeysToDelete(table, deleted, after.modificationTag)
    BY <1>1, <2>2 DEF KeysToDelete
  <2>4. /\ removed.entries[k] = direct.entries[k]
        /\ \A type \in {Registration, Unregistration} :
             Announced(removed.events, type, k) = Announced(direct.events, type, k)
    <3> DEFINE gone == k \in KeysToDelete(table, deleted, after.modificationTag)
    <3> HIDE DEF added, deleted
    <3>1. /\ removed.entries[k] = IF gone THEN Nil ELSE table[k]
          /\ Announced(removed.events, Registration, k) = {}
          /\ Announced(removed.events, Unregistration, k)
               = IF gone THEN Mappings(table[k]) ELSE {}
      BY <1>1, <1>4, <2>2, <2>3
    <3>2. /\ direct.entries[k] = IF gone THEN Nil ELSE table[k]
          /\ Announced(direct.events, Registration, k) = {}
          /\ Announced(direct.events, Unregistration, k)
               = IF gone THEN Mappings(table[k]) ELSE {}
      BY <1>2, RemoveRoutingKeysEffect
    <3> HIDE DEF removed, direct, gone
    <3> QED
      BY <3>1, <3>2
  <2> HIDE DEF added, removed, direct, result, deleted
  <2>5. \A type : Announced(result.events, type, k)
                    = Announced(added.events, type, k) \cup Announced(removed.events, type, k)
    BY <1>3, AnnouncedByUnion
  <2> QED
    BY <1>3, <1>6, <2>2, <2>4, <2>5 DEF direct, result, deleted
<1> QED
  BY <1>5, <1>6

\* AddEndpoint at one key.
LEMMA AddEndpointEffect ==
  ASSUME NEW table \in Tables, NEW g \in ActualLRPGroups, NEW k \in RoutingKeys
  PROVE  LET extended == ExtendedEntry(table, k, g)
             added    == k \in KeysToExtend(table, g)
             result   == AddEndpoint(table, g)
         IN  /\ result.entries[k] = IF added THEN extended ELSE table[k]
             /\ Announced(result.events, Registration, k)
                  = IF added THEN Mappings(extended) ELSE {}
             /\ Announced(result.events, Unregistration, k) = {}
<1> DEFINE K        == KeysToExtend(table, g)
           extended == ExtendedEntry(table, k, g)
           events   == getRegistrationEvents(k, Lookup(table, k), extended)
           result   == AddEndpoint(table, g)
<1>1. result.entries[k] = IF k \in K THEN extended ELSE table[k]
  BY DEF AddEndpoint
<1>2. result.events = UNION {getRegistrationEvents(j, Lookup(table, j),
                                                   ExtendedEntry(table, j, g)) : j \in K}
  BY DEF AddEndpoint
<1>3. \A j : \A e \in getRegistrationEvents(j, Lookup(table, j), ExtendedEntry(table, j, g)) :
        e.key = j
  BY AnnouncedByEvent DEF getRegistrationEvents
<1>4. k \in K => /\ Announced(events, Registration, k) = Mappings(extended)
                 /\ Announced(events, Unregistration, k) = {}
  <2>1. HasNoExternalPorts(extended.externalEndpoints) => Mappings(extended) = {}
    BY DEF HasNoExternalPorts, Mappings
  <2> HIDE DEF K, extended
  <2>2. k \in K => events = IF HasNoExternalPorts(extended.externalEndpoints)
                              THEN {} ELSE createRoutingEvent(k, extended, Registration)
    BY ExtendedEntryHasChanged DEF getRegistrationEvents, K, extended
  <2> HIDE DEF events
  <2> QED
    BY <2>1, <2>2, AnnouncedByNone, AnnouncedByEvent DEF Registration, Unregistration
<1>5. \A e : e.key = k => (e \in result.events <=> e \in IF k \in K THEN events ELSE {})
  <2> HIDE DEF K, result
  <2> QED
    BY <1>2, <1>3
<1> HIDE DEF K, events, extended, result
<1>6. ASSUME NEW type
      PROVE  Announced(result.events, type, k)
               = IF k \in K THEN Announced(events, type, k) ELSE {}
  <2> DEFINE here == IF k \in K THEN events ELSE {}
  <2>1. Announced(here, type, k) = IF k \in K THEN Announced(events, type, k) ELSE {}
    BY AnnouncedByNone
  <2>2. \A e : e.key = k => (e \in result.events <=> e \in here)
    BY <1>5
  <2> HIDE DEF here
  <2> QED
    BY <2>1, <2>2, AnnouncedAtKey
<1> QED
  BY <1>1, <1>4, <1>6 DEF K, extended, result

\* The reduced entry has one endpoint less, which its comparison with the
\* current entry sees by their number.
LEMMA ReducedEntryHasChanged ==
  ASSUME NEW table \in Tables, NEW g \in ActualLRPGroups,
         NEW k \in KeysToReduce(table, g)
  PROVE  /\ k \in RoutingKeys
         /\ ReducedEntry(table, k, g) \in RoutableEndpoints
         /\ HaveEndpointsChanged(Lookup(table, k), ReducedEntry(table, k, g))
<1> DEFINE ek      == EndpointKeyOf(g)
           current == Lookup(table, k)
           reduced == ReducedEntry(table, k, g)
<1>1. k \in RoutingKeys /\ current.endpoints[ek] # Nil
  BY DEF KeysToReduce, NewRoutingKeysFromActual
<1>2. current \in RoutableEndpoints /\ ek \in EndpointKeys
  BY <1>1, LookupType, ResolveType
<1>3. reduced \in RoutableEndpoints
  BY <1>2, WithEndpointType DEF ReducedEntry
<1>4. PresentEndpoints(reduced) = PresentEndpoints(current) \ {ek}
  BY <1>2 DEF PresentEndpoints, ReducedEntry, WithEndpoint, RoutableEndpoints
<1>5. ek \in PresentEndpoints(current)
  BY <1>1, <1>2 DEF PresentEndpoints
<1>6. IsFiniteSet(PresentEndpoints(current))
  <2>1. PresentEndpoints(current) \subseteq EndpointKeys
    BY DEF PresentEndpoints
  <2> QED
    BY <2>1, FiniteEndpointKeys, FS_Subset
<1> HIDE DEF ek, current, reduced
<1>7. /\ Cardinality(PresentEndpoints(reduced)) = Cardinality(PresentEndpoints(current)) - 1
      /\ Cardinality(PresentEndpoints(current)) \in Nat
  BY <1>4, <1>5, <1>6, FS_RemoveElement, FS_CardinalityType
<1>8. HaveEndpointsChanged(current, reduced)
  BY <1>7 DEF HaveEndpointsChanged
<1> QED
  BY <1>1, <1>3, <1>8 DEF current, reduced

\* RemoveEndpoint at one key.
LEMMA RemoveEndpointEffect ==
  ASSUME NEW table \in Tables, NEW g \in ActualLRPGroups, NEW k \in RoutingKeys
  PROVE  LET reduced == ReducedEntry(table, k, g)
             removed == k \in KeysToReduce(table, g)
             result  == RemoveEndpoint(table, g)
         IN  /\ result.entries[k] = IF removed THEN reduced ELSE table[k]
             /\ Announced(result.events, Registration, k) = {}
             /\ Announced(result.events, Unregistration, k)
                  = IF removed THEN Mappings(getDeletedEntry(Lookup(table, k), reduced))
                               ELSE {}
<1> DEFINE K       == KeysToReduce(table, g)
           reduced == ReducedEntry(table, k, g)
           deleted == getDeletedEntry(Lookup(table, k), reduced)
           events  == UnregistrationEvents(k, Lookup(table, k), reduced)
           result  == RemoveEndpoint(table, g)
<1>1. result.entries[k] = IF k \in K THEN reduced ELSE table[k]
  BY DEF RemoveEndpoint
<1>2. result.events = UNION {UnregistrationEvents(j, Lookup(table, j),
                                                  ReducedEntry(table, j, g)) : j \in K}
  BY DEF RemoveEndpoint
<1>3. \A j : \A e \in UnregistrationEvents(j, Lookup(table, j), ReducedEntry(table, j, g)) :
        e.key = j
  BY AnnouncedByEvent DEF UnregistrationEvents
<1>4. k \in K => /\ Announced(events, Registration, k) = {}
                 /\ Announced(events, Unregistration, k) = Mappings(deleted)
  <2>1. k \in K => events = createRoutingEvent(k, deleted, Unregistration)
    BY ReducedEntryHasChanged DEF UnregistrationEvents
  <2> HIDE DEF K, events, deleted
  <2> QED
    BY <2>1, AnnouncedByEvent DEF Registration, Unregistration
<1>5. \A e : e.key = k => (e \in result.events <=> e \in IF k \in K THEN events ELSE {})
  <2> HIDE DEF K, result
  <2> QED
    BY <1>2, <1>3
<1> HIDE DEF K, events, reduced, deleted, result
<1>6. ASSUME NEW type
      PROVE  Announced(result.events, type, k)
               = IF k \in K THEN Announced(events, type, k) ELSE {}
  <2> DEFINE here == IF k \in K THEN events ELSE {}
  <2>1. Announced(here, type, k) = IF k \in K THEN Announced(events, type, k) ELSE {}
    BY AnnouncedByNone
  <2>2. \A e : e.key = k => (e \in result.events <=> e \in here)
    BY <1>5
  <2> HIDE DEF here
  <2> QED
    BY <2>1, <2>2, AnnouncedAtKey
<1> QED
  BY <1>1, <1>4, <1>6 DEF K, reduced, deleted, result

\* Swap at one key.
LEMMA SwapEffect ==
  ASSUME NEW table \in Tables, NEW newTable \in Tables, NEW k \in RoutingKeys
  PROVE  LET events == Swap(table, newTable).events
             old    == Lookup(table, k)
         IN  /\ Announced(events, Registration, k) = Held(newTable, k)
             /\ Announced(events, Unregistration, k)
                  = IF newTable[k] # Nil
                      THEN Mappings(RemoveExternalEndpoints(
                                      old, newTable[k].externalEndpoints))
                      ELSE Mappings(old)
<1> DEFINE here   == SwapEvents(table, newTable, k)
           events == Swap(table, newTable).events
           old    == Lookup(table, k)
           kept   == RemoveExternalEndpoints(old, newTable[k].externalEndpoints)
<1>1. events = UNION {SwapEvents(table, newTable, j) : j \in RoutingKeys}
  BY DEF Swap
<1>2. \A j : \A e \in SwapEvents(table, newTable, j) : e.key = j
  BY AnnouncedByEvent DEF SwapEvents
<1>3. \A e : e.key = k => (e \in events <=> e \in here)
  <2> HIDE DEF events
  <2> QED
    BY <1>1, <1>2
<1>4. \A type : Announced(events, type, k) = Announced(here, type, k)
  <2> HIDE DEF events, here
  <2> QED
    BY <1>3, AnnouncedAtKey
<1>5. CASE newTable[k] # Nil
  <2> DEFINE regs   == createRoutingEvent(k, newTable[k], Registration)
             unregs == createRoutingEvent(k, kept, Unregistration)
  <2>1. here = regs \cup unregs
    BY <1>5 DEF SwapEvents
  <2>2. /\ Announced(regs, Registration, k) = Mappings(newTable[k])
        /\ Announced(regs, Unregistration, k) = {}
        /\ Announced(unregs, Registration, k) = {}
        /\ Announced(unregs, Unregistration, k) = Mappings(kept)
    <3> HIDE DEF kept
    <3> QED
      BY AnnouncedByEvent DEF Registration, Unregistration
  <2> HIDE DEF regs, unregs, here, kept, events
  <2>3. \A type : Announced(here, type, k)
                    = Announced(regs, type, k) \cup Announced(unregs, type, k)
    BY <2>1, AnnouncedByUnion
  <2>4. Held(newTable, k) = Mappings(newTable[k])
    BY <1>5 DEF Held, Lookup
  <2> QED
    BY <1>4, <1>5, <2>2, <2>3, <2>4 DEF kept, events
<1>6. CASE newTable[k] = Nil
  <2>1. here = createRoutingEvent(k, old, Unregistration)
    BY <1>6 DEF SwapEvents
  <2>2. Held(newTable, k) = {}
    BY <1>6 DEF Held, Lookup, ZeroEntry, Mappings
  <2> HIDE DEF here, events, old
  <2>3. Announced(here, Registration, k) = {} /\ Announced(here, Unregistration, k) = Mappings(old)
    BY <2>1, AnnouncedByEvent DEF Registration, Unregistration
  <2> QED
    BY <1>4, <1>6, <2>2, <2>3 DEF events, old
<1> QED
  BY <1>5, <1>6

\* GetRoutingEvents at one key.
LEMMA GetRoutingEventsEffect ==
  ASSUME NEW table \in Tables, NEW k \in RoutingKeys
  PROVE  /\ Announced(GetRoutingEvents(table), Registration, k) = Held(table, k)
         /\ Announced(GetRoutingEvents(table), Unregistration, k) = {}
<1> DEFINE here   == createRoutingEvent(k, Lookup(table, k), Registration)
           events == GetRoutingEvents(table)
<1>1. events = UNION {createRoutingEvent(j, Lookup(table, j), Registration) : j \in RoutingKeys}
  BY DEF GetRoutingEvents
<1>2. \A j : \A e \in createRoutingEvent(j, Lookup(table, j), Registration) : e.key = j
  BY AnnouncedByEvent
<1>3. \A e : e.key = k => (e \in events <=> e \in here)
  <2> HIDE DEF events
  <2> QED
    BY <1>1, <1>2
<1>4. \A type : Announced(events, type, k) = Announced(here, type, k)
  <2> HIDE DEF events, here
  <2> QED
    BY <1>3, AnnouncedAtKey
<1>5. Announced(here, Registration, k) = Held(table, k) /\ Announced(here, Unregistration, k) = {}
  BY AnnouncedByEvent DEF Registration, Unregistration, Held
<1> HIDE DEF here, events
<1> QED
  BY <1>4, <1>5 DEF events

-----------------------------------------------------------------------------
(* Each operation, key by key *)

\* What every operation guarantees at a key: new mappings are registered, and
\* its events describe the table.
Sound(table, result, k) ==
  /\ Held(result.entries, k) \ Held(table, k)
       \subseteq Announced(result.events, Registration, k)
  /\ Announced(result.events, Registration, k) \subseteq Held(result.entries, k)
  /\ Announced(result.events, Unregistration, k) \subseteq Held(table, k)

\* What most operations guarantee besides: they unregister no mapping that the
\* key still holds.
SparesHeld(result, k) ==
  Announced(result.events, Unregistration, k) \cap Held(result.entries, k) = {}

\* The mappings of an entry that has lost external endpoints are those of the
\* ports it still has.
LEMMA RemainingMappings ==
  ASSUME NEW entry \in RoutableEndpoints, NEW externals, NEW m
  PROVE  m \in Mappings(RemoveExternalEndpoints(entry, externals))
           <=> m \in Mappings(entry) /\ ~ContainsExternalPort(externals, m.external.port)
<1> DEFINE rest == RemoveExternalEndpoints(entry, externals)
<1>1. /\ rest.externalEndpoints
           = {x \in entry.externalEndpoints : ~ContainsExternalPort(externals, x.port)}
      /\ rest.endpoints = entry.endpoints
  BY DEF RemoveExternalEndpoints, Remove, RoutableEndpoints
<1>2. PresentEndpoints(rest) = PresentEndpoints(entry)
  BY <1>1 DEF PresentEndpoints
<1> HIDE DEF rest
<1>3. ASSUME m \in Mappings(rest)
      PROVE  m \in Mappings(entry) /\ ~ContainsExternalPort(externals, m.external.port)
  <2>1. PICK x \in rest.externalEndpoints, ek \in PresentEndpoints(rest) :
          m = [external |-> x, address |-> rest.endpoints[ek].address]
    BY <1>3 DEF Mappings
  <2>2. m.external = x
    BY <2>1
  <2> QED
    BY <1>1, <1>2, <2>1, <2>2 DEF Mappings
<1>4. ASSUME m \in Mappings(entry), ~ContainsExternalPort(externals, m.external.port)
      PROVE  m \in Mappings(rest)
  <2>1. PICK x \in entry.externalEndpoints, ek \in PresentEndpoints(entry) :
          m = [external |-> x, address |-> entry.endpoints[ek].address]
    BY <1>4 DEF Mappings
  <2>2. m.external = x
    BY <2>1
  <2> QED
    BY <1>1, <1>2, <1>4, <2>1, <2>2 DEF Mappings
<1> QED
  BY <1>3, <1>4 DEF rest

\* A mapping of an entry is for one of its external endpoints, hence for one
\* of its ports.
LEMMA MappingHasPort ==
  ASSUME NEW entry, NEW m \in Mappings(entry)
  PROVE  /\ m.external \in entry.externalEndpoints
         /\ ContainsExternalPort(entry.externalEndpoints, m.external.port)
<1>1. PICK x \in entry.externalEndpoints, ek \in PresentEndpoints(entry) :
        m = [external |-> x, address |-> entry.endpoints[ek].address]
  BY DEF Mappings
<1>2. m.external = x
  BY <1>1
<1> QED
  BY <1>2 DEF ContainsExternalPort

\* AddRoutes is sound at every key, and unregisters what a key holds only where
\* it leaves the entry as it was.
LEMMA AddRoutesSound ==
  ASSUME NEW table \in Tables, NEW d \in DesiredLRPs, NEW k \in RoutingKeys
  PROVE  /\ Sound(table, AddRoutes(table, d), k)
         /\ \/ SparesHeld(AddRoutes(table, d), k)
            \/ AddRoutes(table, d).entries[k] = table[k]
<1> DEFINE existing  == Lookup(table, k)
           externals == NewExternalEndpoints(k, d)
           updated   == UpdatedEntry(existing, externals, d.modificationTag)
           merged    == k \in KeysToMerge(table, d)
           needed    == RegistrationNeeded(existing, externals)
           rest      == RemoveExternalEndpoints(existing, externals)
           result    == AddRoutes(table, d)
<1>1. /\ result.entries[k] = IF merged /\ needed THEN updated ELSE table[k]
      /\ Announced(result.events, Registration, k)
           = IF merged /\ needed THEN Mappings(updated) ELSE {}
      /\ Announced(result.events, Unregistration, k)
           = IF merged THEN Mappings(rest) ELSE {}
  BY AddRoutesEffect
<1>2. existing \in RoutableEndpoints
  BY LookupType
<1>3. d.modificationTag \in ModificationTags
  BY DEF DesiredLRPs
<1>4. updated \in RoutableEndpoints /\ updated.externalEndpoints = externals
  BY <1>2, <1>3, NewExternalEndpointsType, UpdatedEntryType
  DEF UpdatedEntry, RoutableEndpoints
<1>5. Held(table, k) = Mappings(existing)
  BY DEF Held
<1> HIDE DEF existing, externals, updated, merged, needed, rest, result
<1>6. Mappings(rest) \subseteq Mappings(existing)
  BY <1>2, RemainingMappings DEF rest
<1>7. Mappings(rest) \cap Mappings(updated) = {}
  <2> SUFFICES ASSUME NEW m, m \in Mappings(rest), m \in Mappings(updated) PROVE FALSE
    OBVIOUS
  <2>1. ~ContainsExternalPort(externals, m.external.port)
    BY <1>2, RemainingMappings DEF rest
  <2>2. ContainsExternalPort(externals, m.external.port)
    BY <1>4, MappingHasPort
  <2> QED
    BY <2>1, <2>2
<1>8. CASE merged /\ needed
  <2>1. Held(result.entries, k) = Mappings(updated)
    BY <1>1, <1>4, <1>8, NilIsNoEntry DEF Held, Lookup
  <2> QED
    BY <1>1, <1>5, <1>6, <1>7, <1>8, <2>1 DEF Sound, SparesHeld, result
<1>9. CASE ~(merged /\ needed)
  <2>1. Held(result.entries, k) = Mappings(existing)
    BY <1>1, <1>9 DEF Held, Lookup, existing
  <2> QED
    BY <1>1, <1>5, <1>6, <1>9, <2>1 DEF Sound, result
<1> QED
  BY <1>8, <1>9

\* removeRoutingKeys is sound at every key, and spares what the key holds.
LEMMA RemoveRoutingKeysSound ==
  ASSUME NEW table \in Tables, NEW keys \in SUBSET RoutingKeys, NEW tag,
         NEW k \in RoutingKeys
  PROVE  /\ Sound(table, removeRoutingKeys(table, keys, tag), k)
         /\ SparesHeld(removeRoutingKeys(table, keys, tag), k)
<1> DEFINE gone   == k \in KeysToDelete(table, keys, tag)
           result == removeRoutingKeys(table, keys, tag)
<1>1. /\ result.entries[k] = IF gone THEN Nil ELSE table[k]
      /\ Announced(result.events, Registration, k) = {}
      /\ Announced(result.events, Unregistration, k) = IF gone THEN Mappings(table[k]) ELSE {}
  BY RemoveRoutingKeysEffect
<1>2. gone => Held(table, k) = Mappings(table[k])
  BY DEF KeysToDelete, Held, Lookup
<1> HIDE DEF gone, result
<1>3. IF gone THEN Held(result.entries, k) = {} ELSE Held(result.entries, k) = Held(table, k)
  BY <1>1 DEF Held, Lookup, ZeroEntry, Mappings
<1> QED
  BY <1>1, <1>2, <1>3 DEF Sound, SparesHeld, result

\* UpdateRoutes is sound at every key, and unregisters what a key holds only
\* where it leaves the entry as it was.
LEMMA UpdateRoutesSound ==
  ASSUME NEW table \in Tables, NEW before \in DesiredLRPs, NEW after \in DesiredLRPs,
         NEW k \in RoutingKeys
  PROVE  /\ Sound(table, UpdateRoutes(table, before, after), k)
         /\ \/ SparesHeld(UpdateRoutes(table, before, after), k)
            \/ UpdateRoutes(table, before, after).entries[k] = table[k]
<1> DEFINE deleted == NewRoutingKeysFromDesired(before) \ NewRoutingKeysFromDesired(after)
           same    == IF k \in NewRoutingKeysFromDesired(after)
                        THEN AddRoutes(table, after)
                        ELSE removeRoutingKeys(table, deleted, after.modificationTag)
           result  == UpdateRoutes(table, before, after)
<1>1. deleted \in SUBSET RoutingKeys
  BY DEF NewRoutingKeysFromDesired
<1>2. Sound(table, same, k) /\ (SparesHeld(same, k) \/ same.entries[k] = table[k])
  <2> HIDE DEF deleted
  <2> QED
    BY <1>1, AddRoutesSound, RemoveRoutingKeysSound
<1>3. /\ result.entries[k] = same.entries[k]
      /\ Announced(result.events, Registration, k) = Announced(same.events, Registration, k)
      /\ Announced(result.events, Unregistration, k) = Announced(same.events, Unregistration, k)
  BY UpdateRoutesEffect
<1> HIDE DEF same, result
<1>4. Held(result.entries, k) = Held(same.entries, k)
  BY <1>3 DEF Held, Lookup
<1> QED
  BY <1>2, <1>3, <1>4 DEF Sound, SparesHeld, result

\* AddEndpoint is sound at every key, and spares what the key holds.
LEMMA AddEndpointSound ==
  ASSUME NEW table \in Tables, NEW g \in ActualLRPGroups, NEW k \in RoutingKeys
  PROVE  Sound(table, AddEndpoint(table, g), k) /\ SparesHeld(AddEndpoint(table, g), k)
<1> DEFINE extended == ExtendedEntry(table, k, g)
           added    == k \in KeysToExtend(table, g)
           result   == AddEndpoint(table, g)
<1>1. /\ result.entries[k] = IF added THEN extended ELSE table[k]
      /\ Announced(result.events, Registration, k)
           = IF added THEN Mappings(extended) ELSE {}
      /\ Announced(result.events, Unregistration, k) = {}
  BY AddEndpointEffect
<1>2. added => extended # Nil
  BY ExtendedEntryHasChanged, NilIsNoEntry
<1> HIDE DEF extended, added, result
<1>3. Held(result.entries, k) = IF added THEN Mappings(extended) ELSE Held(table, k)
  BY <1>1, <1>2 DEF Held, Lookup
<1> QED
  BY <1>1, <1>3 DEF Sound, SparesHeld, result

\* Where RemoveEndpoint takes an endpoint away, it announces the mappings of
\* that endpoint: all that the entry loses, and nothing it keeps unless
\* another endpoint has the same address.
LEMMA ReducedMappings ==
  ASSUME NEW table \in Tables, NEW g \in ActualLRPGroups, NEW k \in RoutingKeys,
         k \in KeysToReduce(table, g)
  PROVE  LET current == Lookup(table, k)
             reduced == ReducedEntry(table, k, g)
             deleted == getDeletedEntry(current, reduced)
         IN  /\ Mappings(reduced) \subseteq Mappings(current)
             /\ Mappings(deleted) \subseteq Mappings(current)
             /\ Mappings(current) \ Mappings(reduced) \subseteq Mappings(deleted)
             /\ \A m \in Mappings(deleted) \cap Mappings(reduced) :
                  SharesAddress(current, m.address)
<1> DEFINE ek      == EndpointKeyOf(g)
           current == Lookup(table, k)
           reduced == ReducedEntry(table, k, g)
           deleted == getDeletedEntry(current, reduced)
<1>1. current \in RoutableEndpoints /\ ek \in EndpointKeys /\ current.endpoints[ek] # Nil
  BY LookupType, ResolveType DEF KeysToReduce
<1>2. /\ reduced.externalEndpoints = current.externalEndpoints
      /\ \A j \in EndpointKeys : j # ek => reduced.endpoints[j] = current.endpoints[j]
      /\ reduced.endpoints[ek] = Nil
  BY <1>1 DEF ReducedEntry, WithEndpoint, RoutableEndpoints
<1>3. /\ deleted.externalEndpoints = current.externalEndpoints
      /\ \A j \in EndpointKeys : deleted.endpoints[j] =
           IF reduced.endpoints[j] # Nil THEN Nil ELSE current.endpoints[j]
  <2> HIDE DEF current, reduced
  <2> QED
    BY <1>1 DEF getDeletedEntry, RoutableEndpoints
<1> HIDE DEF ek, current, reduced, deleted
<1>4. /\ PresentEndpoints(reduced) = PresentEndpoints(current) \ {ek}
      /\ PresentEndpoints(deleted) = {ek}
      /\ ek \in PresentEndpoints(current)
  BY <1>1, <1>2, <1>3 DEF PresentEndpoints
<1>5. /\ deleted.endpoints[ek] = current.endpoints[ek]
      /\ \A j \in PresentEndpoints(reduced) : reduced.endpoints[j] = current.endpoints[j]
  BY <1>1, <1>2, <1>3, <1>4 DEF PresentEndpoints
<1>6. Mappings(reduced) \subseteq Mappings(current)
  BY <1>2, <1>4, <1>5 DEF Mappings
<1>7. Mappings(deleted) \subseteq Mappings(current)
  BY <1>3, <1>4, <1>5 DEF Mappings
<1>8. Mappings(current) \ Mappings(reduced) \subseteq Mappings(deleted)
  BY <1>2, <1>3, <1>4, <1>5 DEF Mappings
<1>9. ASSUME NEW m, m \in Mappings(deleted), m \in Mappings(reduced)
      PROVE  SharesAddress(current, m.address)
  <2>1. m.address = current.endpoints[ek].address
    BY <1>4, <1>5, <1>9 DEF Mappings
  <2>2. PICK j \in PresentEndpoints(reduced) : m.address = current.endpoints[j].address
    BY <1>5, <1>9 DEF Mappings
  <2> QED
    BY <1>4, <2>1, <2>2 DEF SharesAddress
<1> QED
  BY <1>6, <1>7, <1>8, <1>9 DEF current, reduced, deleted

\* RemoveEndpoint is sound at every key, unregisters all that the key stops
\* holding, and what it holds only at an address that two endpoints share.
LEMMA RemoveEndpointSound ==
  ASSUME NEW table \in Tables, NEW g \in ActualLRPGroups, NEW k \in RoutingKeys
  PROVE  /\ Sound(table, RemoveEndpoint(table, g), k)
         /\ Held(table, k) \ Held(RemoveEndpoint(table, g).entries, k)
              \subseteq Announced(RemoveEndpoint(table, g).events, Unregistration, k)
         /\ \A m \in Announced(RemoveEndpoint(table, g).events, Unregistration, k)
                    \cap Held(RemoveEndpoint(table, g).entries, k) :
              SharesAddress(Lookup(table, k), m.address)
<1> DEFINE current == Lookup(table, k)
           reduced == ReducedEntry(table, k, g)
           deleted == getDeletedEntry(current, reduced)
           removed == k \in KeysToReduce(table, g)
           result  == RemoveEndpoint(table, g)
<1>1. /\ result.entries[k] = IF removed THEN reduced ELSE table[k]
      /\ Announced(result.events, Registration, k) = {}
      /\ Announced(result.events, Unregistration, k)
           = IF removed THEN Mappings(deleted) ELSE {}
  BY RemoveEndpointEffect
<1>2. removed => reduced # Nil
  BY ReducedEntryHasChanged, NilIsNoEntry
<1>3. removed => /\ Mappings(reduced) \subseteq Mappings(current)
                 /\ Mappings(deleted) \subseteq Mappings(current)
                 /\ Mappings(current) \ Mappings(reduced) \subseteq Mappings(deleted)
                 /\ \A m \in Mappings(deleted) \cap Mappings(reduced) :
                      SharesAddress(current, m.address)
  BY ReducedMappings
<1> HIDE DEF reduced, deleted, removed, result
<1>4. Held(result.entries, k) = IF removed THEN Mappings(reduced) ELSE Mappings(current)
  BY <1>1, <1>2 DEF Held, Lookup
<1>5. Held(table, k) = Mappings(current)
  BY DEF Held
<1> HIDE DEF current
<1> QED
  BY <1>1, <1>3, <1>4, <1>5 DEF Sound, result, current

\* Swap is sound at every key, and never unregisters what it registers.
LEMMA SwapSound ==
  ASSUME NEW table \in Tables, NEW newTable \in Tables, NEW k \in RoutingKeys
  PROVE  /\ Sound(table, Swap(table, newTable), k)
         /\ Announced(Swap(table, newTable).events, Registration, k) = Held(newTable, k)
         /\ Announced(Swap(table, newTable).events, Unregistration, k) \cap Held(newTable, k) = {}
<1> DEFINE old    == Lookup(table, k)
           rest   == RemoveExternalEndpoints(old, newTable[k].externalEndpoints)
           events == Swap(table, newTable).events
<1>1. /\ Announced(events, Registration, k) = Held(newTable, k)
      /\ Announced(events, Unregistration, k)
           = IF newTable[k] # Nil THEN Mappings(rest) ELSE Mappings(old)
  BY SwapEffect
<1>2. Swap(table, newTable).entries = newTable
  BY DEF Swap
<1>3. old \in RoutableEndpoints /\ Held(table, k) = Mappings(old)
  BY LookupType DEF Held
<1>4. Mappings(rest) \subseteq Mappings(old)
  <2> HIDE DEF old
  <2> QED
    BY <1>3, RemainingMappings
<1>5. newTable[k] # Nil => Mappings(rest) \cap Held(newTable, k) = {}
  <2> SUFFICES ASSUME newTable[k] # Nil, NEW m, m \in Mappings(rest), m \in Held(newTable, k)
               PROVE  FALSE
    OBVIOUS
  <2>1. ContainsExternalPort(newTable[k].externalEndpoints, m.external.port)
    BY MappingHasPort DEF Held, Lookup
  <2> HIDE DEF old
  <2> QED
    BY <1>3, <2>1, RemainingMappings
<1>6. newTable[k] = Nil => Held(newTable, k) = {}
  BY DEF Held, Lookup, ZeroEntry, Mappings
<1> HIDE DEF old, rest, events
<1> QED
  BY <1>1, <1>2, <1>3, <1>4, <1>5, <1>6 DEF Sound, events

\* GetRoutingEvents is sound at every key.
LEMMA GetRoutingEventsSound ==
  ASSUME NEW table \in Tables, NEW k \in RoutingKeys
  PROVE  /\ Sound(table, [entries |-> table, events |-> GetRoutingEvents(table)], k)
         /\ SparesHeld([entries |-> table, events |-> GetRoutingEvents(table)], k)
BY GetRoutingEventsEffect DEF Sound, SparesHeld

-----------------------------------------------------------------------------
(* The properties of the routing table *)

\* Every call is sound at every key, RemoveEndpoint and Swap give more, and
\* two cases are left in which a call unregisters what a key still holds.
LEMMA CallsAreSound ==
  ASSUME TypeOK, Next, NEW k \in RoutingKeys
  PROVE  /\ Sound(entries, [entries |-> entries', events |-> returned'], k)
         /\ op' = "RemoveEndpoint" =>
              Held(entries, k) \ Held(entries', k)
                \subseteq Announced(returned', Unregistration, k)
         /\ op' = "Swap" =>
              /\ Announced(returned', Registration, k) = Held(entries', k)
              /\ Announced(returned', Unregistration, k) \cap Held(entries', k) = {}
         /\ \/ SparesHeld([entries |-> entries', events |-> returned'], k)
            \/ op' \in {"AddRoutes", "UpdateRoutes"} /\ entries'[k] = entries[k]
            \/ /\ op' = "RemoveEndpoint"
               /\ \A m \in Announced(returned', Unregistration, k) \cap Held(entries', k) :
                    SharesAddress(Lookup(entries, k), m.address)
<1> DEFINE Goal == /\ Sound(entries, [entries |-> entries', events |-> returned'], k)
                   /\ op' = "RemoveEndpoint" =>
                        Held(entries, k) \ Held(entries', k)
                          \subseteq Announced(returned', Unregistration, k)
                   /\ op' = "Swap" =>
                        /\ Announced(returned', Registration, k) = Held(entries', k)
                        /\ Announced(returned', Unregistration, k) \cap Held(entries', k) = {}
                   /\ \/ SparesHeld([entries |-> entries', events |-> returned'], k)
                      \/ op' \in {"AddRoutes", "UpdateRoutes"} /\ entries'[k] = entries[k]
                      \/ /\ op' = "RemoveEndpoint"
                         /\ \A m \in Announced(returned', Unregistration, k) \cap Held(entries', k) :
                              SharesAddress(Lookup(entries, k), m.address)
<1>0. entries \in Tables
  BY DEF TypeOK
<1>1. ASSUME NEW name, NEW result, Returns(name, result), Sound(entries, result, k)
      PROVE  /\ op' = name /\ entries' = result.entries /\ returned' = result.events
             /\ Sound(entries, [entries |-> entries', events |-> returned'], k)
             /\ SparesHeld(result, k) => SparesHeld([entries |-> entries', events |-> returned'], k)
  BY <1>1 DEF Returns, Sound, SparesHeld
<1>2. ASSUME NEW d \in DesiredInputs, CallAddRoutes(d) PROVE Goal
  BY <1>0, <1>1, <1>2, InputsAssumption, AddRoutesSound DEF CallAddRoutes
<1>3. ASSUME NEW c \in DesiredChanges, CallUpdateRoutes(c) PROVE Goal
  <2>1. c.before \in DesiredLRPs /\ c.after \in DesiredLRPs
    BY InputsAssumption
  <2> QED
    BY <1>0, <1>1, <1>3, <2>1, UpdateRoutesSound DEF CallUpdateRoutes
<1>4. ASSUME NEW d \in DesiredInputs, CallRemoveRoutes(d) PROVE Goal
  <2>1. d.modificationTag \in ModificationTags /\ NewRoutingKeysFromDesired(d) \in SUBSET RoutingKeys
    BY InputsAssumption DEF DesiredLRPs, NewRoutingKeysFromDesired
  <2>2. Sound(entries, RemoveRoutes(entries, d), k) /\ SparesHeld(RemoveRoutes(entries, d), k)
    BY <1>0, <2>1, RemoveRoutingKeysSound DEF RemoveRoutes
  <2> QED
    BY <1>1, <1>4, <2>2 DEF CallRemoveRoutes
<1>5. ASSUME NEW g \in ActualInputs, CallAddEndpoint(g) PROVE Goal
  BY <1>0, <1>1, <1>5, InputsAssumption, AddEndpointSound DEF CallAddEndpoint
<1>6. ASSUME NEW g \in ActualInputs, CallRemoveEndpoint(g) PROVE Goal
  BY <1>0, <1>1, <1>6, InputsAssumption, RemoveEndpointSound DEF CallRemoveEndpoint
<1>7. ASSUME NEW t \in SwapTables, CallSwap(t) PROVE Goal
  <2>1. t \in Tables /\ Swap(entries, t).entries = t
    BY InputsAssumption DEF Swap
  <2> QED
    BY <1>0, <1>1, <1>7, <2>1, SwapSound DEF CallSwap, SparesHeld
<1>8. CASE CallGetRoutingEvents
  BY <1>0, <1>1, <1>8, GetRoutingEventsSound DEF CallGetRoutingEvents
<1> QED
  BY <1>2, <1>3, <1>4, <1>5, <1>6, <1>7, <1>8 DEF Next

\* The checks that suppress a registration as "no change" never suppress a
\* new mapping.
THEOREM TableNewMappingsAreRegistered == Spec => NewMappingsAreRegistered
<1> DEFINE P == \A k \in RoutingKeys :
                  Held(entries', k) \ Held(entries, k)
                    \subseteq Announced(returned', Registration, k)
<1>1. ASSUME TypeOK, [Next]_vars PROVE [P]_vars
  BY <1>1, CallsAreSound DEF Sound
<1> QED
  BY TableTypeOK, <1>1, PTL DEF Spec, NewMappingsAreRegistered

\* No event is made up.
THEOREM TableEventsDescribeTheTable == Spec => EventsDescribeTheTable
<1> DEFINE P == \A k \in RoutingKeys :
                  /\ Announced(returned', Registration, k) \subseteq Held(entries', k)
                  /\ Announced(returned', Unregistration, k) \subseteq Held(entries, k)
<1>1. ASSUME TypeOK, [Next]_vars PROVE [P]_vars
  BY <1>1, CallsAreSound DEF Sound
<1> QED
  BY TableTypeOK, <1>1, PTL DEF Spec, EventsDescribeTheTable

\* RemoveEndpoint unregisters every mapping a key stops holding.
THEOREM TableRemovedEndpointsAreUnregistered == Spec => RemovedEndpointsAreUnregistered
<1> DEFINE P == op' = "RemoveEndpoint" =>
                  \A k \in RoutingKeys :
                    Held(entries, k) \ Held(entries', k)
                      \subseteq Announced(returned', Unregistration, k)
<1>1. ASSUME TypeOK, [Next]_vars PROVE [P]_vars
  BY <1>1, CallsAreSound
<1> QED
  BY TableTypeOK, <1>1, PTL DEF Spec, RemovedEndpointsAreUnregistered

\* A mapping the table keeps is unregistered in two cases only: the entry
\* mergeRoutes leaves as it was, and the address of the twin of an endpoint that
\* RemoveEndpoint removes.
THEOREM TableLiveMappingsStayRegistered == Spec => LiveMappingsStayRegistered
<1> DEFINE P == \A k \in RoutingKeys :
                  \A m \in Announced(returned', Unregistration, k) \cap Held(entries', k) :
                    \/ op' \in {"AddRoutes", "UpdateRoutes"} /\ entries'[k] = entries[k]
                    \/ op' = "RemoveEndpoint" /\ SharesAddress(Lookup(entries, k), m.address)
<1>1. ASSUME TypeOK, [Next]_vars PROVE [P]_vars
  BY <1>1, CallsAreSound DEF SparesHeld
<1> QED
  BY TableTypeOK, <1>1, PTL DEF Spec, LiveMappingsStayRegistered

\* A swap registers all of the new table and unregisters nothing of it.
THEOREM TableSwapRegistersTheNewTable == Spec => SwapRegistersTheNewTable
<1> DEFINE P == op' = "Swap" =>
                  \A k \in RoutingKeys :
                    /\ Announced(returned', Registration, k) = Held(entries', k)
                    /\ Announced(returned', Unregistration, k) \cap Held(entries', k) = {}
<1>1. ASSUME TypeOK, [Next]_vars PROVE [P]_vars
  BY <1>1, CallsAreSound
<1> QED
  BY TableTypeOK, <1>1, PTL DEF Spec, SwapRegistersTheNewTable

-----------------------------------------------------------------------------
(* Tags *)

\* The tags an operation leaves at a key are not older than the ones it found.
Ages(table, result, k) ==
  LET old == Lookup(table, k)
      new == Lookup(result.entries, k)
  IN  /\ NotOlder(old.modificationTag, new.modificationTag)
      /\ \A ek \in PresentEndpoints(old) \cap PresentEndpoints(new) :
           NotOlder(old.endpoints[ek].modificationTag, new.endpoints[ek].modificationTag)

\* A tag is not older than itself, nor than one it is succeeded by.
LEMMA NotOlderFacts ==
  ASSUME NEW t \in ModificationTags \cup {Nil}, NEW other \in ModificationTags \cup {Nil},
         t = other \/ SucceededBy(t, other)
  PROVE  NotOlder(t, other)
BY DEF NotOlder, SucceededBy, ModificationTags

\* A key an operation leaves alone, or empties, keeps its tags.
LEMMA UntouchedAges ==
  ASSUME NEW table \in Tables, NEW k \in RoutingKeys, NEW result,
         result.entries[k] = table[k] \/ result.entries[k] = Nil
  PROVE  Ages(table, result, k)
<1> DEFINE old == Lookup(table, k)
           new == Lookup(result.entries, k)
<1>1. old \in RoutableEndpoints
  BY LookupType
<1>2. CASE result.entries[k] = table[k]
  <2>1. new = old
    BY <1>2 DEF Lookup
  <2>2. NotOlder(old.modificationTag, old.modificationTag)
    BY <1>1, NotOlderFacts DEF RoutableEndpoints
  <2>3. ASSUME NEW ek \in PresentEndpoints(old)
        PROVE  NotOlder(old.endpoints[ek].modificationTag, old.endpoints[ek].modificationTag)
    <3>1. old.endpoints[ek] \in Endpoints
      BY <1>1 DEF PresentEndpoints, RoutableEndpoints
    <3> QED
      BY <3>1, NotOlderFacts DEF Endpoints
  <2> HIDE DEF old, new
  <2> QED
    BY <2>1, <2>2, <2>3 DEF Ages, old, new
<1>3. CASE result.entries[k] = Nil
  <2>1. new = ZeroEntry
    BY <1>3 DEF Lookup
  <2>2. PresentEndpoints(ZeroEntry) = {} /\ ZeroEntry.modificationTag = Nil
    BY DEF PresentEndpoints, ZeroEntry
  <2> HIDE DEF old, new
  <2> QED
    BY <2>1, <2>2 DEF Ages, NotOlder, old, new
<1> QED
  BY <1>2, <1>3

\* AddRoutes lets a desired LRP in only if its tag is newer.
LEMMA AddRoutesAges ==
  ASSUME NEW table \in Tables, NEW d \in DesiredLRPs, NEW k \in RoutingKeys
  PROVE  Ages(table, AddRoutes(table, d), k)
<1> DEFINE existing  == Lookup(table, k)
           externals == NewExternalEndpoints(k, d)
           updated   == UpdatedEntry(existing, externals, d.modificationTag)
           merged    == k \in KeysToMerge(table, d)
           needed    == RegistrationNeeded(existing, externals)
           result    == AddRoutes(table, d)
<1>1. result.entries[k] = IF merged /\ needed THEN updated ELSE table[k]
  BY AddRoutesEffect
<1>2. existing \in RoutableEndpoints /\ d.modificationTag \in ModificationTags
  BY LookupType DEF DesiredLRPs
<1>3. /\ updated \in RoutableEndpoints
      /\ updated.modificationTag = d.modificationTag
      /\ updated.endpoints = existing.endpoints
  BY <1>2, NewExternalEndpointsType, UpdatedEntryType DEF UpdatedEntry, RoutableEndpoints
<1>4. merged => SucceededBy(existing.modificationTag, d.modificationTag)
  BY DEF KeysToMerge
<1>5. ASSUME NEW ek \in PresentEndpoints(existing)
      PROVE  NotOlder(existing.endpoints[ek].modificationTag,
                      existing.endpoints[ek].modificationTag)
  <2>1. existing.endpoints[ek] \in Endpoints
    BY <1>2 DEF PresentEndpoints, RoutableEndpoints
  <2> QED
    BY <2>1, NotOlderFacts DEF Endpoints
<1> HIDE DEF existing, updated, merged, needed, result
<1>6. CASE merged /\ needed
  <2>1. Lookup(result.entries, k) = updated
    BY <1>1, <1>3, <1>6, NilIsNoEntry DEF Lookup
  <2>2. NotOlder(existing.modificationTag, updated.modificationTag)
    BY <1>2, <1>3, <1>4, <1>6, NotOlderFacts DEF RoutableEndpoints
  <2> QED
    BY <1>3, <1>5, <2>1, <2>2 DEF Ages, existing, result
<1>7. CASE ~(merged /\ needed)
  BY <1>1, <1>7, UntouchedAges DEF result
<1> QED
  BY <1>6, <1>7

\* An entry with one endpoint replaced by a newer one, or removed.
LEMMA WithEndpointAges ==
  ASSUME NEW table \in Tables, NEW k \in RoutingKeys, NEW result,
         NEW ek \in EndpointKeys, NEW endpoint \in Endpoints \cup {Nil},
         result.entries[k] = WithEndpoint(Lookup(table, k), ek, endpoint),
         \/ Lookup(table, k).endpoints[ek] = Nil
         \/ endpoint = Nil
         \/ SucceededBy(Lookup(table, k).endpoints[ek].modificationTag,
                        endpoint.modificationTag)
  PROVE  Ages(table, result, k)
<1> DEFINE old == Lookup(table, k)
           new == WithEndpoint(old, ek, endpoint)
<1>1. old \in RoutableEndpoints /\ new \in RoutableEndpoints
  BY LookupType, WithEndpointType
<1>2. Lookup(result.entries, k) = new
  BY <1>1, NilIsNoEntry DEF Lookup
<1>3. /\ new.modificationTag = old.modificationTag
      /\ new.endpoints[ek] = endpoint
      /\ \A j \in EndpointKeys : j # ek => new.endpoints[j] = old.endpoints[j]
  BY <1>1 DEF WithEndpoint, RoutableEndpoints
<1> HIDE DEF old, new
<1>4. NotOlder(old.modificationTag, new.modificationTag)
  BY <1>1, <1>3, NotOlderFacts DEF RoutableEndpoints
<1>5. ASSUME NEW j \in PresentEndpoints(old) \cap PresentEndpoints(new)
      PROVE  NotOlder(old.endpoints[j].modificationTag, new.endpoints[j].modificationTag)
  <2>1. /\ j \in EndpointKeys
        /\ old.endpoints[j] \in Endpoints /\ new.endpoints[j] \in Endpoints
    BY <1>1 DEF PresentEndpoints, RoutableEndpoints
  <2>2. \/ old.endpoints[j] = new.endpoints[j]
        \/ SucceededBy(old.endpoints[j].modificationTag, new.endpoints[j].modificationTag)
    BY <1>3, <1>5 DEF PresentEndpoints, old
  <2> QED
    BY <2>1, <2>2, NotOlderFacts DEF Endpoints
<1> QED
  BY <1>2, <1>4, <1>5 DEF Ages, old

\* AddEndpoint replaces an endpoint by a newer one only.
LEMMA AddEndpointAges ==
  ASSUME NEW table \in Tables, NEW g \in ActualLRPGroups, NEW k \in RoutingKeys
  PROVE  Ages(table, AddEndpoint(table, g), k)
<1>1. CASE k \in KeysToExtend(table, g)
  <2> DEFINE endpoint == NewEndpointFromActual(g, k.containerPort)
  <2>1. endpoint \in Endpoints
    BY <1>1, NewEndpointType DEF KeysToExtend
  <2>2. endpoint.modificationTag = Resolve(g).modificationTag
    BY DEF NewEndpointFromActual
  <2>3. AddEndpoint(table, g).entries[k]
          = WithEndpoint(Lookup(table, k), EndpointKeyOf(g), endpoint)
    BY <1>1, AddEndpointEffect DEF ExtendedEntry
  <2>4. \/ Lookup(table, k).endpoints[EndpointKeyOf(g)] = Nil
        \/ SucceededBy(Lookup(table, k).endpoints[EndpointKeyOf(g)].modificationTag,
                       endpoint.modificationTag)
    BY <1>1, <2>2 DEF KeysToExtend
  <2> HIDE DEF endpoint
  <2> QED
    BY <2>1, <2>3, <2>4, ResolveType, WithEndpointAges
<1>2. CASE k \notin KeysToExtend(table, g)
  <2>1. AddEndpoint(table, g).entries[k] = table[k]
    BY <1>2, AddEndpointEffect
  <2> QED
    BY <2>1, UntouchedAges
<1> QED
  BY <1>1, <1>2

\* RemoveEndpoint keeps the tags of what it does not remove.
LEMMA RemoveEndpointAges ==
  ASSUME NEW table \in Tables, NEW g \in ActualLRPGroups, NEW k \in RoutingKeys
  PROVE  Ages(table, RemoveEndpoint(table, g), k)
<1>1. CASE k \in KeysToReduce(table, g)
  <2>1. RemoveEndpoint(table, g).entries[k]
          = WithEndpoint(Lookup(table, k), EndpointKeyOf(g), Nil)
    BY <1>1, RemoveEndpointEffect DEF ReducedEntry
  <2> QED
    BY <2>1, ResolveType, WithEndpointAges
<1>2. CASE k \notin KeysToReduce(table, g)
  <2>1. RemoveEndpoint(table, g).entries[k] = table[k]
    BY <1>2, RemoveEndpointEffect
  <2> QED
    BY <2>1, UntouchedAges
<1> QED
  BY <1>1, <1>2

\* removeRoutingKeys leaves a key alone or empties it.
LEMMA RemoveRoutingKeysAges ==
  ASSUME NEW table \in Tables, NEW keys \in SUBSET RoutingKeys, NEW tag,
         NEW k \in RoutingKeys
  PROVE  Ages(table, removeRoutingKeys(table, keys, tag), k)
<1>1. \/ removeRoutingKeys(table, keys, tag).entries[k] = table[k]
      \/ removeRoutingKeys(table, keys, tag).entries[k] = Nil
  BY RemoveRoutingKeysEffect
<1> QED
  BY <1>1, UntouchedAges

\* UpdateRoutes does to the tags of a key what one of its two halves does.
LEMMA UpdateRoutesAges ==
  ASSUME NEW table \in Tables, NEW before \in DesiredLRPs, NEW after \in DesiredLRPs,
         NEW k \in RoutingKeys
  PROVE  Ages(table, UpdateRoutes(table, before, after), k)
<1> DEFINE deleted == NewRoutingKeysFromDesired(before) \ NewRoutingKeysFromDesired(after)
           same    == IF k \in NewRoutingKeysFromDesired(after)
                        THEN AddRoutes(table, after)
                        ELSE removeRoutingKeys(table, deleted, after.modificationTag)
           result  == UpdateRoutes(table, before, after)
<1>1. deleted \in SUBSET RoutingKeys
  BY DEF NewRoutingKeysFromDesired
<1>2. Ages(table, same, k)
  <2> HIDE DEF deleted
  <2> QED
    BY <1>1, AddRoutesAges, RemoveRoutingKeysAges
<1>3. result.entries[k] = same.entries[k]
  BY UpdateRoutesEffect
<1> HIDE DEF same, result
<1>4. Lookup(result.entries, k) = Lookup(same.entries, k)
  BY <1>3 DEF Lookup
<1> QED
  BY <1>2, <1>4 DEF Ages, result

\* A late or repeated argument never takes a stored tag back, whatever the
\* sequence of calls: AddRoutes and AddEndpoint compare with SucceededBy first.
THEOREM TableTagsNeverRegress == Spec => TagsNeverRegress
<1> DEFINE P == op' # "Swap" =>
                  \A k \in RoutingKeys :
                    LET old == Lookup(entries, k)
                        new == Lookup(entries', k)
                    IN  /\ NotOlder(old.modificationTag, new.modificationTag)
                        /\ \A ek \in PresentEndpoints(old) \cap PresentEndpoints(new) :
                             NotOlder(old.endpoints[ek].modificationTag,
                                      new.endpoints[ek].modificationTag)
<1>1. ASSUME TypeOK, [Next]_vars PROVE [P]_vars
  <2> SUFFICES ASSUME Next, op' # "Swap", NEW k \in RoutingKeys
               PROVE  Ages(entries, [entries |-> entries'], k)
    BY <1>1 DEF Ages
  <2>0. entries \in Tables
    BY <1>1 DEF TypeOK
  <2>1. ASSUME NEW name, NEW result, Returns(name, result), Ages(entries, result, k)
        PROVE  Ages(entries, [entries |-> entries'], k)
    BY <2>1 DEF Returns, Ages
  <2>2. ASSUME NEW d \in DesiredInputs, CallAddRoutes(d)
        PROVE  Ages(entries, [entries |-> entries'], k)
    BY <2>0, <2>1, <2>2, InputsAssumption, AddRoutesAges DEF CallAddRoutes
  <2>3. ASSUME NEW c \in DesiredChanges, CallUpdateRoutes(c)
        PROVE  Ages(entries, [entries |-> entries'], k)
    <3>1. c.before \in DesiredLRPs /\ c.after \in DesiredLRPs
      BY InputsAssumption
    <3> QED
      BY <2>0, <2>1, <2>3, <3>1, UpdateRoutesAges DEF CallUpdateRoutes
  <2>4. ASSUME NEW d \in DesiredInputs, CallRemoveRoutes(d)
        PROVE  Ages(entries, [entries |-> entries'], k)
    <3>1. NewRoutingKeysFromDesired(d) \in SUBSET RoutingKeys
      BY DEF NewRoutingKeysFromDesired
    <3>2. Ages(entries, RemoveRoutes(entries, d), k)
      BY <2>0, <3>1, RemoveRoutingKeysAges DEF RemoveRoutes
    <3> QED
      BY <2>1, <2>4, <3>2 DEF CallRemoveRoutes
  <2>5. ASSUME NEW g \in ActualInputs, CallAddEndpoint(g)
        PROVE  Ages(entries, [entries |-> entries'], k)
    BY <2>0, <2>1, <2>5, InputsAssumption, AddEndpointAges DEF CallAddEndpoint
  <2>6. ASSUME NEW g \in ActualInputs, CallRemoveEndpoint(g)
        PROVE  Ages(entries, [entries |-> entries'], k)
    BY <2>0, <2>1, <2>6, InputsAssumption, RemoveEndpointAges DEF CallRemoveEndpoint
  <2>7. ASSUME NEW t \in SwapTables, CallSwap(t) PROVE FALSE
    BY <2>7 DEF CallSwap, Returns
  <2>8. CASE CallGetRoutingEvents
    BY <2>0, <2>8, UntouchedAges DEF CallGetRoutingEvents, Returns
  <2> QED
    BY <2>2, <2>3, <2>4, <2>5, <2>6, <2>7, <2>8 DEF Next
<1> QED
  BY TableTypeOK, <1>1, PTL DEF Spec, TagsNeverRegress

-----------------------------------------------------------------------------
(* Dropped external endpoints *)

\* No two router groups use one port.
UniquePorts ==
  \A x, y \in ExternalEndpointInfos : x.port = y.port => x = y

\* What a key loses of its external endpoints is unregistered.
Drops(table, result, k) ==
  \A m \in Held(table, k) :
    m.external \notin Lookup(result.entries, k).externalEndpoints
      => m \in Announced(result.events, Unregistration, k)

\* A key that keeps its external endpoints has nothing to unregister.
LEMMA KeptExternalsDrops ==
  ASSUME NEW table, NEW result, NEW k,
         Lookup(result.entries, k).externalEndpoints = Lookup(table, k).externalEndpoints
  PROVE  Drops(table, result, k)
BY MappingHasPort DEF Drops, Held

\* When ports tell external endpoints apart, the mappings that survive
\* RemoveExternalEndpoints are those of the external endpoints not in the
\* set: Remove is the set difference its comment promises.
LEMMA RemoveIsDifference ==
  ASSUME UniquePorts, NEW entry \in RoutableEndpoints,
         NEW externals \in SUBSET ExternalEndpointInfos,
         NEW m \in Mappings(entry), m.external \notin externals
  PROVE  m \in Mappings(RemoveExternalEndpoints(entry, externals))
<1>1. m.external \in ExternalEndpointInfos
  BY MappingHasPort DEF RoutableEndpoints
<1>2. ~ContainsExternalPort(externals, m.external.port)
  BY <1>1 DEF ContainsExternalPort, UniquePorts
<1> QED
  BY <1>2, RemainingMappings

\* AddRoutes unregisters the external endpoints it drops.
LEMMA AddRoutesDrops ==
  ASSUME UniquePorts, NEW table \in Tables, NEW d \in DesiredLRPs, NEW k \in RoutingKeys
  PROVE  Drops(table, AddRoutes(table, d), k)
<1> DEFINE existing  == Lookup(table, k)
           externals == NewExternalEndpoints(k, d)
           updated   == UpdatedEntry(existing, externals, d.modificationTag)
           merged    == k \in KeysToMerge(table, d)
           needed    == RegistrationNeeded(existing, externals)
           rest      == RemoveExternalEndpoints(existing, externals)
           result    == AddRoutes(table, d)
<1>1. /\ result.entries[k] = IF merged /\ needed THEN updated ELSE table[k]
      /\ Announced(result.events, Unregistration, k)
           = IF merged THEN Mappings(rest) ELSE {}
  BY AddRoutesEffect
<1>2. existing \in RoutableEndpoints /\ externals \in SUBSET ExternalEndpointInfos
  BY LookupType, NewExternalEndpointsType
<1>3. d.modificationTag \in ModificationTags
  BY DEF DesiredLRPs
<1>4. updated \in RoutableEndpoints /\ updated.externalEndpoints = externals
  BY <1>2, <1>3, UpdatedEntryType DEF UpdatedEntry, RoutableEndpoints
<1> HIDE DEF existing, externals, updated, merged, needed, rest, result
<1>5. CASE merged /\ needed
  <2>1. Lookup(result.entries, k) = updated
    BY <1>1, <1>4, <1>5, NilIsNoEntry DEF Lookup
  <2>2. ASSUME NEW m \in Mappings(existing), m.external \notin externals
        PROVE  m \in Mappings(rest)
    BY <1>2, <2>2, RemoveIsDifference DEF rest
  <2> QED
    BY <1>1, <1>4, <1>5, <2>1, <2>2 DEF Drops, Held, existing, result
<1>6. CASE ~(merged /\ needed)
  <2>1. Lookup(result.entries, k) = existing
    BY <1>1, <1>6 DEF Lookup, existing
  <2> QED
    BY <2>1, KeptExternalsDrops DEF existing, result
<1> QED
  BY <1>5, <1>6

\* removeRoutingKeys unregisters the whole entries it deletes.
LEMMA RemoveRoutingKeysDrops ==
  ASSUME NEW table \in Tables, NEW keys \in SUBSET RoutingKeys, NEW tag,
         NEW k \in RoutingKeys
  PROVE  Drops(table, removeRoutingKeys(table, keys, tag), k)
<1> DEFINE gone   == k \in KeysToDelete(table, keys, tag)
           result == removeRoutingKeys(table, keys, tag)
<1>1. /\ result.entries[k] = IF gone THEN Nil ELSE table[k]
      /\ Announced(result.events, Unregistration, k) = IF gone THEN Mappings(table[k]) ELSE {}
  BY RemoveRoutingKeysEffect
<1>2. gone => Held(table, k) = Mappings(table[k])
  BY DEF KeysToDelete, Held, Lookup
<1> HIDE DEF gone, result
<1>3. CASE gone
  BY <1>1, <1>2, <1>3 DEF Drops, result
<1>4. CASE ~gone
  <2>1. Lookup(result.entries, k) = Lookup(table, k)
    BY <1>1, <1>4 DEF Lookup
  <2> QED
    BY <2>1, KeptExternalsDrops DEF result
<1> QED
  BY <1>3, <1>4

\* UpdateRoutes drops what one of its two halves drops.
LEMMA UpdateRoutesDrops ==
  ASSUME UniquePorts, NEW table \in Tables,
         NEW before \in DesiredLRPs, NEW after \in DesiredLRPs, NEW k \in RoutingKeys
  PROVE  Drops(table, UpdateRoutes(table, before, after), k)
<1> DEFINE deleted == NewRoutingKeysFromDesired(before) \ NewRoutingKeysFromDesired(after)
           same    == IF k \in NewRoutingKeysFromDesired(after)
                        THEN AddRoutes(table, after)
                        ELSE removeRoutingKeys(table, deleted, after.modificationTag)
           result  == UpdateRoutes(table, before, after)
<1>1. deleted \in SUBSET RoutingKeys
  BY DEF NewRoutingKeysFromDesired
<1>2. Drops(table, same, k)
  <2> HIDE DEF deleted
  <2> QED
    BY <1>1, AddRoutesDrops, RemoveRoutingKeysDrops
<1>3. /\ result.entries[k] = same.entries[k]
      /\ Announced(result.events, Unregistration, k) = Announced(same.events, Unregistration, k)
  BY UpdateRoutesEffect
<1> HIDE DEF same, result
<1>4. Lookup(result.entries, k) = Lookup(same.entries, k)
  BY <1>3 DEF Lookup
<1> QED
  BY <1>2, <1>3, <1>4 DEF Drops, result

\* The operations on endpoints keep the external endpoints of every key.
LEMMA EndpointsDrop ==
  ASSUME NEW table \in Tables, NEW g \in ActualLRPGroups, NEW k \in RoutingKeys
  PROVE  Drops(table, AddEndpoint(table, g), k) /\ Drops(table, RemoveEndpoint(table, g), k)
<1>1. Lookup(table, k) \in RoutableEndpoints
  BY LookupType
<1>2. /\ ExtendedEntry(table, k, g).externalEndpoints = Lookup(table, k).externalEndpoints
      /\ ReducedEntry(table, k, g).externalEndpoints = Lookup(table, k).externalEndpoints
  BY <1>1 DEF ExtendedEntry, ReducedEntry, WithEndpoint, RoutableEndpoints
<1>3. Lookup(AddEndpoint(table, g).entries, k).externalEndpoints
        = Lookup(table, k).externalEndpoints
  <2>1. k \in KeysToExtend(table, g) => ExtendedEntry(table, k, g) # Nil
    BY ExtendedEntryHasChanged, NilIsNoEntry
  <2>2. AddEndpoint(table, g).entries[k]
          = IF k \in KeysToExtend(table, g) THEN ExtendedEntry(table, k, g) ELSE table[k]
    BY AddEndpointEffect
  <2> QED
    BY <1>2, <2>1, <2>2 DEF Lookup
<1>4. Lookup(RemoveEndpoint(table, g).entries, k).externalEndpoints
        = Lookup(table, k).externalEndpoints
  <2>1. k \in KeysToReduce(table, g) => ReducedEntry(table, k, g) # Nil
    BY ReducedEntryHasChanged, NilIsNoEntry
  <2>2. RemoveEndpoint(table, g).entries[k]
          = IF k \in KeysToReduce(table, g) THEN ReducedEntry(table, k, g) ELSE table[k]
    BY RemoveEndpointEffect
  <2> QED
    BY <1>2, <2>1, <2>2 DEF Lookup
<1> QED
  BY <1>3, <1>4, KeptExternalsDrops

\* Swap unregisters the external endpoints the new table lacks.
LEMMA SwapDrops ==
  ASSUME UniquePorts, NEW table \in Tables, NEW newTable \in Tables, NEW k \in RoutingKeys
  PROVE  Drops(table, Swap(table, newTable), k)
<1> DEFINE old    == Lookup(table, k)
           rest   == RemoveExternalEndpoints(old, newTable[k].externalEndpoints)
           events == Swap(table, newTable).events
<1>1. Announced(events, Unregistration, k)
        = IF newTable[k] # Nil THEN Mappings(rest) ELSE Mappings(old)
  BY SwapEffect
<1>2. Swap(table, newTable).entries = newTable
  BY DEF Swap
<1>3. old \in RoutableEndpoints /\ Held(table, k) = Mappings(old)
  BY LookupType DEF Held
<1>4. ASSUME newTable[k] # Nil, NEW m \in Mappings(old),
             m.external \notin newTable[k].externalEndpoints
      PROVE  m \in Mappings(rest)
  <2>1. newTable[k].externalEndpoints \in SUBSET ExternalEndpointInfos
    BY <1>4 DEF Tables, RoutableEndpoints
  <2> HIDE DEF old
  <2> QED
    BY <1>3, <1>4, <2>1, RemoveIsDifference
<1>5. newTable[k] # Nil => Lookup(newTable, k) = newTable[k]
  BY DEF Lookup
<1> HIDE DEF old, rest, events
<1> QED
  BY <1>1, <1>2, <1>3, <1>4, <1>5 DEF Drops, events

\* Where no two router groups share a port, every external endpoint a routing
\* key loses is unregistered for all the backends of the key.  (Without the
\* hypothesis it fails: ExternalEndpointInfos.Remove compares ports only.)
THEOREM TableDroppedExternalEndpointsAreUnregistered ==
  UniquePorts => (Spec => DroppedExternalEndpointsAreUnregistered)
<1> SUFFICES ASSUME UniquePorts PROVE Spec => DroppedExternalEndpointsAreUnregistered
  OBVIOUS
<1> DEFINE P == \A k \in RoutingKeys : \A m \in Held(entries, k) :
                  m.external \notin Lookup(entries', k).externalEndpoints
                    => m \in Announced(returned', Unregistration, k)
<1>1. ASSUME TypeOK, [Next]_vars PROVE [P]_vars
  <2> DEFINE step == [entries |-> entries', events |-> returned']
  <2> SUFFICES ASSUME Next, NEW k \in RoutingKeys PROVE Drops(entries, step, k)
    BY <1>1 DEF Drops
  <2>0. entries \in Tables
    BY <1>1 DEF TypeOK
  <2>1. ASSUME NEW name, NEW result, Returns(name, result), Drops(entries, result, k)
        PROVE  Drops(entries, step, k)
    BY <2>1 DEF Returns, Drops
  <2> HIDE DEF step
  <2>2. ASSUME NEW d \in DesiredInputs, CallAddRoutes(d) PROVE Drops(entries, step, k)
    BY <2>0, <2>1, <2>2, InputsAssumption, AddRoutesDrops DEF CallAddRoutes
  <2>3. ASSUME NEW c \in DesiredChanges, CallUpdateRoutes(c) PROVE Drops(entries, step, k)
    <3>1. c.before \in DesiredLRPs /\ c.after \in DesiredLRPs
      BY InputsAssumption
    <3> QED
      BY <2>0, <2>1, <2>3, <3>1, UpdateRoutesDrops DEF CallUpdateRoutes
  <2>4. ASSUME NEW d \in DesiredInputs, CallRemoveRoutes(d) PROVE Drops(entries, step, k)
    <3>1. NewRoutingKeysFromDesired(d) \in SUBSET RoutingKeys
      BY DEF NewRoutingKeysFromDesired
    <3>2. Drops(entries, RemoveRoutes(entries, d), k)
      BY <2>0, <3>1, RemoveRoutingKeysDrops DEF RemoveRoutes
    <3> QED
      BY <2>1, <2>4, <3>2 DEF CallRemoveRoutes
  <2>5. ASSUME NEW g \in ActualInputs, CallAddEndpoint(g) PROVE Drops(entries, step, k)
    BY <2>0, <2>1, <2>5, InputsAssumption, EndpointsDrop DEF CallAddEndpoint
  <2>6. ASSUME NEW g \in ActualInputs, CallRemoveEndpoint(g) PROVE Drops(entries, step, k)
    BY <2>0, <2>1, <2>6, InputsAssumption, EndpointsDrop DEF CallRemoveEndpoint
  <2>7. ASSUME NEW t \in SwapTables, CallSwap(t) PROVE Drops(entries, step, k)
    BY <2>0, <2>1, <2>7, InputsAssumption, SwapDrops DEF CallSwap
  <2>8. CASE CallGetRoutingEvents
    <3>1. entries' = entries
      BY <2>8 DEF CallGetRoutingEvents, Returns
    <3> QED
      BY <3>1, KeptExternalsDrops DEF step
  <2> QED
    BY <2>2, <2>3, <2>4, <2>5, <2>6, <2>7, <2>8 DEF Next
<1> QED
  BY TableTypeOK, <1>1, PTL DEF Spec, DroppedExternalEndpointsAreUnregistered
=============================================================================
