------------------------ MODULE RoutingTableOpsProofs ------------------------
(***************************************************************************)
(* What the operations of the routing table return, for any sets of keys,  *)
(* ports, tags and arguments: the lemmas that the proofs about the table   *)
(* and about the handler share.                                            *)
(***************************************************************************)
EXTENDS RoutingTableOps, FiniteSetTheorems, TLAPS

Results == [entries : Tables, events : SUBSET RoutingEvents]

-----------------------------------------------------------------------------
(* Entries and events *)

\* The zero entry of a missing routing key is an entry.
LEMMA ZeroEntryType == ZeroEntry \in RoutableEndpoints
BY DEF ZeroEntry, RoutableEndpoints

\* A lookup yields an entry.
LEMMA LookupType ==
  ASSUME NEW table \in Tables, NEW k \in RoutingKeys
  PROVE  Lookup(table, k) \in RoutableEndpoints
BY ZeroEntryType DEF Lookup, Tables

\* createRoutingEvent makes events.
LEMMA EventType ==
  ASSUME NEW k \in RoutingKeys, NEW entry \in RoutableEndpoints,
         NEW type \in {Registration, Unregistration}
  PROVE  createRoutingEvent(k, entry, type) \subseteq RoutingEvents
BY DEF createRoutingEvent, RoutingEvents

\* Taking external endpoints away leaves an entry.
LEMMA RemoveExternalEndpointsType ==
  ASSUME NEW entry \in RoutableEndpoints, NEW externals
  PROVE  RemoveExternalEndpoints(entry, externals) \in RoutableEndpoints
BY DEF RemoveExternalEndpoints, Remove, RoutableEndpoints

\* The entry mergeRoutes writes is an entry.
LEMMA UpdatedEntryType ==
  ASSUME NEW entry \in RoutableEndpoints,
         NEW externals \in SUBSET ExternalEndpointInfos,
         NEW tag \in ModificationTags
  PROVE  UpdatedEntry(entry, externals, tag) \in RoutableEndpoints
BY DEF UpdatedEntry, RoutableEndpoints

\* An entry with one endpoint replaced is an entry.
LEMMA WithEndpointType ==
  ASSUME NEW entry \in RoutableEndpoints, NEW ek \in EndpointKeys,
         NEW endpoint \in Endpoints \cup {Nil}
  PROVE  WithEndpoint(entry, ek, endpoint) \in RoutableEndpoints
BY DEF WithEndpoint, RoutableEndpoints

\* The deleted part of an entry is an entry.
LEMMA DeletedEntryType ==
  ASSUME NEW entry \in RoutableEndpoints, NEW newEntry \in RoutableEndpoints
  PROVE  getDeletedEntry(entry, newEntry) \in RoutableEndpoints
BY DEF getDeletedEntry, RoutableEndpoints

\* The external endpoints of a desired LRP at a routing key.
LEMMA NewExternalEndpointsType ==
  ASSUME NEW k \in RoutingKeys, NEW d \in DesiredLRPs
  PROVE  NewExternalEndpoints(k, d) \in SUBSET ExternalEndpointInfos
BY DEF NewExternalEndpoints, DesiredLRPs, TCPRoutes

\* A group sent by the BBS resolves to an actual LRP, and with it to an
\* endpoint key.
LEMMA ResolveType ==
  ASSUME NEW g \in ActualLRPGroups
  PROVE  Resolve(g) \in ActualLRPs /\ EndpointKeyOf(g) \in EndpointKeys
<1>1. /\ g.instance \in ActualLRPs \cup {Nil}
      /\ g.evacuating \in ActualLRPs \cup {Nil}
      /\ g.instance # Nil \/ g.evacuating # Nil
  BY DEF ActualLRPGroups
<1>2. ResolvesToEvacuating(g) => g.evacuating # Nil
  BY <1>1 DEF ResolvesToEvacuating
<1>3. ~ResolvesToEvacuating(g) => g.instance # Nil
  BY DEF ResolvesToEvacuating
<1>4. Resolve(g) \in ActualLRPs
  BY <1>1, <1>2, <1>3 DEF Resolve
<1>5. ResolvesToEvacuating(g) \in BOOLEAN
  BY Zenon DEF ResolvesToEvacuating
<1>6. Resolve(g).instanceGuid \in InstanceGuids
  BY <1>4 DEF ActualLRPs
<1>7. EndpointKeyOf(g) \in EndpointKeys
  BY <1>5, <1>6, Zenon DEF EndpointKeyOf, EndpointKeys
<1> QED
  BY <1>4, <1>7

\* The endpoint of an actual LRP at a routing key it has.
LEMMA NewEndpointType ==
  ASSUME NEW g \in ActualLRPGroups, NEW k \in NewRoutingKeysFromActual(g)
  PROVE  /\ k \in RoutingKeys
         /\ NewEndpointFromActual(g, k.containerPort) \in Endpoints
BY ResolveType DEF NewRoutingKeysFromActual, NewEndpointFromActual, Endpoints,
                   ActualLRPs, RoutingKeys

-----------------------------------------------------------------------------
(* Results of the operations *)

\* AddRoutes returns a table and events.
LEMMA AddRoutesType ==
  ASSUME NEW table \in Tables, NEW d \in DesiredLRPs
  PROVE  AddRoutes(table, d) \in Results
<1>1. d.modificationTag \in ModificationTags
  BY DEF DesiredLRPs
<1>2. ASSUME NEW k \in RoutingKeys
      PROVE  UpdatedEntry(Lookup(table, k), NewExternalEndpoints(k, d), d.modificationTag)
               \in RoutableEndpoints
  BY <1>1, LookupType, NewExternalEndpointsType, UpdatedEntryType
<1>3. ASSUME NEW k \in RoutingKeys
      PROVE  mergeRoutesEntry(table, k, d) \in RoutableEndpoints \cup {Nil}
  BY <1>2 DEF mergeRoutesEntry, Tables
<1>4. ASSUME NEW k \in RoutingKeys
      PROVE  mergeRoutesEvents(table, k, d) \subseteq RoutingEvents
  <2>1. RemoveExternalEndpoints(Lookup(table, k), NewExternalEndpoints(k, d))
          \in RoutableEndpoints
    BY LookupType, RemoveExternalEndpointsType
  <2> QED
    BY <1>2, <2>1, EventType DEF mergeRoutesEvents
<1>5. KeysToMerge(table, d) \subseteq RoutingKeys
  BY DEF KeysToMerge, NewRoutingKeysFromDesired
<1>6. AddRoutes(table, d).entries \in Tables
  BY <1>3 DEF AddRoutes, Tables
<1>7. AddRoutes(table, d).events \subseteq RoutingEvents
  BY <1>4, <1>5 DEF AddRoutes
<1> QED
  BY <1>6, <1>7 DEF Results, AddRoutes

\* removeRoutingKeys returns a table and events.
LEMMA RemoveRoutingKeysType ==
  ASSUME NEW table \in Tables, NEW keys \in SUBSET RoutingKeys, NEW tag
  PROVE  removeRoutingKeys(table, keys, tag) \in Results
<1>1. removeRoutingKeys(table, keys, tag).entries \in Tables
  BY DEF removeRoutingKeys, Tables
<1>2. ASSUME NEW k \in KeysToDelete(table, keys, tag)
      PROVE  createRoutingEvent(k, table[k], Unregistration) \subseteq RoutingEvents
  BY EventType DEF KeysToDelete, Tables
<1>3. removeRoutingKeys(table, keys, tag).events \subseteq RoutingEvents
  BY <1>2 DEF removeRoutingKeys
<1> QED
  BY <1>1, <1>3 DEF Results, removeRoutingKeys

\* UpdateRoutes returns a table and events.
LEMMA UpdateRoutesType ==
  ASSUME NEW table \in Tables, NEW before \in DesiredLRPs, NEW after \in DesiredLRPs
  PROVE  UpdateRoutes(table, before, after) \in Results
<1> DEFINE deleted == NewRoutingKeysFromDesired(before) \ NewRoutingKeysFromDesired(after)
           added   == AddRoutes(table, after)
           removed == removeRoutingKeys(added.entries, deleted, after.modificationTag)
<1>1. added.entries \in Tables /\ added.events \subseteq RoutingEvents
  BY AddRoutesType DEF Results
<1>2. deleted \in SUBSET RoutingKeys
  BY DEF NewRoutingKeysFromDesired
<1>3. removed.entries \in Tables /\ removed.events \subseteq RoutingEvents
  BY <1>1, <1>2, RemoveRoutingKeysType DEF Results
<1>4. UpdateRoutes(table, before, after)
        = [entries |-> removed.entries, events |-> added.events \cup removed.events]
  BY DEF UpdateRoutes
<1> HIDE DEF added, removed
<1> QED
  BY <1>1, <1>3, <1>4 DEF Results

\* RemoveRoutes returns a table and events.
LEMMA RemoveRoutesType ==
  ASSUME NEW table \in Tables, NEW d \in DesiredLRPs
  PROVE  RemoveRoutes(table, d) \in Results
<1>1. NewRoutingKeysFromDesired(d) \in SUBSET RoutingKeys
  BY DEF NewRoutingKeysFromDesired
<1> QED
  BY <1>1, RemoveRoutingKeysType DEF RemoveRoutes

\* AddEndpoint returns a table and events.
LEMMA AddEndpointType ==
  ASSUME NEW table \in Tables, NEW g \in ActualLRPGroups
  PROVE  AddEndpoint(table, g) \in Results
<1>1. ASSUME NEW k \in KeysToExtend(table, g)
      PROVE  k \in RoutingKeys /\ ExtendedEntry(table, k, g) \in RoutableEndpoints
  <2>1. k \in NewRoutingKeysFromActual(g)
    BY DEF KeysToExtend
  <2>2. /\ k \in RoutingKeys
        /\ NewEndpointFromActual(g, k.containerPort) \in Endpoints \cup {Nil}
    BY <2>1, NewEndpointType
  <2> QED
    BY <2>2, LookupType, ResolveType, WithEndpointType DEF ExtendedEntry
<1>2. ASSUME NEW k \in KeysToExtend(table, g)
      PROVE  getRegistrationEvents(k, Lookup(table, k), ExtendedEntry(table, k, g))
               \subseteq RoutingEvents
  BY <1>1, EventType DEF getRegistrationEvents
<1>3. AddEndpoint(table, g).entries \in Tables
  BY <1>1 DEF AddEndpoint, Tables
<1>4. AddEndpoint(table, g).events \subseteq RoutingEvents
  BY <1>2 DEF AddEndpoint
<1> QED
  BY <1>3, <1>4 DEF Results, AddEndpoint

\* RemoveEndpoint returns a table and events.
LEMMA RemoveEndpointType ==
  ASSUME NEW table \in Tables, NEW g \in ActualLRPGroups
  PROVE  RemoveEndpoint(table, g) \in Results
<1>1. ASSUME NEW k \in RoutingKeys
      PROVE  ReducedEntry(table, k, g) \in RoutableEndpoints
  BY LookupType, ResolveType, WithEndpointType DEF ReducedEntry
<1>2. ASSUME NEW k \in KeysToReduce(table, g)
      PROVE  k \in RoutingKeys
  BY DEF KeysToReduce, NewRoutingKeysFromActual
<1>3. ASSUME NEW k \in KeysToReduce(table, g)
      PROVE  UnregistrationEvents(k, Lookup(table, k), ReducedEntry(table, k, g))
               \subseteq RoutingEvents
  BY <1>1, <1>2, LookupType, DeletedEntryType, EventType DEF UnregistrationEvents
<1>4. RemoveEndpoint(table, g).entries \in Tables
  BY <1>1 DEF RemoveEndpoint, Tables
<1>5. RemoveEndpoint(table, g).events \subseteq RoutingEvents
  BY <1>3 DEF RemoveEndpoint
<1> QED
  BY <1>4, <1>5 DEF Results, RemoveEndpoint

\* Swap returns the new table and events.
LEMMA SwapType ==
  ASSUME NEW table \in Tables, NEW newTable \in Tables
  PROVE  Swap(table, newTable) \in Results
<1>1. ASSUME NEW k \in RoutingKeys
      PROVE  SwapEvents(table, newTable, k) \subseteq RoutingEvents
  <2>1. newTable[k] # Nil => newTable[k] \in RoutableEndpoints
    BY DEF Tables
  <2>2. RemoveExternalEndpoints(Lookup(table, k), newTable[k].externalEndpoints)
          \in RoutableEndpoints
    BY LookupType, RemoveExternalEndpointsType
  <2> QED
    BY <2>1, <2>2, LookupType, EventType DEF SwapEvents
<1> QED
  BY <1>1 DEF Swap, Results

\* GetRoutingEvents returns events.
LEMMA GetRoutingEventsType ==
  ASSUME NEW table \in Tables
  PROVE  GetRoutingEvents(table) \subseteq RoutingEvents
<1>1. ASSUME NEW k \in RoutingKeys
      PROVE  createRoutingEvent(k, Lookup(table, k), Registration) \subseteq RoutingEvents
  BY LookupType, EventType
<1> QED
  BY <1>1 DEF GetRoutingEvents

-----------------------------------------------------------------------------
(* What an operation leaves at one routing key *)

\* mergeRoutes replaces the external endpoints and the tag of an entry.
LEMMA UpdatedEntryFields ==
  ASSUME NEW entry \in RoutableEndpoints, NEW externals, NEW tag
  PROVE  /\ UpdatedEntry(entry, externals, tag).externalEndpoints = externals
         /\ UpdatedEntry(entry, externals, tag).modificationTag = tag
         /\ UpdatedEntry(entry, externals, tag).endpoints = entry.endpoints
BY DEF UpdatedEntry, RoutableEndpoints

\* AddEndpoint and RemoveEndpoint replace one endpoint of an entry.
LEMMA WithEndpointFields ==
  ASSUME NEW entry \in RoutableEndpoints, NEW ek \in EndpointKeys, NEW endpoint
  PROVE  /\ WithEndpoint(entry, ek, endpoint).externalEndpoints = entry.externalEndpoints
         /\ WithEndpoint(entry, ek, endpoint).modificationTag = entry.modificationTag
         /\ \A other \in EndpointKeys :
              WithEndpoint(entry, ek, endpoint).endpoints[other]
                = IF other = ek THEN endpoint ELSE entry.endpoints[other]
BY DEF WithEndpoint, RoutableEndpoints

\* The zero entry maps nothing.
LEMMA ZeroEntryFields ==
  /\ ZeroEntry.externalEndpoints = {}
  /\ ZeroEntry.modificationTag = Nil
  /\ \A ek \in EndpointKeys : ZeroEntry.endpoints[ek] = Nil
BY DEF ZeroEntry

\* AddRoutes writes the entries whose tag lets the desired LRP in and that lack
\* one of its ports.
LEMMA AddRoutesLookup ==
  ASSUME NEW table \in Tables, NEW d \in DesiredLRPs, NEW k \in RoutingKeys
  PROVE  LET old       == Lookup(table, k)
             externals == NewExternalEndpoints(k, d)
         IN  Lookup(AddRoutes(table, d).entries, k)
               = IF k \in KeysToMerge(table, d) /\ RegistrationNeeded(old, externals)
                   THEN UpdatedEntry(old, externals, d.modificationTag) ELSE old
<1> DEFINE old       == Lookup(table, k)
           externals == NewExternalEndpoints(k, d)
           updated   == UpdatedEntry(old, externals, d.modificationTag)
           new       == AddRoutes(table, d).entries
<1>1. new[k] = IF k \in KeysToMerge(table, d) THEN mergeRoutesEntry(table, k, d) ELSE table[k]
  BY DEF AddRoutes
<1>2. mergeRoutesEntry(table, k, d)
        = IF RegistrationNeeded(old, externals) THEN updated ELSE table[k]
  BY DEF mergeRoutesEntry
<1>3. updated \in RoutableEndpoints
  <2>1. d.modificationTag \in ModificationTags
    BY DEF DesiredLRPs
  <2> QED
    BY <2>1, LookupType, NewExternalEndpointsType, UpdatedEntryType
<1>4. updated # Nil
  BY <1>3, NilIsNoEntry
<1> HIDE DEF updated, new, externals
<1>5. Lookup(new, k) = IF k \in KeysToMerge(table, d) /\ RegistrationNeeded(old, externals)
                         THEN updated ELSE old
  BY <1>1, <1>2, <1>4 DEF Lookup
<1> QED
  BY <1>5 DEF updated, new, externals

\* removeRoutingKeys deletes whole entries.
LEMMA RemoveRoutingKeysLookup ==
  ASSUME NEW table \in Tables, NEW keys \in SUBSET RoutingKeys, NEW tag,
         NEW k \in RoutingKeys
  PROVE  Lookup(removeRoutingKeys(table, keys, tag).entries, k)
           = IF k \in KeysToDelete(table, keys, tag) THEN ZeroEntry ELSE Lookup(table, k)
BY DEF removeRoutingKeys, Lookup

\* UpdateRoutes adds the routes it finds afterwards and deletes only keys that
\* have none of them, and whose tag is older.
LEMMA UpdateRoutesLookup ==
  ASSUME NEW table \in Tables, NEW before \in DesiredLRPs, NEW after \in DesiredLRPs,
         NEW k \in RoutingKeys
  PROVE  \/ Lookup(UpdateRoutes(table, before, after).entries, k)
              = Lookup(AddRoutes(table, after).entries, k)
         \/ /\ Lookup(UpdateRoutes(table, before, after).entries, k) = ZeroEntry
            /\ k \in NewRoutingKeysFromDesired(before) \ NewRoutingKeysFromDesired(after)
            /\ SucceededBy(Lookup(table, k).modificationTag, after.modificationTag)
<1> DEFINE deleted == NewRoutingKeysFromDesired(before) \ NewRoutingKeysFromDesired(after)
           added   == AddRoutes(table, after).entries
           removed == removeRoutingKeys(added, deleted, after.modificationTag)
<1>1. added \in Tables
  BY AddRoutesType DEF Results
<1>2. deleted \in SUBSET RoutingKeys
  BY DEF NewRoutingKeysFromDesired
<1>3. UpdateRoutes(table, before, after).entries = removed.entries
  BY DEF UpdateRoutes
<1> HIDE DEF added, deleted
<1>4. Lookup(removed.entries, k)
        = IF k \in KeysToDelete(added, deleted, after.modificationTag)
            THEN ZeroEntry ELSE Lookup(added, k)
  BY <1>1, <1>2, RemoveRoutingKeysLookup
<1>5. ASSUME k \in KeysToDelete(added, deleted, after.modificationTag)
      PROVE  /\ k \in deleted
             /\ SucceededBy(Lookup(added, k).modificationTag, after.modificationTag)
  BY <1>5 DEF KeysToDelete, Lookup
<1>6. ASSUME k \in deleted
      PROVE  Lookup(added, k) = Lookup(table, k)
  <2>1. k \notin KeysToMerge(table, after)
    BY <1>6 DEF deleted, KeysToMerge
  <2> QED
    BY <2>1, AddRoutesLookup DEF added
<1> QED
  BY <1>3, <1>4, <1>5, <1>6 DEF added, deleted

\* AddEndpoint writes one endpoint at the keys that let it in.
LEMMA AddEndpointLookup ==
  ASSUME NEW table \in Tables, NEW g \in ActualLRPGroups, NEW k \in RoutingKeys
  PROVE  Lookup(AddEndpoint(table, g).entries, k)
           = IF k \in KeysToExtend(table, g)
               THEN WithEndpoint(Lookup(table, k), EndpointKeyOf(g),
                                 NewEndpointFromActual(g, k.containerPort))
               ELSE Lookup(table, k)
<1> DEFINE new      == AddEndpoint(table, g).entries
           extended == WithEndpoint(Lookup(table, k), EndpointKeyOf(g),
                                    NewEndpointFromActual(g, k.containerPort))
<1>1. new[k] = IF k \in KeysToExtend(table, g) THEN extended ELSE table[k]
  BY DEF AddEndpoint, ExtendedEntry
<1>2. ASSUME k \in KeysToExtend(table, g)
      PROVE  extended # Nil
  <2>1. NewEndpointFromActual(g, k.containerPort) \in Endpoints \cup {Nil}
    BY <1>2, NewEndpointType DEF KeysToExtend
  <2>2. extended \in RoutableEndpoints
    BY <2>1, LookupType, ResolveType, WithEndpointType
  <2> QED
    BY <2>2, NilIsNoEntry
<1> HIDE DEF new, extended
<1>3. Lookup(new, k) = IF k \in KeysToExtend(table, g) THEN extended ELSE Lookup(table, k)
  BY <1>1, <1>2 DEF Lookup
<1> QED
  BY <1>3 DEF new, extended

\* RemoveEndpoint deletes one endpoint at the keys that let it go.
LEMMA RemoveEndpointLookup ==
  ASSUME NEW table \in Tables, NEW g \in ActualLRPGroups, NEW k \in RoutingKeys
  PROVE  Lookup(RemoveEndpoint(table, g).entries, k)
           = IF k \in KeysToReduce(table, g)
               THEN WithEndpoint(Lookup(table, k), EndpointKeyOf(g), Nil)
               ELSE Lookup(table, k)
<1> DEFINE new     == RemoveEndpoint(table, g).entries
           reduced == WithEndpoint(Lookup(table, k), EndpointKeyOf(g), Nil)
<1>1. new[k] = IF k \in KeysToReduce(table, g) THEN reduced ELSE table[k]
  BY DEF RemoveEndpoint, ReducedEntry
<1>2. reduced # Nil
  <2>1. reduced \in RoutableEndpoints
    BY LookupType, ResolveType, WithEndpointType
  <2> QED
    BY <2>1, NilIsNoEntry
<1> HIDE DEF new, reduced
<1>3. Lookup(new, k) = IF k \in KeysToReduce(table, g) THEN reduced ELSE Lookup(table, k)
  BY <1>1, <1>2 DEF Lookup
<1> QED
  BY <1>3 DEF new, reduced
-----------------------------------------------------------------------------
(* What an operation announces of its changes *)

\* The endpoint of the extended entry is the one the group gives, and the
\* comparison that could suppress the registration always sees it change.
LEMMA ExtendedEntryHasChanged ==
  ASSUME NEW table \in Tables, NEW g \in ActualLRPGroups,
         NEW k \in KeysToExtend(table, g)
  PROVE  /\ k \in RoutingKeys
         /\ ExtendedEntry(table, k, g) \in RoutableEndpoints
         /\ HaveEndpointsChanged(Lookup(table, k), ExtendedEntry(table, k, g))
<1> DEFINE ek       == EndpointKeyOf(g)
           existing == Lookup(table, k)
           endpoint == NewEndpointFromActual(g, k.containerPort)
           extended == ExtendedEntry(table, k, g)
<1>1. k \in NewRoutingKeysFromActual(g)
  BY DEF KeysToExtend
<1>2. k \in RoutingKeys /\ endpoint \in Endpoints
  BY <1>1, NewEndpointType
<1>3. existing \in RoutableEndpoints /\ ek \in EndpointKeys
  BY <1>2, LookupType, ResolveType
<1>4. extended \in RoutableEndpoints
  BY <1>2, <1>3, WithEndpointType DEF ExtendedEntry
<1>5. extended.endpoints[ek] = endpoint
  BY <1>3 DEF ExtendedEntry, WithEndpoint, RoutableEndpoints
<1>6. ek \in PresentEndpoints(extended)
  BY <1>2, <1>3, <1>5, NilIsNoEntry DEF PresentEndpoints
<1>7. \/ existing.endpoints[ek] = Nil
      \/ SucceededBy(existing.endpoints[ek].modificationTag,
                     extended.endpoints[ek].modificationTag)
  BY <1>5 DEF KeysToExtend, NewEndpointFromActual
<1>8. HaveEndpointsChanged(existing, extended)
  <2> HIDE DEF ek, existing, extended
  <2> QED
    BY <1>6, <1>7 DEF HaveEndpointsChanged
<1> QED
  BY <1>2, <1>4, <1>8

\* The result registers the whole entry it leaves at k, or the entry maps
\* nothing that it did not map before.
RegistersAt(table, result, k) ==
  LET old == Lookup(table, k)
      new == Lookup(result.entries, k)
  IN  \/ createRoutingEvent(k, new, Registration) \subseteq result.events
      \/ /\ new.externalEndpoints = old.externalEndpoints
         /\ \A ek \in PresentEndpoints(new) : new.endpoints[ek] = old.endpoints[ek]

\* Event e unregisters endpoints of the old entry, and either all of their
\* addresses or all of its external ports are gone from the new one.
UnregistersGone(table, result, e) ==
  LET old == Lookup(table, e.key)
      new == Lookup(result.entries, e.key)
  IN  /\ e.key \in RoutingKeys
      /\ \A ek \in PresentEndpoints(e.entry) : e.entry.endpoints[ek] = old.endpoints[ek]
      /\ \/ \A ek \in PresentEndpoints(e.entry), other \in PresentEndpoints(new) :
              e.entry.endpoints[ek].address # new.endpoints[other].address
         \/ \A x \in e.entry.externalEndpoints :
              ~ContainsExternalPort(new.externalEndpoints, x.port)

Accurate(table, result) ==
  /\ \A k \in RoutingKeys : RegistersAt(table, result, k)
  /\ \A e \in result.events : e.eventType = Unregistration => UnregistersGone(table, result, e)

\* A desired LRP that brings an entry no new port takes none away: otherwise
\* mergeRoutes unregisters ports that it leaves in the table.
TakesNoPortOnly(table, d) ==
  \A k \in KeysToMerge(table, d) :
    \/ RegistrationNeeded(Lookup(table, k), NewExternalEndpoints(k, d))
    \/ \A x \in Lookup(table, k).externalEndpoints :
         ContainsExternalPort(NewExternalEndpoints(k, d), x.port)

\* The endpoint that the removal of a group deletes shares its address with no
\* other endpoint of the entry: otherwise RemoveEndpoint unregisters an address
\* that it leaves in the table.
LeavesNoTwin(table, g) ==
  \A k \in KeysToReduce(table, g) : \A ek \in PresentEndpoints(Lookup(table, k)) :
    ek # EndpointKeyOf(g) =>
      Lookup(table, k).endpoints[ek].address
        # Lookup(table, k).endpoints[EndpointKeyOf(g)].address

\* An event is about the key and the entry it was made for.
LEMMA EventFields ==
  ASSUME NEW k, NEW entry, NEW type, NEW e \in createRoutingEvent(k, entry, type)
  PROVE  e.key = k /\ e.entry = entry /\ e.eventType = type
BY DEF createRoutingEvent

\* An entry that maps nothing has nothing to announce.
LEMMA NothingToAnnounce ==
  ASSUME NEW k, NEW entry, NEW type,
         entry.externalEndpoints = {} \/ PresentEndpoints(entry) = {}
  PROVE  createRoutingEvent(k, entry, type) = {}
BY DEF createRoutingEvent, HasNoExternalPorts

\* AddRoutes announces what it does to the table.
LEMMA AddRoutesAccurate ==
  ASSUME NEW table \in Tables, NEW d \in DesiredLRPs, TakesNoPortOnly(table, d)
  PROVE  Accurate(table, AddRoutes(table, d))
<1> DEFINE result     == AddRoutes(table, d)
           old(k)     == Lookup(table, k)
           ext(k)     == NewExternalEndpoints(k, d)
           updated(k) == UpdatedEntry(old(k), ext(k), d.modificationTag)
           merged     == KeysToMerge(table, d)
<1>1. result.events = UNION {mergeRoutesEvents(table, k, d) : k \in merged}
  BY DEF AddRoutes
<1>2. merged \subseteq RoutingKeys
  BY DEF KeysToMerge, NewRoutingKeysFromDesired
<1>3. ASSUME NEW k \in RoutingKeys
      PROVE  /\ Lookup(result.entries, k)
                  = IF k \in merged /\ RegistrationNeeded(old(k), ext(k))
                      THEN updated(k) ELSE old(k)
             /\ old(k) \in RoutableEndpoints
             /\ updated(k).externalEndpoints = ext(k)
             /\ updated(k).endpoints = old(k).endpoints
  BY AddRoutesLookup, LookupType, UpdatedEntryFields
<1> HIDE DEF result, merged, ext
<1>4. ASSUME NEW k \in RoutingKeys
      PROVE  RegistersAt(table, result, k)
  <2>1. CASE k \in merged /\ RegistrationNeeded(old(k), ext(k))
    <3>1. createRoutingEvent(k, updated(k), Registration) \subseteq mergeRoutesEvents(table, k, d)
      BY <2>1 DEF mergeRoutesEvents, ext
    <3>2. createRoutingEvent(k, updated(k), Registration) \subseteq result.events
      BY <1>1, <2>1, <3>1
    <3> QED
      BY <1>3, <2>1, <3>2 DEF RegistersAt
  <2>2. CASE ~(k \in merged /\ RegistrationNeeded(old(k), ext(k)))
    BY <1>3, <2>2 DEF RegistersAt
  <2> QED
    BY <2>1, <2>2
<1>5. ASSUME NEW e \in result.events, e.eventType = Unregistration
      PROVE  UnregistersGone(table, result, e)
  <2>1. PICK k \in merged : e \in mergeRoutesEvents(table, k, d)
    BY <1>1
  <2> DEFINE gone == RemoveExternalEndpoints(old(k), ext(k))
  <2>2. k \in RoutingKeys
    BY <1>2, <2>1
  <2>3. e \in createRoutingEvent(k, gone, Unregistration)
    <3>1. Registration # Unregistration
      BY DEF Registration, Unregistration
    <3> QED
      BY <1>5, <2>1, <3>1, EventFields DEF mergeRoutesEvents, ext
  <2>4. /\ gone.endpoints = old(k).endpoints
        /\ gone.externalEndpoints = Remove(old(k).externalEndpoints, ext(k))
    BY <1>3, <2>2 DEF RemoveExternalEndpoints, RoutableEndpoints
  <2> HIDE DEF gone
  <2>5. e.key = k /\ e.entry = gone
    BY <2>3, EventFields
  <2>6. RegistrationNeeded(old(k), ext(k))
    <3>1. SUFFICES ASSUME ~RegistrationNeeded(old(k), ext(k))
                   PROVE  FALSE
      OBVIOUS
    <3>2. \A x \in old(k).externalEndpoints : ContainsExternalPort(ext(k), x.port)
      BY <2>1, <3>1 DEF TakesNoPortOnly, merged, ext
    <3>3. gone.externalEndpoints = {}
      BY <2>4, <3>2 DEF Remove
    <3> QED
      BY <2>3, <3>3, NothingToAnnounce
  <2>7. Lookup(result.entries, k).externalEndpoints = ext(k)
    BY <1>3, <2>1, <2>2, <2>6
  <2>8. \A x \in gone.externalEndpoints : ~ContainsExternalPort(ext(k), x.port)
    BY <2>4 DEF Remove
  <2> QED
    BY <2>2, <2>4, <2>5, <2>7, <2>8 DEF UnregistersGone
<1> QED
  BY <1>4, <1>5 DEF Accurate, result

\* So does removeRoutingKeys: it deletes whole entries.
LEMMA RemoveRoutingKeysAccurate ==
  ASSUME NEW table \in Tables, NEW keys \in SUBSET RoutingKeys, NEW tag
  PROVE  Accurate(table, removeRoutingKeys(table, keys, tag))
<1> DEFINE result  == removeRoutingKeys(table, keys, tag)
           deleted == KeysToDelete(table, keys, tag)
<1>1. result.events = UNION {createRoutingEvent(k, table[k], Unregistration) : k \in deleted}
  BY DEF removeRoutingKeys
<1>2. /\ deleted \subseteq RoutingKeys
      /\ \A k \in deleted : table[k] = Lookup(table, k)
  BY DEF KeysToDelete, Lookup
<1>3. \A k \in RoutingKeys :
        Lookup(result.entries, k) = IF k \in deleted THEN ZeroEntry ELSE Lookup(table, k)
  BY RemoveRoutingKeysLookup
<1>4. PresentEndpoints(ZeroEntry) = {}
  BY ZeroEntryFields DEF PresentEndpoints
<1> HIDE DEF result, deleted
<1>5. ASSUME NEW k \in RoutingKeys
      PROVE  RegistersAt(table, result, k)
  <2>1. CASE k \in deleted
    BY <1>3, <1>4, <2>1, NothingToAnnounce DEF RegistersAt
  <2>2. CASE k \notin deleted
    BY <1>3, <2>2 DEF RegistersAt
  <2> QED
    BY <2>1, <2>2
<1>6. ASSUME NEW e \in result.events
      PROVE  UnregistersGone(table, result, e)
  <2>1. PICK k \in deleted : e \in createRoutingEvent(k, table[k], Unregistration)
    BY <1>1
  <2>2. k \in RoutingKeys /\ e.key = k /\ e.entry = Lookup(table, k)
    BY <1>2, <2>1, EventFields
  <2>3. PresentEndpoints(Lookup(result.entries, k)) = {}
    BY <1>3, <1>4, <2>1, <2>2
  <2> QED
    BY <2>2, <2>3 DEF UnregistersGone
<1> QED
  BY <1>5, <1>6 DEF Accurate, result


\* So does UpdateRoutes, which deletes no key that it has just written.
LEMMA UpdateRoutesAccurate ==
  ASSUME NEW table \in Tables, NEW before \in DesiredLRPs, NEW after \in DesiredLRPs,
         TakesNoPortOnly(table, after)
  PROVE  Accurate(table, UpdateRoutes(table, before, after))
<1> DEFINE deleted == NewRoutingKeysFromDesired(before) \ NewRoutingKeysFromDesired(after)
           added   == AddRoutes(table, after)
           removed == removeRoutingKeys(added.entries, deleted, after.modificationTag)
           result  == UpdateRoutes(table, before, after)
           old(k)  == Lookup(table, k)
           new(k)  == Lookup(result.entries, k)
           mid(k)  == Lookup(added.entries, k)
<1>1. /\ added.entries \in Tables
      /\ Accurate(table, added)
  BY AddRoutesType, AddRoutesAccurate DEF Results
<1>2. deleted \in SUBSET RoutingKeys
  BY DEF NewRoutingKeysFromDesired
<1>3. result.entries = removed.entries /\ result.events = added.events \cup removed.events
  BY DEF UpdateRoutes
<1>4. ASSUME NEW k \in deleted
      PROVE  mid(k) = old(k)
  <2>1. k \in RoutingKeys /\ k \notin KeysToMerge(table, after)
    BY DEF KeysToMerge, NewRoutingKeysFromDesired
  <2> QED
    BY <2>1, AddRoutesLookup
<1>5. \A e \in added.events : e.key \in RoutingKeys => e.key \notin deleted
  <2>1. ASSUME NEW e \in added.events
        PROVE  e.key \in KeysToMerge(table, after)
    <3>1. PICK k \in KeysToMerge(table, after) : e \in mergeRoutesEvents(table, k, after)
      BY DEF AddRoutes
    <3> QED
      BY <3>1, EventFields DEF mergeRoutesEvents
  <2> QED
    BY <2>1 DEF KeysToMerge
<1> HIDE DEF added, deleted, result
<1>6. Accurate(added.entries, removed)
  BY <1>1, <1>2, RemoveRoutingKeysAccurate
<1>7. \A k \in RoutingKeys :
        \/ k \notin deleted /\ new(k) = mid(k)
        \/ k \in deleted /\ new(k) = mid(k)
        \/ k \in deleted /\ new(k) = ZeroEntry
  <2>1. KeysToDelete(added.entries, deleted, after.modificationTag) \subseteq deleted
    BY DEF KeysToDelete
  <2> QED
    BY <1>1, <1>2, <1>3, <2>1, RemoveRoutingKeysLookup
<1>8. \A e \in removed.events : e.key \in deleted
  <2>1. removed.events = UNION {createRoutingEvent(k, added.entries[k], Unregistration) :
                                  k \in KeysToDelete(added.entries, deleted, after.modificationTag)}
    BY DEF removeRoutingKeys
  <2> QED
    BY <2>1, EventFields DEF KeysToDelete
<1> HIDE DEF removed
<1>9. ASSUME NEW k \in RoutingKeys
      PROVE  RegistersAt(table, result, k)
  <2>1. CASE new(k) = mid(k)
    <3>1. RegistersAt(table, added, k)
      BY <1>1 DEF Accurate
    <3> QED
      BY <1>3, <2>1, <3>1 DEF RegistersAt
  <2>2. CASE new(k) = ZeroEntry
    <3>1. PresentEndpoints(ZeroEntry) = {}
      BY ZeroEntryFields DEF PresentEndpoints
    <3> QED
      BY <2>2, <3>1, NothingToAnnounce DEF RegistersAt
  <2> QED
    BY <1>7, <2>1, <2>2
<1>10. ASSUME NEW e \in result.events, e.eventType = Unregistration
       PROVE  UnregistersGone(table, result, e)
  <2>1. CASE e \in added.events
    <3>1. UnregistersGone(table, added, e)
      BY <1>1, <1>10, <2>1 DEF Accurate
    <3>2. e.key \in RoutingKeys
      BY <3>1 DEF UnregistersGone
    <3>3. new(e.key) = mid(e.key)
      BY <1>5, <1>7, <2>1, <3>2
    <3> QED
      BY <3>1, <3>3 DEF UnregistersGone
  <2>2. CASE e \in removed.events
    <3>1. UnregistersGone(added.entries, removed, e)
      BY <1>6, <1>10, <2>2 DEF Accurate
    <3>2. e.key \in deleted
      BY <1>8, <2>2
    <3> QED
      BY <1>3, <1>4, <3>1, <3>2 DEF UnregistersGone
  <2> QED
    BY <1>3, <1>10, <2>1, <2>2
<1> QED
  BY <1>9, <1>10 DEF Accurate, result

\* AddEndpoint registers every entry that it extends.
LEMMA AddEndpointAccurate ==
  ASSUME NEW table \in Tables, NEW g \in ActualLRPGroups
  PROVE  Accurate(table, AddEndpoint(table, g))
<1> DEFINE result   == AddEndpoint(table, g)
           extended == KeysToExtend(table, g)
           entry(k) == ExtendedEntry(table, k, g)
<1>1. result.events = UNION {getRegistrationEvents(k, Lookup(table, k), entry(k)) : k \in extended}
  BY DEF AddEndpoint
<1>2. \A k \in RoutingKeys :
        Lookup(result.entries, k) = IF k \in extended THEN entry(k) ELSE Lookup(table, k)
  BY AddEndpointLookup DEF ExtendedEntry
<1>3. ASSUME NEW k \in extended
      PROVE  createRoutingEvent(k, entry(k), Registration)
               \subseteq getRegistrationEvents(k, Lookup(table, k), entry(k))
  <2>1. HaveEndpointsChanged(Lookup(table, k), entry(k))
    BY ExtendedEntryHasChanged
  <2> HIDE DEF entry
  <2> QED
    BY <2>1 DEF getRegistrationEvents, createRoutingEvent
<1> HIDE DEF result, extended, entry
<1>4. ASSUME NEW k \in RoutingKeys
      PROVE  RegistersAt(table, result, k)
  <2>1. CASE k \in extended
    BY <1>1, <1>2, <1>3, <2>1 DEF RegistersAt
  <2>2. CASE k \notin extended
    BY <1>2, <2>2 DEF RegistersAt
  <2> QED
    BY <2>1, <2>2
<1>5. \A e \in result.events : e.eventType # Unregistration
  <2>1. ASSUME NEW e \in result.events
        PROVE  e.eventType = Registration
    <3>1. PICK k \in extended : e \in getRegistrationEvents(k, Lookup(table, k), entry(k))
      BY <1>1
    <3> QED
      BY <3>1, EventFields DEF getRegistrationEvents
  <2> QED
    BY <2>1 DEF Registration, Unregistration
<1> QED
  BY <1>4, <1>5 DEF Accurate, result

\* RemoveEndpoint unregisters the endpoints that it deletes and no other.
LEMMA RemoveEndpointAccurate ==
  ASSUME NEW table \in Tables, NEW g \in ActualLRPGroups, LeavesNoTwin(table, g)
  PROVE  Accurate(table, RemoveEndpoint(table, g))
<1> DEFINE result   == RemoveEndpoint(table, g)
           reduced  == KeysToReduce(table, g)
           removed  == EndpointKeyOf(g)
           old(k)   == Lookup(table, k)
           entry(k) == ReducedEntry(table, k, g)
<1>1. result.events = UNION {UnregistrationEvents(k, old(k), entry(k)) : k \in reduced}
  BY DEF RemoveEndpoint
<1>2. reduced \subseteq RoutingKeys
  BY DEF KeysToReduce, NewRoutingKeysFromActual
<1>3. \A k \in RoutingKeys :
        Lookup(result.entries, k) = IF k \in reduced THEN entry(k) ELSE old(k)
  BY RemoveEndpointLookup DEF ReducedEntry
<1>4. ASSUME NEW k \in RoutingKeys
      PROVE  /\ old(k) \in RoutableEndpoints
             /\ entry(k).externalEndpoints = old(k).externalEndpoints
             /\ \A ek \in EndpointKeys :
                  entry(k).endpoints[ek] = IF ek = removed THEN Nil ELSE old(k).endpoints[ek]
  <2>1. old(k) \in RoutableEndpoints /\ EndpointKeyOf(g) \in EndpointKeys
    BY LookupType, ResolveType
  <2> QED
    BY <2>1, WithEndpointFields DEF ReducedEntry
<1>5. ASSUME NEW k \in reduced, NEW ek \in EndpointKeys, ek # removed, old(k).endpoints[ek] # Nil
      PROVE  old(k).endpoints[ek].address # old(k).endpoints[removed].address
  BY <1>5 DEF LeavesNoTwin, PresentEndpoints
<1> HIDE DEF result, reduced, removed, old, entry
<1>6. ASSUME NEW k \in RoutingKeys
      PROVE  RegistersAt(table, result, k)
  BY <1>3, <1>4 DEF RegistersAt, PresentEndpoints, old
<1>7. ASSUME NEW e \in result.events
      PROVE  UnregistersGone(table, result, e)
  <2>1. PICK k \in reduced : e \in UnregistrationEvents(k, old(k), entry(k))
    BY <1>1
  <2> DEFINE gone == getDeletedEntry(old(k), entry(k))
  <2>2. k \in RoutingKeys
    BY <1>2, <2>1
  <2>3. e.key = k /\ e.entry = gone
    BY <2>1, EventFields DEF UnregistrationEvents
  <2>4. \A ek \in EndpointKeys :
          gone.endpoints[ek] = IF entry(k).endpoints[ek] # Nil THEN Nil ELSE old(k).endpoints[ek]
    BY <1>4, <2>2 DEF getDeletedEntry, RoutableEndpoints
  <2> HIDE DEF gone
  <2>5. \A ek \in PresentEndpoints(gone) :
          gone.endpoints[ek] = old(k).endpoints[ek] /\ ek = removed
    BY <1>4, <2>2, <2>4 DEF PresentEndpoints
  <2>6. \A other \in PresentEndpoints(entry(k)) :
          entry(k).endpoints[other] = old(k).endpoints[other] /\ other # removed
    BY <1>4, <2>2 DEF PresentEndpoints
  <2>7. \A ek \in PresentEndpoints(gone), other \in PresentEndpoints(entry(k)) :
          gone.endpoints[ek].address # entry(k).endpoints[other].address
    BY <1>5, <2>1, <2>5, <2>6 DEF PresentEndpoints
  <2> QED
    BY <1>3, <2>1, <2>2, <2>3, <2>5, <2>7 DEF UnregistersGone, old
<1> QED
  BY <1>6, <1>7 DEF Accurate, result

\* Swap registers all that the new table holds and unregisters what only the
\* old one does.
LEMMA SwapAccurate ==
  ASSUME NEW table \in Tables, NEW newTable \in Tables
  PROVE  Accurate(table, Swap(table, newTable))
<1> DEFINE result == Swap(table, newTable)
           old(k) == Lookup(table, k)
           new(k) == Lookup(newTable, k)
<1>1. /\ result.entries = newTable
      /\ result.events = UNION {SwapEvents(table, newTable, k) : k \in RoutingKeys}
  BY DEF Swap
<1>2. PresentEndpoints(ZeroEntry) = {}
  BY ZeroEntryFields DEF PresentEndpoints
<1>3. ASSUME NEW k \in RoutingKeys
      PROVE  old(k) \in RoutableEndpoints
  BY LookupType
<1> HIDE DEF result
<1>4. ASSUME NEW k \in RoutingKeys
      PROVE  RegistersAt(table, result, k)
  <2>1. CASE newTable[k] # Nil
    <3>1. createRoutingEvent(k, new(k), Registration) \subseteq SwapEvents(table, newTable, k)
      BY <2>1 DEF SwapEvents, Lookup
    <3> QED
      BY <1>1, <3>1 DEF RegistersAt
  <2>2. CASE newTable[k] = Nil
    <3>1. new(k) = ZeroEntry
      BY <2>2 DEF Lookup
    <3> QED
      BY <1>1, <1>2, <3>1, NothingToAnnounce DEF RegistersAt
  <2> QED
    BY <2>1, <2>2
<1>5. ASSUME NEW e \in result.events, e.eventType = Unregistration
      PROVE  UnregistersGone(table, result, e)
  <2>1. PICK k \in RoutingKeys : e \in SwapEvents(table, newTable, k)
    BY <1>1
  <2>2. Registration # Unregistration
    BY DEF Registration, Unregistration
  <2>3. CASE newTable[k] # Nil
    <3> DEFINE gone == RemoveExternalEndpoints(old(k), new(k).externalEndpoints)
    <3>1. new(k) = newTable[k]
      BY <2>3 DEF Lookup
    <3>2. \/ e \in createRoutingEvent(k, newTable[k], Registration)
          \/ e \in createRoutingEvent(k, gone, Unregistration)
      BY <2>1, <2>3, <3>1 DEF SwapEvents
    <3>3. /\ gone.endpoints = old(k).endpoints
          /\ gone.externalEndpoints = Remove(old(k).externalEndpoints, new(k).externalEndpoints)
      BY <1>3 DEF RemoveExternalEndpoints, RoutableEndpoints
    <3> HIDE DEF gone
    <3>4. e.key = k /\ e.entry = gone
      BY <1>5, <2>2, <3>2, EventFields
    <3> QED
      BY <1>1, <2>1, <3>3, <3>4 DEF UnregistersGone, Remove
  <2>4. CASE newTable[k] = Nil
    <3>1. e.key = k /\ e.entry = old(k)
      BY <2>1, <2>4, EventFields DEF SwapEvents
    <3>2. PresentEndpoints(new(k)) = {}
      BY <1>2, <2>4 DEF Lookup
    <3> QED
      BY <1>1, <2>1, <3>1, <3>2 DEF UnregistersGone
  <2> QED
    BY <2>3, <2>4
<1> QED
  BY <1>4, <1>5 DEF Accurate, result
=============================================================================
