---------------------------- MODULE HandlerProofs ----------------------------
(***************************************************************************)
(* Theorems about the routing table handler, for any sets of processes,    *)
(* instances, ports, routes and epochs, any number of changes of the BBS,  *)
(* and every choice of the faults and of HandleDuringSync.                 *)
(***************************************************************************)
EXTENDS RoutingTableHandler, RoutingTableOpsProofs, SequenceTheorems

-----------------------------------------------------------------------------
(* Types *)

\* What the BBS stores under an LRP key.
Groups == [instance : ActualLRPs \cup {Nil}, evacuating : ActualLRPs \cup {Nil}]

\* The groups that events carry have one side.
OneSided == {Only(lrp) : lrp \in ActualLRPs} \cup {OnlyEvacuating(lrp) : lrp \in ActualLRPs}

DesiredEvents ==
  [type : {"DesiredLRPCreatedEvent", "DesiredLRPRemovedEvent"}, desiredLRP : DesiredLRPs]
    \cup [type : {"DesiredLRPChangedEvent"}, before : DesiredLRPs, after : DesiredLRPs]

ActualEvents ==
  [type : {"ActualLRPCreatedEvent", "ActualLRPRemovedEvent"}, group : OneSided]
    \cup [type : {"ActualLRPChangedEvent"}, before : OneSided, after : OneSided]

Events == DesiredEvents \cup ActualEvents

BBSTypes ==
  /\ desired \in [ProcessGuids -> DesiredLRPs \cup {Nil}]
  /\ \A p \in ProcessGuids : desired[p] # Nil => desired[p].processGuid = p
  /\ actual \in [LRPKeys -> Groups]
  /\ stream \in Seq(Events)
  /\ fresh \in [epochs : [ProcessGuids -> SUBSET Epochs], instanceGuids : SUBSET InstanceGuids]

\* TypeOK with the types of the BBS, and with what holds where Sync is.
Types ==
  /\ TypeOK
  /\ BBSTypes
  /\ cachedEvents \in Seq(Events)
  /\ pc = "idle" => cachedEvents = <<>>
  /\ pc = "applyToTemp" => tempTable \in Tables

\* A one-sided group is a group that resolves to its side.
LEMMA OneSidedGroups ==
  ASSUME NEW g \in OneSided
  PROVE  /\ g \in ActualLRPGroups
         /\ \E lrp \in ActualLRPs :
              \/ g = Only(lrp) /\ Resolve(g) = lrp /\ ~ResolvesToEvacuating(g)
              \/ g = OnlyEvacuating(lrp) /\ Resolve(g) = lrp /\ ResolvesToEvacuating(g)
BY NilAssumption DEF OneSided, Only, OnlyEvacuating, ActualLRPGroups, Resolve, ResolvesToEvacuating

\* The first tag of an epoch and the next one after a tag are tags.
LEMMA TagTypes ==
  /\ \A e \in Epochs : FirstTag(e) \in ModificationTags
  /\ \A t \in ModificationTags : Bump(t) \in ModificationTags
  /\ AnyEpoch \in Epochs
BY BBSAssumption DEF FirstTag, Bump, ModificationTags, AnyEpoch

\* A change of the BBS appends its event to the stream.
LEMMA ChangeType ==
  ASSUME stream \in Seq(Events), NEW event \in Events, Change(event)
  PROVE  stream' \in Seq(Events)
BY AppendProperties DEF Change

\* A new record for the instance side of a group keeps the types.
LEMMA SetInstanceType ==
  ASSUME BBSTypes, NEW l \in LRPKeys, NEW lrp \in ActualLRPs, SetInstance(l, lrp)
  PROVE  /\ actual' \in [LRPKeys -> Groups]
         /\ stream' \in Seq(Events)
         /\ desired' = desired
<1>1. actual' \in [LRPKeys -> Groups]
  BY DEF BBSTypes, SetInstance, Groups
<1>2. Only(lrp) \in OneSided
  BY DEF OneSided
<1>3. CASE actual[l].instance = Nil
  <2>1. [type |-> "ActualLRPCreatedEvent", group |-> Only(lrp)] \in Events
    BY <1>2 DEF Events, ActualEvents
  <2> QED
    BY <1>1, <1>3, <2>1, ChangeType DEF SetInstance, BBSTypes
<1>4. CASE actual[l].instance # Nil
  <2>1. Only(actual[l].instance) \in OneSided
    BY <1>4 DEF OneSided, BBSTypes, Groups
  <2>2. [type |-> "ActualLRPChangedEvent",
         before |-> Only(actual[l].instance), after |-> Only(lrp)] \in Events
    BY <1>2, <2>1 DEF Events, ActualEvents
  <2> QED
    BY <1>1, <1>4, <2>2, ChangeType DEF SetInstance, BBSTypes
<1> QED
  BY <1>3, <1>4

\* A desired LRP is created under an epoch that its process has not had.
LEMMA DesiredCreation ==
  ASSUME BBSTypes, NEW p \in ProcessGuids, NEW rs \in RouteSets, DesireLRP(p, rs)
  PROVE  \E e \in fresh.epochs[p], lrp \in DesiredLRPs :
           /\ desired[p] = Nil
           /\ lrp.processGuid = p
           /\ lrp.modificationTag = FirstTag(e)
           /\ desired' = [desired EXCEPT ![p] = lrp]
           /\ fresh' = [fresh EXCEPT !.epochs[p] = @ \ {e}]
           /\ Change([type |-> "DesiredLRPCreatedEvent", desiredLRP |-> lrp])
           /\ actual' = actual
<1> DEFINE e   == CHOOSE e \in fresh.epochs[p] : TRUE
           lrp == [processGuid |-> p, routes |-> rs, modificationTag |-> FirstTag(e)]
<1>1. fresh.epochs[p] # {} /\ fresh.epochs[p] \subseteq Epochs
  BY DEF DesireLRP, BBSTypes
<1>2. e \in fresh.epochs[p] /\ e \in Epochs
  BY <1>1
<1>3. /\ desired[p] = Nil
      /\ desired' = [desired EXCEPT ![p] = lrp]
      /\ fresh' = [fresh EXCEPT !.epochs[p] = @ \ {e}]
      /\ Change([type |-> "DesiredLRPCreatedEvent", desiredLRP |-> lrp])
      /\ actual' = actual
  BY DEF DesireLRP
<1> HIDE DEF e
<1>4. lrp \in DesiredLRPs
  BY <1>2, TagTypes, BBSAssumption DEF DesiredLRPs
<1>5. lrp.processGuid = p /\ lrp.modificationTag = FirstTag(e)
  OBVIOUS
<1> HIDE DEF lrp
<1> QED
  BY <1>2, <1>3, <1>4, <1>5

\* An update of a desired LRP bumps its tag.
LEMMA DesiredUpdate ==
  ASSUME BBSTypes, NEW p \in ProcessGuids, NEW rs \in RouteSets, UpdateDesiredLRP(p, rs)
  PROVE  \E lrp \in DesiredLRPs :
           /\ desired[p] \in DesiredLRPs
           /\ desired[p] # Nil
           /\ lrp.processGuid = p
           /\ lrp.modificationTag = Bump(desired[p].modificationTag)
           /\ desired' = [desired EXCEPT ![p] = lrp]
           /\ Change([type |-> "DesiredLRPChangedEvent", before |-> desired[p], after |-> lrp])
           /\ actual' = actual /\ fresh' = fresh
<1> DEFINE lrp == [desired[p] EXCEPT !.routes = rs, !.modificationTag = Bump(@)]
<1>1. /\ desired[p] \in DesiredLRPs /\ desired[p] # Nil
      /\ desired[p].processGuid = p
      /\ desired' = [desired EXCEPT ![p] = lrp]
      /\ Change([type |-> "DesiredLRPChangedEvent", before |-> desired[p], after |-> lrp])
      /\ actual' = actual /\ fresh' = fresh
  BY DEF UpdateDesiredLRP, BBSTypes
<1>2. /\ lrp \in DesiredLRPs /\ lrp.processGuid = p
      /\ lrp.modificationTag = Bump(desired[p].modificationTag)
  BY <1>1, TagTypes, BBSAssumption DEF DesiredLRPs
<1> HIDE DEF lrp
<1> QED
  BY <1>1, <1>2

\* A removal carries the desired LRP with the tag it has or the next one.
LEMMA DesiredRemoval ==
  ASSUME BBSTypes, NEW p \in ProcessGuids, RemoveDesiredLRP(p)
  PROVE  \E lrp \in DesiredLRPs :
           /\ desired[p] # Nil
           /\ lrp.processGuid = p
           /\ desired' = [desired EXCEPT ![p] = Nil]
           /\ Change([type |-> "DesiredLRPRemovedEvent", desiredLRP |-> lrp])
           /\ actual' = actual /\ fresh' = fresh
<1>1. PICK t \in {desired[p].modificationTag, Bump(desired[p].modificationTag)} :
        Change([type       |-> "DesiredLRPRemovedEvent",
                desiredLRP |-> [desired[p] EXCEPT !.modificationTag = t]])
  BY DEF RemoveDesiredLRP
<1>2. /\ desired[p] \in DesiredLRPs /\ desired[p] # Nil /\ desired[p].processGuid = p
      /\ desired' = [desired EXCEPT ![p] = Nil]
      /\ actual' = actual /\ fresh' = fresh
  BY DEF RemoveDesiredLRP, BBSTypes
<1>3. t \in ModificationTags
  BY <1>1, <1>2, TagTypes DEF DesiredLRPs
<1>4. /\ [desired[p] EXCEPT !.modificationTag = t] \in DesiredLRPs
      /\ [desired[p] EXCEPT !.modificationTag = t].processGuid = p
  BY <1>2, <1>3 DEF DesiredLRPs
<1> QED
  BY <1>1, <1>2, <1>4

\* A claim, a start and a stop give the instance side a new record; a running
\* one never replaces another.
LEMMA NewInstance ==
  ASSUME BBSTypes, NEW l \in LRPKeys,
         ClaimLRP(l) \/ StartLRP(l) \/ CrashLRP(l) \/ UnclaimEvacuatedLRP(l)
  PROVE  \E lrp \in ActualLRPs :
           /\ SetInstance(l, lrp)
           /\ StateOf(actual[l].instance) # "RUNNING" \/ lrp.state # "RUNNING"
<1> USE DEF BBSTypes
<1>1. CASE ClaimLRP(l)
  <2>1. PICK i \in fresh.instanceGuids :
          SetInstance(l, [processGuid |-> l.processGuid, instanceGuid |-> i,
                          ports |-> Unbound, state |-> "CLAIMED",
                          modificationTag |->
                            IF actual[l].instance = Nil THEN FirstTag(AnyEpoch)
                            ELSE Bump(actual[l].instance.modificationTag)])
    BY <1>1 DEF ClaimLRP
  <2> DEFINE tag == IF actual[l].instance = Nil THEN FirstTag(AnyEpoch)
                    ELSE Bump(actual[l].instance.modificationTag)
             lrp == [processGuid |-> l.processGuid, instanceGuid |-> i,
                     ports |-> Unbound, state |-> "CLAIMED", modificationTag |-> tag]
  <2>2. tag \in ModificationTags
    BY TagTypes DEF Groups, ActualLRPs
  <2>3. lrp \in ActualLRPs /\ lrp.state # "RUNNING"
    BY <2>2 DEF ActualLRPs, LRPKeys, Unbound, ActualLRPStates
  <2>4. SetInstance(l, lrp)
    BY <2>1
  <2> HIDE DEF lrp
  <2> QED
    BY <2>3, <2>4
<1>2. CASE StartLRP(l)
  <2>1. PICK b \in Bindings :
          SetInstance(l, [actual[l].instance EXCEPT
                            !.ports = b, !.state = "RUNNING", !.modificationTag = Bump(@)])
    BY <1>2 DEF StartLRP
  <2>2. actual[l].instance \in ActualLRPs
    BY <1>2, NilAssumption DEF StartLRP, StateOf, Groups, ActualLRPStates
  <2>3. [actual[l].instance EXCEPT
           !.ports = b, !.state = "RUNNING", !.modificationTag = Bump(@)] \in ActualLRPs
    BY <2>2, TagTypes DEF ActualLRPs, Bindings, ActualLRPStates
  <2>4. StateOf(actual[l].instance) # "RUNNING"
    BY <1>2 DEF StartLRP
  <2> QED
    BY <2>1, <2>3, <2>4
<1>3. ASSUME NEW state \in {"CRASHED", "UNCLAIMED"}, StopLRP(l, state)
      PROVE  \E lrp \in ActualLRPs : SetInstance(l, lrp) /\ lrp.state # "RUNNING"
  <2> DEFINE lrp == [actual[l].instance EXCEPT
                       !.ports = Unbound, !.state = state, !.modificationTag = Bump(@)]
  <2>1. actual[l].instance \in ActualLRPs
    BY <1>3, NilAssumption DEF StopLRP, StateOf, Groups, ActualLRPStates
  <2>2. lrp \in ActualLRPs /\ lrp.state # "RUNNING"
    BY <2>1, TagTypes DEF ActualLRPs, Unbound, ActualLRPStates
  <2>3. SetInstance(l, lrp)
    BY <1>3 DEF StopLRP
  <2> HIDE DEF lrp
  <2> QED
    BY <2>2, <2>3
<1> QED
  BY <1>1, <1>2, <1>3 DEF CrashLRP, UnclaimEvacuatedLRP

\* Every change of the BBS keeps its types.
LEMMA BBSTypesStep ==
  ASSUME BBSTypes, BBSNext
  PROVE  BBSTypes'
<1> USE DEF BBSTypes
<1>1. ASSUME NEW p \in ProcessGuids, NEW rs \in RouteSets, DesireLRP(p, rs) PROVE BBSTypes'
  <2>1. PICK e \in fresh.epochs[p], lrp \in DesiredLRPs :
          /\ lrp.processGuid = p
          /\ desired' = [desired EXCEPT ![p] = lrp]
          /\ fresh' = [fresh EXCEPT !.epochs[p] = @ \ {e}]
          /\ Change([type |-> "DesiredLRPCreatedEvent", desiredLRP |-> lrp])
          /\ actual' = actual
    BY <1>1, DesiredCreation
  <2>2. [type |-> "DesiredLRPCreatedEvent", desiredLRP |-> lrp] \in Events
    BY DEF Events, DesiredEvents
  <2>3. stream' \in Seq(Events)
    BY <2>1, <2>2, ChangeType
  <2>4. fresh' \in [epochs : [ProcessGuids -> SUBSET Epochs], instanceGuids : SUBSET InstanceGuids]
    BY <2>1
  <2>5. /\ desired' \in [ProcessGuids -> DesiredLRPs \cup {Nil}]
        /\ \A q \in ProcessGuids : desired'[q] # Nil => desired'[q].processGuid = q
    BY <2>1
  <2> QED
    BY <2>1, <2>3, <2>4, <2>5
<1>2. ASSUME NEW p \in ProcessGuids, NEW rs \in RouteSets, UpdateDesiredLRP(p, rs)
      PROVE  BBSTypes'
  <2>1. PICK lrp \in DesiredLRPs :
          /\ desired[p] \in DesiredLRPs
          /\ lrp.processGuid = p
          /\ desired' = [desired EXCEPT ![p] = lrp]
          /\ Change([type |-> "DesiredLRPChangedEvent", before |-> desired[p], after |-> lrp])
          /\ actual' = actual /\ fresh' = fresh
    BY <1>2, DesiredUpdate
  <2>2. [type |-> "DesiredLRPChangedEvent", before |-> desired[p], after |-> lrp] \in Events
    BY <2>1 DEF Events, DesiredEvents
  <2>3. stream' \in Seq(Events)
    BY <2>1, <2>2, ChangeType
  <2> QED
    BY <2>1, <2>3
<1>3. ASSUME NEW p \in ProcessGuids, RemoveDesiredLRP(p) PROVE BBSTypes'
  <2>1. PICK lrp \in DesiredLRPs :
          /\ desired' = [desired EXCEPT ![p] = Nil]
          /\ Change([type |-> "DesiredLRPRemovedEvent", desiredLRP |-> lrp])
          /\ actual' = actual /\ fresh' = fresh
    BY <1>3, DesiredRemoval
  <2>2. [type |-> "DesiredLRPRemovedEvent", desiredLRP |-> lrp] \in Events
    BY DEF Events, DesiredEvents
  <2>3. stream' \in Seq(Events)
    BY <2>1, <2>2, ChangeType
  <2> QED
    BY <2>1, <2>3
<1>4. ASSUME NEW l \in LRPKeys,
             ClaimLRP(l) \/ StartLRP(l) \/ CrashLRP(l) \/ UnclaimEvacuatedLRP(l)
      PROVE  BBSTypes'
  <2>1. /\ actual' \in [LRPKeys -> Groups]
        /\ stream' \in Seq(Events)
        /\ desired' = desired
    BY <1>4, NewInstance, SetInstanceType
  <2>2. fresh' \in [epochs : [ProcessGuids -> SUBSET Epochs], instanceGuids : SUBSET InstanceGuids]
    BY <1>4 DEF ClaimLRP, StartLRP, CrashLRP, UnclaimEvacuatedLRP, StopLRP
  <2> QED
    BY <2>1, <2>2
<1>5. ASSUME NEW l \in LRPKeys, RemoveLRP(l) PROVE BBSTypes'
  <2>1. [type |-> "ActualLRPRemovedEvent", group |-> Only(actual[l].instance)] \in Events
    BY <1>5 DEF RemoveLRP, Events, ActualEvents, OneSided, Groups
  <2>2. stream' \in Seq(Events)
    BY <1>5, <2>1, ChangeType DEF RemoveLRP
  <2> QED
    BY <1>5, <2>2 DEF RemoveLRP, Groups
<1>6. ASSUME NEW l \in LRPKeys, EvacuateLRP(l) PROVE BBSTypes'
  <2>1. actual[l].instance \in ActualLRPs
    BY <1>6, NilAssumption DEF EvacuateLRP, StateOf, Groups, ActualLRPStates
  <2>2. [type |-> "ActualLRPCreatedEvent",
         group |-> OnlyEvacuating(actual[l].instance)] \in Events
    BY <2>1 DEF Events, ActualEvents, OneSided
  <2>3. stream' \in Seq(Events)
    BY <1>6, <2>2, ChangeType DEF EvacuateLRP
  <2> QED
    BY <1>6, <2>1, <2>3 DEF EvacuateLRP, Groups
<1>7. ASSUME NEW l \in LRPKeys, RemoveEvacuatingLRP(l) PROVE BBSTypes'
  <2>1. [type |-> "ActualLRPRemovedEvent",
         group |-> OnlyEvacuating(actual[l].evacuating)] \in Events
    BY <1>7 DEF RemoveEvacuatingLRP, Events, ActualEvents, OneSided, Groups
  <2>2. stream' \in Seq(Events)
    BY <1>7, <2>1, ChangeType DEF RemoveEvacuatingLRP
  <2> QED
    BY <1>7, <2>2 DEF RemoveEvacuatingLRP, Groups
<1> HIDE DEF BBSTypes
<1> QED
  BY <1>1, <1>2, <1>3, <1>4, <1>5, <1>6, <1>7 DEF BBSNext

\* The BBS starts out with its types.
LEMMA BBSTypesInit == BBSInit => BBSTypes
<1> SUFFICES ASSUME BBSInit PROVE BBSTypes
  OBVIOUS
<1>1. FirstTag(AnyEpoch) \in ModificationTags
  BY TagTypes
<1>2. /\ desired \in [ProcessGuids -> DesiredLRPs \cup {Nil}]
      /\ \A p \in ProcessGuids : desired[p] # Nil => desired[p].processGuid = p
  BY <1>1, BBSAssumption DEF BBSInit, DesiredLRPs
<1>3. ASSUME NEW p \in ProcessGuids, NEW i \in InstanceGuids,
             NEW b \in [ContainerPorts -> Addresses]
      PROVE  Only(Running(p, i, b)) \in Groups
  BY <1>1 DEF Only, Running, Groups, ActualLRPs, ActualLRPStates
<1>4. InitialGroups \subseteq Groups
  BY <1>3 DEF InitialGroups, NoGroup, Groups
<1>5. actual \in [LRPKeys -> Groups]
  BY <1>4 DEF BBSInit
<1>6. fresh \in [epochs : [ProcessGuids -> SUBSET Epochs], instanceGuids : SUBSET InstanceGuids]
  BY DEF BBSInit
<1>7. stream \in Seq(Events)
  BY EmptySeq DEF BBSInit
<1> QED
  BY <1>2, <1>5, <1>6, <1>7 DEF BBSTypes

\* The groups and the desired LRPs that a fetch returns have their types.
LEMMA AnswerTypes ==
  ASSUME BBSTypes
  PROVE  /\ ActualLRPGroupList \subseteq ActualLRPGroups
         /\ DesiredLRPSchedulingInfos \subseteq DesiredLRPs
<1>1. ASSUME NEW l \in LRPKeys, actual[l] # NoGroup
      PROVE  actual[l] \in ActualLRPGroups
  BY <1>1 DEF BBSTypes, Groups, NoGroup, ActualLRPGroups
<1> QED
  BY <1>1 DEF BBSTypes, ActualLRPGroupList, DesiredLRPSchedulingInfos

\* handleEvent turns a table and an event into a table and routing events.
LEMMA HandleEventType ==
  ASSUME NEW table \in Tables, NEW event \in Events
  PROVE  handleEvent(table, event) \in Results
<1>1. NoChange(table) \in Results
  BY DEF NoChange, Results
<1>2. \A lrp \in DesiredLRPs : DesiredLRPSchedulingInfo(lrp) \in DesiredLRPs
  BY DEF DesiredLRPSchedulingInfo, DesiredLRPs
<1>3. CASE /\ event.type \in {"DesiredLRPCreatedEvent", "DesiredLRPRemovedEvent"}
           /\ event.desiredLRP \in DesiredLRPs
  BY <1>2, <1>3, AddRoutesType, RemoveRoutesType
     DEF handleEvent, handleDesiredCreate, handleDesiredDelete
<1>4. CASE /\ event.type = "DesiredLRPChangedEvent"
           /\ event.before \in DesiredLRPs /\ event.after \in DesiredLRPs
  BY <1>2, <1>4, UpdateRoutesType DEF handleEvent, handleDesiredUpdate
<1>5. CASE /\ event.type \in {"ActualLRPCreatedEvent", "ActualLRPRemovedEvent"}
           /\ event.group \in OneSided
  BY <1>1, <1>5, OneSidedGroups, AddEndpointType, RemoveEndpointType
     DEF handleEvent, handleActualCreate, handleActualDelete
<1>6. CASE /\ event.type = "ActualLRPChangedEvent"
           /\ event.before \in OneSided /\ event.after \in OneSided
  <2>1. handleActualUpdate(table, event.before, event.after) \in Results
    <3>1. CASE IsRunning(event.after)
      BY <1>6, <3>1, OneSidedGroups, AddEndpointType DEF handleActualUpdate
    <3>2. CASE ~IsRunning(event.after) /\ IsRunning(event.before)
      BY <1>6, <3>2, OneSidedGroups, RemoveEndpointType DEF handleActualUpdate
    <3>3. CASE ~IsRunning(event.after) /\ ~IsRunning(event.before)
      BY <1>1, <3>3 DEF handleActualUpdate
    <3> QED
      BY <3>1, <3>2, <3>3
  <2> QED
    BY <1>6, <2>1 DEF handleEvent
<1> QED
  BY <1>3, <1>4, <1>5, <1>6 DEF Events, DesiredEvents, ActualEvents

\* A port cut down to sixteen bits.
LEMMA Uint16Type ==
  ASSUME NEW n \in Nat
  PROVE  Uint16(n) \in Uint16s
<1>1. \A m \in Nat \ {0} : n % m \in 0 .. (m - 1)
  OBVIOUS
<1> QED
  BY <1>1 DEF Uint16, Uint16s

\* Routing events ask for TCP route mappings.
LEMMA MappingRequestTypes ==
  ASSUME NEW events \in SUBSET RoutingEvents
  PROVE  /\ ToMappingRequests(events).upserts \subseteq TcpRouteMappings
         /\ ToMappingRequests(events).deletes \subseteq TcpRouteMappings
<1>1. ASSUME NEW e \in RoutingEvents
      PROVE  mapRoutingEvent(e) \subseteq TcpRouteMappings
  <2>1. ASSUME NEW x \in e.entry.externalEndpoints, NEW ek \in PresentEndpoints(e.entry)
        PROVE  [routerGroupGuid |-> x.routerGroupGuid, port |-> Uint16(x.port),
                address |-> e.entry.endpoints[ek].address] \in TcpRouteMappings
    <3>1. x.routerGroupGuid \in RouterGroupGuids /\ x.port \in Nat
      BY ExternalEndpointInfosAssumption DEF RoutingEvents, RoutableEndpoints
    <3>2. Uint16(x.port) \in Uint16s
      BY <3>1, Uint16Type
    <3>3. e.entry.endpoints[ek].address \in Addresses
      BY DEF RoutingEvents, RoutableEndpoints, PresentEndpoints, Endpoints
    <3> QED
      BY <3>1, <3>2, <3>3 DEF TcpRouteMappings
  <2> QED
    BY <2>1 DEF mapRoutingEvent
<1>2. ASSUME NEW some \in SUBSET events
      PROVE  buildMappingRequests(some) \subseteq TcpRouteMappings
  BY <1>1 DEF buildMappingRequests
<1> QED
  BY <1>2 DEF ToMappingRequests

\* Whatever becomes of the requests, the routing API holds mappings.
LEMMA EmitType ==
  ASSUME routes \subseteq TcpRouteMappings, NEW kept \in SUBSET TcpRouteMappings,
         NEW events \in SUBSET RoutingEvents, emit(kept, events)
  PROVE  routes' \subseteq TcpRouteMappings /\ upserted' \subseteq TcpRouteMappings
<1> DEFINE batch == ToMappingRequests(events)
<1>1. batch.upserts \subseteq TcpRouteMappings /\ batch.deletes \subseteq TcpRouteMappings
  BY MappingRequestTypes
<1>2. routes' \in EmitOutcomes(routes, events)
      /\ upserted' = IF stable THEN Applied(kept, batch) ELSE {}
  BY DEF emit
<1> HIDE DEF batch
<1>3. Applied(kept, batch) \subseteq TcpRouteMappings
      /\ Applied(routes, batch) \subseteq TcpRouteMappings
  BY <1>1 DEF Applied
<1>4. \A o \in Outcomes(routes, batch) : o \subseteq TcpRouteMappings
  BY <1>1 DEF Outcomes, UpsertEffects, DeleteEffects
<1>5. \A o \in EmitOutcomes(routes, events) : o \subseteq TcpRouteMappings
  BY <1>3, <1>4 DEF EmitOutcomes, batch
<1> QED
  BY <1>2, <1>3, <1>5

\* HandleNow leaves a table and mappings.
LEMMA HandleNowType ==
  ASSUME entries \in Tables, routes \subseteq TcpRouteMappings,
         upserted \subseteq TcpRouteMappings, NEW event \in Events, HandleNow(event)
  PROVE  /\ entries' = handleEvent(entries, event).entries
         /\ entries' \in Tables
         /\ routes' \subseteq TcpRouteMappings
         /\ upserted' \subseteq TcpRouteMappings
<1> DEFINE result == handleEvent(entries, event)
<1>1. result \in Results
  BY HandleEventType
<1>2. entries' = result.entries /\ emit(upserted, result.events)
  BY DEF HandleNow
<1> HIDE DEF result
<1>3. result.entries \in Tables /\ result.events \in SUBSET RoutingEvents
  BY <1>1 DEF Results
<1>4. routes' \subseteq TcpRouteMappings /\ upserted' \subseteq TcpRouteMappings
  BY <1>2, <1>3, EmitType
<1> QED
  BY <1>2, <1>3, <1>4 DEF result

-----------------------------------------------------------------------------
(* The table that a sync builds *)

\* The routes of a new table: at a key, those of one of the desired LRPs that
\* have it, or none.
LEMMA TableOfRoutesAt ==
  ASSUME NEW lrps \in SUBSET DesiredLRPs, NEW k \in RoutingKeys
  PROVE  \/ /\ TableOfRoutes(lrps)[k] = Nil
            /\ \A d \in lrps : k \notin NewRoutingKeysFromDesired(d)
         \/ \E d \in lrps :
              /\ k \in NewRoutingKeysFromDesired(d)
              /\ TableOfRoutes(lrps)[k]
                   = UpdatedEntry(ZeroEntry, NewExternalEndpoints(k, d), d.modificationTag)
<1>1. Lookup(NewTable, k) = ZeroEntry
  BY DEF Lookup, NewTable
<1>2. \A d \in lrps : k \in KeysToMerge(NewTable, d) <=> k \in NewRoutingKeysFromDesired(d)
  BY <1>1 DEF KeysToMerge, SucceededBy, ZeroEntry
<1>3. CASE \E d \in lrps : k \in KeysToMerge(NewTable, d)
  <2> DEFINE d == CHOOSE d \in lrps : k \in KeysToMerge(NewTable, d)
  <2>1. d \in lrps /\ k \in NewRoutingKeysFromDesired(d)
    BY <1>2, <1>3
  <2>2. TableOfRoutes(lrps)[k] = mergeRoutesEntry(NewTable, k, d)
    BY <1>3 DEF TableOfRoutes
  <2> HIDE DEF d
  <2>3. PICK r \in d.routes : r.containerPort = k.containerPort
    BY <2>1 DEF NewRoutingKeysFromDesired
  <2>4. r.external \in NewExternalEndpoints(k, d)
    BY <2>3 DEF NewExternalEndpoints
  <2>5. RegistrationNeeded(ZeroEntry, NewExternalEndpoints(k, d))
    BY <2>4 DEF RegistrationNeeded, ContainsExternalPort, ZeroEntry
  <2>6. TableOfRoutes(lrps)[k]
          = UpdatedEntry(ZeroEntry, NewExternalEndpoints(k, d), d.modificationTag)
    BY <1>1, <2>2, <2>5 DEF mergeRoutesEntry
  <2> QED
    BY <2>1, <2>6
<1>4. CASE ~\E d \in lrps : k \in KeysToMerge(NewTable, d)
  BY <1>2, <1>4 DEF TableOfRoutes
<1> QED
  BY <1>3, <1>4

\* The routes of a new table are a table.
LEMMA TableOfRoutesType ==
  ASSUME NEW lrps \in SUBSET DesiredLRPs
  PROVE  TableOfRoutes(lrps) \in Tables
<1>1. ASSUME NEW k \in RoutingKeys
      PROVE  TableOfRoutes(lrps)[k] \in RoutableEndpoints \cup {Nil}
  <2>1. ASSUME NEW d \in lrps
        PROVE  UpdatedEntry(ZeroEntry, NewExternalEndpoints(k, d), d.modificationTag)
                 \in RoutableEndpoints
    <3>1. d.modificationTag \in ModificationTags
      BY DEF DesiredLRPs
    <3> QED
      BY <3>1, ZeroEntryType, NewExternalEndpointsType, UpdatedEntryType
  <2> QED
    BY <2>1, TableOfRoutesAt
<1>2. TableOfRoutes(lrps) = [k \in RoutingKeys |-> TableOfRoutes(lrps)[k]]
  BY DEF TableOfRoutes
<1> QED
  BY <1>1, <1>2 DEF Tables

\* A new table has the routes of the desired LRPs, and at each endpoint key of
\* a routing key the endpoint of a group that has both, or none.
LEMMA TableOfAt ==
  ASSUME NEW lrps \in SUBSET DesiredLRPs, NEW groups \in SUBSET ActualLRPGroups
  PROVE  /\ TableOf(lrps, groups) \in Tables
         /\ \A k \in RoutingKeys :
              LET here   == Lookup(TableOf(lrps, groups), k)
                  routed == Lookup(TableOfRoutes(lrps), k)
              IN  /\ here.externalEndpoints = routed.externalEndpoints
                  /\ here.modificationTag = routed.modificationTag
                  /\ \A ek \in PresentEndpoints(here) : \E g \in groups :
                       /\ k \in NewRoutingKeysFromActual(g)
                       /\ EndpointKeyOf(g) = ek
                       /\ here.endpoints[ek] = NewEndpointFromActual(g, k.containerPort)
<1> DEFINE T == TableOf(lrps, groups)
           R == TableOfRoutes(lrps)
           at(k) == {g \in groups : k \in NewRoutingKeysFromActual(g)}
           chosen(k, ek) == CHOOSE g \in at(k) : EndpointKeyOf(g) = ek
           endpoints(k) == [ek \in EndpointKeys |->
                              IF \E g \in at(k) : EndpointKeyOf(g) = ek
                                THEN NewEndpointFromActual(chosen(k, ek), k.containerPort)
                                ELSE Nil]
<1>1. T = [k \in RoutingKeys |->
             IF at(k) = {} THEN R[k] ELSE [Lookup(R, k) EXCEPT !.endpoints = endpoints(k)]]
  BY DEF TableOf
<1>2. R \in Tables
  BY TableOfRoutesType
<1>3. ASSUME NEW k \in RoutingKeys, NEW ek \in EndpointKeys,
             \E g \in at(k) : EndpointKeyOf(g) = ek
      PROVE  /\ chosen(k, ek) \in groups
             /\ k \in NewRoutingKeysFromActual(chosen(k, ek))
             /\ EndpointKeyOf(chosen(k, ek)) = ek
             /\ NewEndpointFromActual(chosen(k, ek), k.containerPort) \in Endpoints
  <2>1. /\ chosen(k, ek) \in groups
        /\ k \in NewRoutingKeysFromActual(chosen(k, ek))
        /\ EndpointKeyOf(chosen(k, ek)) = ek
    BY <1>3
  <2> HIDE DEF chosen
  <2> QED
    BY <2>1, NewEndpointType
<1> HIDE DEF T, R, chosen
<1>4. ASSUME NEW k \in RoutingKeys
      PROVE  endpoints(k) \in [EndpointKeys -> Endpoints \cup {Nil}]
  BY <1>3
<1>5. ASSUME NEW k \in RoutingKeys
      PROVE  Lookup(R, k) \in RoutableEndpoints
  BY <1>2, LookupType
<1>6. ASSUME NEW k \in RoutingKeys
      PROVE  [Lookup(R, k) EXCEPT !.endpoints = endpoints(k)] \in RoutableEndpoints
  <2> HIDE DEF endpoints
  <2> QED
    BY <1>4, <1>5 DEF RoutableEndpoints
<1>7. T \in Tables
  BY <1>1, <1>2, <1>6 DEF Tables
<1>8. ASSUME NEW k \in RoutingKeys, at(k) = {}
      PROVE  Lookup(T, k) = Lookup(R, k)
  BY <1>1, <1>8 DEF Lookup
<1>9. ASSUME NEW k \in RoutingKeys, at(k) # {}
      PROVE  Lookup(T, k) = [Lookup(R, k) EXCEPT !.endpoints = endpoints(k)]
  <2>1. T[k] = [Lookup(R, k) EXCEPT !.endpoints = endpoints(k)]
    BY <1>1, <1>9
  <2>2. T[k] # Nil
    BY <1>6, <2>1, NilIsNoEntry
  <2> QED
    BY <2>1, <2>2 DEF Lookup
<1>10. ASSUME NEW k \in RoutingKeys, NEW ek \in EndpointKeys
       PROVE  Lookup(R, k).endpoints[ek] = Nil
  <2>1. ZeroEntry.endpoints[ek] = Nil
    BY DEF ZeroEntry
  <2>2. \A externals, tag : UpdatedEntry(ZeroEntry, externals, tag).endpoints[ek] = Nil
    BY <2>1, ZeroEntryType DEF UpdatedEntry, RoutableEndpoints
  <2>3. R[k] = Nil \/ R[k].endpoints[ek] = Nil
    BY <2>2, TableOfRoutesAt DEF R
  <2> QED
    BY <2>1, <2>3 DEF Lookup
<1>11. ASSUME NEW k \in RoutingKeys
       PROVE  /\ Lookup(T, k).externalEndpoints = Lookup(R, k).externalEndpoints
              /\ Lookup(T, k).modificationTag = Lookup(R, k).modificationTag
  <2> HIDE DEF at, endpoints
  <2> QED
    BY <1>5, <1>8, <1>9 DEF RoutableEndpoints
<1>12. ASSUME NEW k \in RoutingKeys, NEW ek \in PresentEndpoints(Lookup(T, k))
       PROVE  \E g \in groups :
                /\ k \in NewRoutingKeysFromActual(g)
                /\ EndpointKeyOf(g) = ek
                /\ Lookup(T, k).endpoints[ek] = NewEndpointFromActual(g, k.containerPort)
  <2>1. ek \in EndpointKeys /\ Lookup(T, k).endpoints[ek] # Nil
    BY DEF PresentEndpoints
  <2>2. at(k) # {}
    BY <1>8, <1>10, <2>1
  <2>3. Lookup(T, k).endpoints = endpoints(k)
    <3> HIDE DEF at, endpoints
    <3> QED
      BY <1>5, <1>9, <2>2 DEF RoutableEndpoints
  <2>4. /\ \E g \in at(k) : EndpointKeyOf(g) = ek
        /\ Lookup(T, k).endpoints[ek] = NewEndpointFromActual(chosen(k, ek), k.containerPort)
    BY <2>1, <2>3
  <2> QED
    BY <1>3, <2>1, <2>4
<1> QED
  BY <1>7, <1>11, <1>12 DEF T, R

-----------------------------------------------------------------------------
(* The types are inductive *)

\* handler.HandleEvent keeps the types.
LEMMA HandleEventTypes ==
  ASSUME Types, HandleEvent
  PROVE  Types'
<1> USE DEF Types
<1>1. /\ Head(stream) \in Events
      /\ Tail(stream) \in Seq(Events)
      /\ stream' = Tail(stream)
  BY HeadTailProperties DEF HandleEvent, BBSTypes
<1>2. BBSTypes'
  BY <1>1 DEF HandleEvent, BBSTypes
<1>3. CASE syncing
  <2>1. cachedEvents' \in Seq(Events)
    BY <1>1, <1>3, AppendProperties DEF HandleEvent, Cache
  <2> QED
    BY <1>2, <1>3, <2>1 DEF HandleEvent, Cache, TypeOK
<1>4. CASE ~syncing
  <2>1. HandleNow(Head(stream)) /\ UNCHANGED cachedEvents
    BY <1>4 DEF HandleEvent
  <2>2. /\ entries' \in Tables
        /\ routes' \subseteq TcpRouteMappings
        /\ upserted' \subseteq TcpRouteMappings
    BY <1>1, <2>1, HandleNowType DEF TypeOK
  <2> QED
    BY <1>2, <2>1, <2>2 DEF HandleEvent, TypeOK
<1> QED
  BY <1>3, <1>4

\* One turn of applyCachedEvents keeps the types.
LEMMA ApplyCachedEventTypes ==
  ASSUME Types, ApplyCachedEvent
  PROVE  Types'
<1> USE DEF Types
<1>1. /\ Head(cachedEvents) \in Events
      /\ Tail(cachedEvents) \in Seq(Events)
      /\ cachedEvents' = Tail(cachedEvents)
  BY HeadTailProperties DEF ApplyCachedEvent
<1>2. BBSTypes'
  BY DEF ApplyCachedEvent, BBSTypes, bbsVars
<1>3. CASE /\ pc = "applyToCurrent"
           /\ HandleNow(Head(cachedEvents))
           /\ UNCHANGED tempTable
  <2>1. /\ entries' \in Tables
        /\ routes' \subseteq TcpRouteMappings
        /\ upserted' \subseteq TcpRouteMappings
    BY <1>1, <1>3, HandleNowType DEF TypeOK
  <2> QED
    BY <1>1, <1>2, <1>3, <2>1 DEF ApplyCachedEvent, TypeOK
<1>4. CASE /\ pc = "applyToTemp"
           /\ tempTable' = handleEvent(tempTable, Head(cachedEvents)).entries
           /\ UNCHANGED <<entries, routes, upserted>>
  <2>1. tempTable' \in Tables
    BY <1>1, <1>4, HandleEventType DEF Results
  <2> QED
    BY <1>1, <1>2, <1>4, <2>1 DEF ApplyCachedEvent, TypeOK
<1> QED
  BY <1>3, <1>4 DEF ApplyCachedEvent

\* The construction of the new table keeps the types.
LEMMA BuildTableTypes ==
  ASSUME Types, BuildTable
  PROVE  Types'
<1> USE DEF Types
<1>1. CASE gotActual = Failed \/ gotDesired = Failed
  BY <1>1 DEF BuildTable, TypeOK, BBSTypes, bbsVars
<1>2. CASE gotActual # Failed /\ gotDesired # Failed
  <2>1. gotActual \in SUBSET ActualLRPGroups /\ gotDesired \in SUBSET DesiredLRPs
    BY <1>2 DEF BuildTable, TypeOK
  <2>2. tempTable' \in Tables
    BY <1>2, <2>1, TableOfAt DEF BuildTable
  <2> QED
    BY <2>2 DEF BuildTable, TypeOK, BBSTypes, bbsVars
<1> QED
  BY <1>1, <1>2

\* The end of Sync keeps the types.
LEMMA EndSyncTypes ==
  ASSUME Types, EndSync
  PROVE  Types'
<1> USE DEF Types
<1>1. /\ entries' \in Tables
      /\ routes' \subseteq TcpRouteMappings
      /\ upserted' \subseteq TcpRouteMappings
  <2>1. CASE pc = "applyToCurrent"
    BY <2>1 DEF EndSync, TypeOK
  <2>2. CASE pc = "applyToTemp"
    <3> DEFINE result == Swap(entries, tempTable)
    <3>1. SwapAndEmit
      BY <2>2 DEF EndSync
    <3>2. entries' = result.entries /\ emit({}, result.events)
      BY <3>1 DEF SwapAndEmit
    <3>3. result \in Results
      BY <2>2, SwapType DEF TypeOK
    <3> HIDE DEF result
    <3>4. result.entries \in Tables /\ result.events \in SUBSET RoutingEvents
      BY <3>3 DEF Results
    <3> QED
      BY <3>2, <3>4, EmitType DEF TypeOK
  <2> QED
    BY <2>1, <2>2 DEF EndSync
<1>2. tracking' \in {"lost", "recovering", "tracking"}
  BY DEF EndSync, TypeOK
<1> QED
  BY <1>1, <1>2 DEF EndSync, SyncCompleted, TypeOK, BBSTypes, bbsVars

\* The types hold in the initial states.
LEMMA TypesInit == Init => Types
<1>1. <<>> \in Seq(Events)
  BY EmptySeq
<1>2. NewTable \in Tables
  BY DEF NewTable, Tables
<1> QED
  BY <1>1, <1>2, BBSTypesInit DEF Init, Types, TypeOK

\* Every step keeps the types.
LEMMA TypesStep ==
  ASSUME Types, [Next]_vars
  PROVE  Types'
<1>1. CASE HandleEvent
  BY <1>1, HandleEventTypes
<1>2. CASE BeginSync
  BY <1>2, EmptySeq DEF BeginSync, Types, TypeOK, BBSTypes, bbsVars
<1>3. CASE FetchActualLRPs
  BY <1>3, AnswerTypes DEF FetchActualLRPs, Types, TypeOK, BBSTypes, bbsVars
<1>4. CASE FetchDesiredLRPs
  BY <1>4, AnswerTypes DEF FetchDesiredLRPs, Types, TypeOK, BBSTypes, bbsVars
<1>5. CASE BuildTable
  BY <1>5, BuildTableTypes
<1>6. CASE ApplyCachedEvent
  BY <1>6, ApplyCachedEventTypes
<1>7. CASE EndSync
  BY <1>7, EndSyncTypes
<1>8. CASE LoseEvents
  BY <1>8, EmptySeq DEF LoseEvents, Types, TypeOK, BBSTypes, handlerVars
<1>9. CASE FailOver
  <2>1. NewTable \in Tables
    BY DEF NewTable, Tables
  <2> QED
    BY <1>9, <2>1, EmptySeq DEF FailOver, Types, TypeOK, BBSTypes
<1>10. ASSUME NEW m \in routes \ upserted, Expire(m) PROVE Types'
  BY <1>10 DEF Expire, Types, TypeOK, BBSTypes, bbsVars
<1>11. CASE Stabilize
  BY <1>11 DEF Stabilize, Types, TypeOK, BBSTypes, handlerVars, bbsVars
<1>12. CASE BBSStep
  <2>1. BBSTypes'
    BY <1>12, BBSTypesStep DEF BBSStep, Types
  <2> QED
    BY <1>12, <2>1 DEF BBSStep, Types, TypeOK, handlerVars
<1>13. CASE UNCHANGED vars
  BY <1>13 DEF vars, Types, TypeOK, BBSTypes, handlerVars, bbsVars
<1> QED
  BY <1>1, <1>2, <1>3, <1>4, <1>5, <1>6, <1>7, <1>8, <1>9, <1>10, <1>11, <1>12, <1>13
     DEF Next, SyncStep, Environment

\* The strengthened types hold of every behaviour.
LEMMA TypesInvariant == Spec => []Types
BY TypesInit, TypesStep, PTL DEF Spec

\* The handler's fields and the locals of Sync have their types whatever the
\* BBS sends, fails or loses, and syncing says whether Sync is at work.
THEOREM HandlerTypeOK == Spec => []TypeOK
<1>1. Types => TypeOK
  BY DEF Types
<1> QED
  BY <1>1, TypesInvariant, PTL

-----------------------------------------------------------------------------
(* NoGhostEndpoints: the invariant *)

\* The running group an event makes the handler add or remove, as a set.
AddedBy(event) ==
  {g \in CASE event.type = "ActualLRPCreatedEvent" -> {event.group}
           [] event.type = "ActualLRPChangedEvent" -> {event.after}
           [] OTHER -> {} :
     IsRunning(g)}

RemovedBy(event) ==
  {g \in CASE event.type = "ActualLRPRemovedEvent" -> {event.group}
           [] event.type = "ActualLRPChangedEvent" /\ ~IsRunning(event.after) -> {event.before}
           [] OTHER -> {} :
     IsRunning(g)}

\* The containers that run according to the BBS, as groups of one side.
LiveIn(groups) ==
  {g \in {Only(groups[l].instance) : l \in LRPKeys}
           \cup {OnlyEvacuating(groups[l].evacuating) : l \in LRPKeys} :
     g # NoGroup /\ IsRunning(g)}

LiveGroups == LiveIn(actual)

\* The groups that are live or that an event after the first n will remove.
Accounted(live, events, n) ==
  live \cup UNION {RemovedBy(events[j]) : j \in {i \in 1..Len(events) : i > n}}

\* Whatever an event adds is live or removed by a later one.
AddsAccounted(live, events) ==
  \A i \in 1..Len(events) : AddedBy(events[i]) \subseteq Accounted(live, events, i)

IsEndpointOf(table, k, ek, g) ==
  /\ k \in NewRoutingKeysFromActual(g)
  /\ EndpointKeyOf(g) = ek
  /\ Lookup(table, k).endpoints[ek] = NewEndpointFromActual(g, k.containerPort)

\* Every endpoint of a table is that of a group that is live or will be removed.
EndpointsAccounted(live, table, events) ==
  \A k \in RoutingKeys : \A ek \in PresentEndpoints(Lookup(table, k)) :
    \E g \in Accounted(live, events, 0) : IsEndpointOf(table, k, ek, g)

\* The side a group resolves to, as events carry it.
ResolvedSide(g) ==
  IF ResolvesToEvacuating(g) THEN OnlyEvacuating(g.evacuating) ELSE Only(g.instance)

GroupsAccounted(live, groups, events) ==
  \A g \in groups : ResolvedSide(g) \in Accounted(live, events, 0)

\* The events that the table of the handler, or of Sync, has yet to see.
Pending == cachedEvents \o stream

\* The stream begins after the last loss of events.  As long as none were lost
\* since the sync began, or since the last one that was of use, the pending
\* events account for what Sync has read and built; the handler's own table
\* counts while it is the one that events are applied to.
GhostInv ==
  /\ AddsAccounted(LiveGroups, stream)
  /\ tracking # "lost" => AddsAccounted(LiveGroups, Pending)
  /\ tracking = "tracking" /\ pc # "applyToTemp" =>
       EndpointsAccounted(LiveGroups, entries, Pending)
  /\ tracking # "lost" /\ pc = "fetching" /\ gotActual \notin {Nil, Failed} =>
       GroupsAccounted(LiveGroups, gotActual, Pending)
  /\ tracking # "lost" /\ pc = "applyToTemp" =>
       EndpointsAccounted(LiveGroups, tempTable, Pending)

-----------------------------------------------------------------------------
(* What handleEvent does to a table *)

\* The parts of a desired LRP that handleDesiredCreate and the others pass on
\* are all that the model has of it.
LEMMA SchedulingInfoIsTheLRP ==
  ASSUME NEW lrp \in DesiredLRPs
  PROVE  DesiredLRPSchedulingInfo(lrp) = lrp
BY DEF DesiredLRPSchedulingInfo, DesiredLRPs

\* The table operation that a desired LRP event stands for.
LEMMA HandleDesiredEvent ==
  ASSUME NEW table, NEW event \in DesiredEvents
  PROVE  /\ AddedBy(event) = {} /\ RemovedBy(event) = {}
         /\ \/ /\ event.type = "DesiredLRPCreatedEvent"
               /\ event.desiredLRP \in DesiredLRPs
               /\ handleEvent(table, event) = AddRoutes(table, event.desiredLRP)
            \/ /\ event.type = "DesiredLRPRemovedEvent"
               /\ event.desiredLRP \in DesiredLRPs
               /\ handleEvent(table, event) = RemoveRoutes(table, event.desiredLRP)
            \/ /\ event.type = "DesiredLRPChangedEvent"
               /\ event.before \in DesiredLRPs /\ event.after \in DesiredLRPs
               /\ handleEvent(table, event) = UpdateRoutes(table, event.before, event.after)
<1>1. CASE /\ event.type \in {"DesiredLRPCreatedEvent", "DesiredLRPRemovedEvent"}
           /\ event.desiredLRP \in DesiredLRPs
  <2>1. DesiredLRPSchedulingInfo(event.desiredLRP) = event.desiredLRP
    BY <1>1, SchedulingInfoIsTheLRP
  <2> QED
    BY <1>1, <2>1 DEF handleEvent, handleDesiredCreate, handleDesiredDelete, AddedBy, RemovedBy
<1>2. CASE /\ event.type = "DesiredLRPChangedEvent"
           /\ event.before \in DesiredLRPs /\ event.after \in DesiredLRPs
  <2>1. /\ DesiredLRPSchedulingInfo(event.before) = event.before
        /\ DesiredLRPSchedulingInfo(event.after) = event.after
    BY <1>2, SchedulingInfoIsTheLRP
  <2> QED
    BY <1>2, <2>1 DEF handleEvent, handleDesiredUpdate, AddedBy, RemovedBy
<1> QED
  BY <1>1, <1>2 DEF DesiredEvents

\* The table operation that an actual LRP event stands for.
LEMMA HandleActualEvent ==
  ASSUME NEW table, NEW event \in ActualEvents
  PROVE  \/ \E g \in OneSided :
              /\ AddedBy(event) = {g} /\ RemovedBy(event) = {}
              /\ handleEvent(table, event) = AddEndpoint(table, g)
         \/ \E g \in OneSided :
              /\ AddedBy(event) = {} /\ RemovedBy(event) = {g}
              /\ handleEvent(table, event) = RemoveEndpoint(table, g)
         \/ /\ AddedBy(event) = {} /\ RemovedBy(event) = {}
            /\ handleEvent(table, event) = NoChange(table)
<1>1. CASE event.type = "ActualLRPCreatedEvent" /\ event.group \in OneSided
  <2>1. /\ AddedBy(event) = {g \in {event.group} : IsRunning(g)}
        /\ RemovedBy(event) = {}
        /\ handleEvent(table, event) = handleActualCreate(table, event.group)
    BY <1>1 DEF AddedBy, RemovedBy, handleEvent
  <2> QED
    BY <1>1, <2>1 DEF handleActualCreate
<1>2. CASE event.type = "ActualLRPRemovedEvent" /\ event.group \in OneSided
  <2>1. /\ RemovedBy(event) = {g \in {event.group} : IsRunning(g)}
        /\ AddedBy(event) = {}
        /\ handleEvent(table, event) = handleActualDelete(table, event.group)
    BY <1>2 DEF AddedBy, RemovedBy, handleEvent
  <2> QED
    BY <1>2, <2>1 DEF handleActualDelete
<1>3. CASE /\ event.type = "ActualLRPChangedEvent"
           /\ event.before \in OneSided /\ event.after \in OneSided
  <2>1. /\ AddedBy(event) = {g \in {event.after} : IsRunning(g)}
        /\ RemovedBy(event) = {g \in IF IsRunning(event.after) THEN {} ELSE {event.before} :
                                 IsRunning(g)}
        /\ handleEvent(table, event) = handleActualUpdate(table, event.before, event.after)
    BY <1>3 DEF AddedBy, RemovedBy, handleEvent
  <2>2. CASE IsRunning(event.after)
    BY <1>3, <2>1, <2>2 DEF handleActualUpdate
  <2>3. CASE ~IsRunning(event.after) /\ IsRunning(event.before)
    BY <1>3, <2>1, <2>3 DEF handleActualUpdate
  <2>4. CASE ~IsRunning(event.after) /\ ~IsRunning(event.before)
    BY <1>3, <2>1, <2>4 DEF handleActualUpdate
  <2> QED
    BY <2>2, <2>3, <2>4
<1> QED
  BY <1>1, <1>2, <1>3 DEF ActualEvents

\* Operations on routes never add or change an endpoint.
LEMMA RoutesKeepEndpoints ==
  ASSUME NEW table \in Tables, NEW event \in DesiredEvents, NEW k \in RoutingKeys,
         NEW ek \in EndpointKeys
  PROVE  LET new == Lookup(handleEvent(table, event).entries, k)
         IN  new.endpoints[ek] # Nil => new.endpoints[ek] = Lookup(table, k).endpoints[ek]
<1>0. Lookup(table, k) \in RoutableEndpoints
  BY LookupType
<1>1. ASSUME NEW d \in DesiredLRPs
      PROVE  Lookup(AddRoutes(table, d).entries, k).endpoints = Lookup(table, k).endpoints
  BY <1>0, AddRoutesLookup, UpdatedEntryFields
<1>2. ASSUME NEW d \in DesiredLRPs
      PROVE  \/ Lookup(RemoveRoutes(table, d).entries, k) = ZeroEntry
             \/ Lookup(RemoveRoutes(table, d).entries, k) = Lookup(table, k)
  <2>1. NewRoutingKeysFromDesired(d) \in SUBSET RoutingKeys
    BY DEF NewRoutingKeysFromDesired
  <2> QED
    BY <2>1, RemoveRoutingKeysLookup DEF RemoveRoutes
<1>3. ASSUME NEW b \in DesiredLRPs, NEW a \in DesiredLRPs
      PROVE  \/ Lookup(UpdateRoutes(table, b, a).entries, k) = ZeroEntry
             \/ Lookup(UpdateRoutes(table, b, a).entries, k).endpoints = Lookup(table, k).endpoints
  BY <1>1, UpdateRoutesLookup
<1> QED
  BY <1>1, <1>2, <1>3, HandleDesiredEvent, ZeroEntryFields

\* After an event, an endpoint is the one the event adds, or it was there and
\* is none the event removes: a removal carries the tag the endpoint was stored
\* with, and an equal tag lets it in.
LEMMA HandleEventEndpoints ==
  ASSUME NEW table \in Tables, NEW event \in Events, NEW k \in RoutingKeys,
         NEW ek \in PresentEndpoints(Lookup(handleEvent(table, event).entries, k))
  PROVE  LET new == handleEvent(table, event).entries
         IN  \/ \E g \in AddedBy(event) : IsEndpointOf(new, k, ek, g)
             \/ /\ ek \in PresentEndpoints(Lookup(table, k))
                /\ Lookup(new, k).endpoints[ek] = Lookup(table, k).endpoints[ek]
                /\ \A g \in RemovedBy(event) : ~IsEndpointOf(table, k, ek, g)
<1> DEFINE new == handleEvent(table, event).entries
           old == Lookup(table, k)
<1>1. ek \in EndpointKeys /\ Lookup(new, k).endpoints[ek] # Nil
  BY DEF PresentEndpoints
<1>2. old \in RoutableEndpoints
  BY LookupType
<1>3. CASE event \in DesiredEvents
  BY <1>1, <1>3, RoutesKeepEndpoints, HandleDesiredEvent DEF PresentEndpoints
<1>4. ASSUME NEW g \in OneSided, AddedBy(event) = {g}, RemovedBy(event) = {},
             handleEvent(table, event) = AddEndpoint(table, g)
      PROVE  \/ \E h \in AddedBy(event) : IsEndpointOf(new, k, ek, h)
             \/ /\ ek \in PresentEndpoints(old)
                /\ Lookup(new, k).endpoints[ek] = old.endpoints[ek]
                /\ \A h \in RemovedBy(event) : ~IsEndpointOf(table, k, ek, h)
  <2>1. g \in ActualLRPGroups /\ EndpointKeyOf(g) \in EndpointKeys
    BY OneSidedGroups, ResolveType
  <2>2. Lookup(new, k) = IF k \in KeysToExtend(table, g)
                           THEN WithEndpoint(old, EndpointKeyOf(g),
                                             NewEndpointFromActual(g, k.containerPort))
                           ELSE old
    BY <1>4, <2>1, AddEndpointLookup
  <2>3. CASE k \in KeysToExtend(table, g) /\ ek = EndpointKeyOf(g)
    <3>1. Lookup(new, k).endpoints[ek] = NewEndpointFromActual(g, k.containerPort)
      BY <1>1, <1>2, <2>1, <2>2, <2>3, WithEndpointFields
    <3>2. k \in NewRoutingKeysFromActual(g)
      BY <2>3 DEF KeysToExtend
    <3> QED
      BY <1>4, <2>3, <3>1, <3>2 DEF IsEndpointOf
  <2>4. CASE k \notin KeysToExtend(table, g) \/ ek # EndpointKeyOf(g)
    <3>1. Lookup(new, k).endpoints[ek] = old.endpoints[ek]
      BY <1>1, <1>2, <2>1, <2>2, <2>4, WithEndpointFields
    <3> QED
      BY <1>1, <1>4, <3>1 DEF PresentEndpoints
  <2> QED
    BY <2>3, <2>4
<1>5. ASSUME NEW g \in OneSided, AddedBy(event) = {}, RemovedBy(event) = {g},
             handleEvent(table, event) = RemoveEndpoint(table, g)
      PROVE  /\ ek \in PresentEndpoints(old)
             /\ Lookup(new, k).endpoints[ek] = old.endpoints[ek]
             /\ ~IsEndpointOf(table, k, ek, g)
  <2>1. g \in ActualLRPGroups /\ EndpointKeyOf(g) \in EndpointKeys
    BY OneSidedGroups, ResolveType
  <2>2. Lookup(new, k) = IF k \in KeysToReduce(table, g)
                           THEN WithEndpoint(old, EndpointKeyOf(g), Nil) ELSE old
    BY <1>5, <2>1, RemoveEndpointLookup
  <2>3. k \notin KeysToReduce(table, g) \/ ek # EndpointKeyOf(g)
    BY <1>1, <1>2, <2>1, <2>2, WithEndpointFields
  <2>4. Lookup(new, k).endpoints[ek] = old.endpoints[ek]
    BY <1>1, <1>2, <2>1, <2>2, <2>3, WithEndpointFields
  <2>5. ASSUME IsEndpointOf(table, k, ek, g) PROVE FALSE
    <3>1. /\ k \in NewRoutingKeysFromActual(g)
          /\ EndpointKeyOf(g) = ek
          /\ old.endpoints[ek] = NewEndpointFromActual(g, k.containerPort)
      BY <2>5 DEF IsEndpointOf
    <3>2. old.endpoints[ek].modificationTag = Resolve(g).modificationTag
      BY <3>1 DEF NewEndpointFromActual
    <3>3. k \in KeysToReduce(table, g)
      BY <1>1, <2>4, <3>1, <3>2 DEF KeysToReduce, Equal
    <3> QED
      BY <2>3, <3>1, <3>3
  <2> QED
    BY <1>1, <2>4, <2>5 DEF PresentEndpoints
<1>6. CASE AddedBy(event) = {} /\ RemovedBy(event) = {} /\ handleEvent(table, event) = NoChange(table)
  BY <1>1, <1>6 DEF NoChange, PresentEndpoints
<1> HIDE DEF new, old
<1>7. CASE event \in ActualEvents
  BY <1>4, <1>5, <1>6, <1>7, HandleActualEvent DEF new, old
<1> QED
  BY <1>3, <1>7 DEF Events, new, old

-----------------------------------------------------------------------------
(* Groups and endpoints stay accounted for *)

\* What an event removes counts until that event has been handled.
LEMMA AccountedInTail ==
  ASSUME NEW live, NEW events \in Seq(Events), events # <<>>
  PROVE  /\ \A n \in 1..Len(events) :
              Accounted(live, events, n) \subseteq Accounted(live, Tail(events), n - 1)
         /\ Accounted(live, events, 0)
              \subseteq Accounted(live, Tail(events), 0) \cup RemovedBy(Head(events))
<1>1. /\ Len(events) \in Nat
      /\ Len(Tail(events)) = Len(events) - 1
      /\ \A i \in 1..Len(Tail(events)) : Tail(events)[i] = events[i + 1]
      /\ Head(events) = events[1]
  BY HeadTailProperties, LenProperties
<1>2. ASSUME NEW j \in 2..Len(events)
      PROVE  j - 1 \in 1..Len(Tail(events)) /\ Tail(events)[j - 1] = events[j]
  BY <1>1
<1>3. ASSUME NEW n \in 1..Len(events), NEW g \in Accounted(live, events, n)
      PROVE  g \in Accounted(live, Tail(events), n - 1)
  <2>1. CASE g \in live
    BY <2>1 DEF Accounted
  <2>2. CASE g \notin live
    <3>1. PICK j \in 1..Len(events) : j > n /\ g \in RemovedBy(events[j])
      BY <2>2 DEF Accounted
    <3>2. /\ j - 1 \in 1..Len(Tail(events)) /\ j - 1 > n - 1
          /\ g \in RemovedBy(Tail(events)[j - 1])
      BY <1>1, <1>2, <3>1
    <3> QED
      BY <3>2 DEF Accounted
  <2> QED
    BY <2>1, <2>2
<1>4. ASSUME NEW g \in Accounted(live, events, 0)
      PROVE  g \in Accounted(live, Tail(events), 0) \cup RemovedBy(Head(events))
  <2>1. CASE g \in live
    BY <2>1 DEF Accounted
  <2>2. CASE g \notin live
    <3>1. PICK j \in 1..Len(events) : g \in RemovedBy(events[j])
      BY <2>2 DEF Accounted
    <3>2. CASE j = 1
      BY <1>1, <3>1, <3>2
    <3>3. CASE j # 1
      <4>1. /\ j - 1 \in 1..Len(Tail(events)) /\ j - 1 > 0
            /\ g \in RemovedBy(Tail(events)[j - 1])
        BY <1>1, <1>2, <3>1, <3>3
      <4> QED
        BY <4>1 DEF Accounted
    <3> QED
      BY <3>2, <3>3
  <2> QED
    BY <2>1, <2>2
<1> QED
  BY <1>3, <1>4

\* Handling the first event leaves the additions of the others accounted for.
LEMMA AddsAccountedInTail ==
  ASSUME NEW live, NEW events \in Seq(Events), events # <<>>, AddsAccounted(live, events)
  PROVE  AddsAccounted(live, Tail(events))
<1>1. /\ Len(events) \in Nat
      /\ Len(Tail(events)) = Len(events) - 1
      /\ \A i \in 1..Len(Tail(events)) : Tail(events)[i] = events[i + 1]
  BY HeadTailProperties, LenProperties
<1>2. ASSUME NEW i \in 1..Len(Tail(events))
      PROVE  AddedBy(Tail(events)[i]) \subseteq Accounted(live, Tail(events), i)
  <2>1. i + 1 \in 1..Len(events) /\ (i + 1) - 1 = i
    BY <1>1
  <2>2. AddedBy(events[i + 1]) \subseteq Accounted(live, events, i + 1)
    BY <2>1 DEF AddsAccounted
  <2>3. Accounted(live, events, i + 1) \subseteq Accounted(live, Tail(events), i)
    BY <2>1, AccountedInTail
  <2> QED
    BY <1>1, <2>2, <2>3
<1> QED
  BY <1>2 DEF AddsAccounted

\* Handling the first event leaves the endpoints accounted for: it adds one
\* that the other events account for, and takes away what it removes.
LEMMA HandlingKeepsEndpointsAccounted ==
  ASSUME NEW live, NEW events \in Seq(Events), events # <<>>, AddsAccounted(live, events),
         NEW table \in Tables, EndpointsAccounted(live, table, events)
  PROVE  EndpointsAccounted(live, handleEvent(table, Head(events)).entries, Tail(events))
<1> DEFINE event == Head(events)
           new   == handleEvent(table, event).entries
<1>1. event \in Events /\ event = events[1] /\ 1 \in 1..Len(events)
  BY HeadTailProperties, LenProperties, EmptySeq
<1>2. AddedBy(event) \subseteq Accounted(live, Tail(events), 0)
  <2>1. AddedBy(event) \subseteq Accounted(live, events, 1)
    BY <1>1 DEF AddsAccounted
  <2>2. Accounted(live, events, 1) \subseteq Accounted(live, Tail(events), 1 - 1)
    BY <1>1, AccountedInTail
  <2> QED
    BY <2>1, <2>2
<1> HIDE DEF event
<1>3. ASSUME NEW k \in RoutingKeys, NEW ek \in PresentEndpoints(Lookup(new, k))
      PROVE  \E g \in Accounted(live, Tail(events), 0) : IsEndpointOf(new, k, ek, g)
  <2>1. CASE \E g \in AddedBy(event) : IsEndpointOf(new, k, ek, g)
    BY <1>2, <2>1
  <2>2. CASE /\ ek \in PresentEndpoints(Lookup(table, k))
             /\ Lookup(new, k).endpoints[ek] = Lookup(table, k).endpoints[ek]
             /\ \A g \in RemovedBy(event) : ~IsEndpointOf(table, k, ek, g)
    <3>1. PICK g \in Accounted(live, events, 0) : IsEndpointOf(table, k, ek, g)
      BY <2>2 DEF EndpointsAccounted
    <3>2. g \in Accounted(live, Tail(events), 0)
      BY <2>2, <3>1, AccountedInTail DEF event
    <3>3. IsEndpointOf(new, k, ek, g)
      BY <2>2, <3>1 DEF IsEndpointOf
    <3> QED
      BY <3>2, <3>3
  <2> QED
    BY <1>1, <2>1, <2>2, HandleEventEndpoints
<1> QED
  BY <1>3 DEF EndpointsAccounted, event

\* A change of the BBS whose event removes what is no longer live, and adds
\* only what is, keeps everything accounted for.
LEMMA AccountedAfterChange ==
  ASSUME NEW live, NEW nowLive, NEW events \in Seq(Events), NEW event \in Events,
         live \subseteq nowLive \cup RemovedBy(event),
         AddedBy(event) \subseteq nowLive
  PROVE  LET more == Append(events, event) IN
         /\ Accounted(live, events, 0) \subseteq Accounted(nowLive, more, 0)
         /\ AddsAccounted(live, events) => AddsAccounted(nowLive, more)
<1> DEFINE more == Append(events, event)
           m    == Len(events) + 1
<1>1. /\ Len(events) \in Nat
      /\ Len(more) = m
      /\ \A i \in 1..Len(events) : more[i] = events[i]
      /\ more[m] = event
  BY AppendProperties, LenProperties
<1> HIDE DEF more
<1>2. ASSUME NEW n \in 0..Len(events), NEW g \in Accounted(live, events, n)
      PROVE  g \in Accounted(nowLive, more, n)
  <2>1. CASE g \in nowLive
    BY <2>1 DEF Accounted
  <2>2. CASE g \in RemovedBy(event)
    <3>1. m \in 1..Len(more) /\ m > n /\ g \in RemovedBy(more[m])
      BY <1>1, <2>2
    <3> QED
      BY <3>1 DEF Accounted
  <2>3. CASE g \notin live
    <3>1. PICK j \in 1..Len(events) : j > n /\ g \in RemovedBy(events[j])
      BY <2>3 DEF Accounted
    <3>2. j \in 1..Len(more) /\ g \in RemovedBy(more[j])
      BY <1>1, <3>1
    <3> QED
      BY <3>1, <3>2 DEF Accounted
  <2> QED
    BY <2>1, <2>2, <2>3
<1>3. ASSUME AddsAccounted(live, events), NEW i \in 1..Len(more)
      PROVE  AddedBy(more[i]) \subseteq Accounted(nowLive, more, i)
  <2>1. CASE i = m
    BY <1>1, <2>1 DEF Accounted
  <2>2. CASE i # m
    <3>1. i \in 1..Len(events) /\ i \in 0..Len(events)
      BY <1>1, <2>2
    <3>2. AddedBy(events[i]) \subseteq Accounted(live, events, i)
      BY <1>3, <3>1 DEF AddsAccounted
    <3> QED
      BY <1>1, <1>2, <3>1, <3>2
  <2> QED
    BY <2>1, <2>2
<1>4. 0 \in 0..Len(events)
  BY <1>1
<1>5. Accounted(live, events, 0) \subseteq Accounted(nowLive, more, 0)
  BY <1>2, <1>4
<1>6. AddsAccounted(live, events) => AddsAccounted(nowLive, more)
  BY <1>3 DEF AddsAccounted
<1> QED
  BY <1>5, <1>6 DEF more

-----------------------------------------------------------------------------
(* Every change of the BBS is accounted for by its event *)

\* The live groups are the running sides of the groups.
LEMMA LiveInFacts ==
  ASSUME NEW groups \in [LRPKeys -> Groups], NEW g
  PROVE  g \in LiveIn(groups) <=>
           \E l \in LRPKeys :
             \/ /\ groups[l].instance \in ActualLRPs
                /\ groups[l].instance.state = "RUNNING"
                /\ g = Only(groups[l].instance)
             \/ /\ groups[l].evacuating \in ActualLRPs
                /\ groups[l].evacuating.state = "RUNNING"
                /\ g = OnlyEvacuating(groups[l].evacuating)
<1>1. ASSUME NEW lrp \in ActualLRPs
      PROVE  /\ Only(lrp) # NoGroup /\ (IsRunning(Only(lrp)) <=> lrp.state = "RUNNING")
             /\ OnlyEvacuating(lrp) # NoGroup
             /\ (IsRunning(OnlyEvacuating(lrp)) <=> lrp.state = "RUNNING")
  BY NilAssumption DEF Only, OnlyEvacuating, NoGroup, IsRunning, Resolve, ResolvesToEvacuating
<1>2. Only(Nil) = NoGroup /\ OnlyEvacuating(Nil) = NoGroup
  BY DEF Only, OnlyEvacuating, NoGroup
<1>3. \A l \in LRPKeys : /\ groups[l].instance \in ActualLRPs \cup {Nil}
                         /\ groups[l].evacuating \in ActualLRPs \cup {Nil}
  BY DEF Groups
<1>4. g \in LiveIn(groups) <=>
        /\ IsRunning(g) /\ g # NoGroup
        /\ \E l \in LRPKeys : \/ g = Only(groups[l].instance)
                              \/ g = OnlyEvacuating(groups[l].evacuating)
  BY DEF LiveIn
<1>5. ASSUME NEW l \in LRPKeys
      PROVE  (IsRunning(g) /\ g # NoGroup /\ g = Only(groups[l].instance)) <=>
               /\ groups[l].instance \in ActualLRPs
               /\ groups[l].instance.state = "RUNNING"
               /\ g = Only(groups[l].instance)
  <2>1. CASE groups[l].instance = Nil
    BY <1>2, <2>1, NilAssumption
  <2>2. CASE groups[l].instance \in ActualLRPs
    BY <1>1, <2>2
  <2> QED
    BY <1>3, <2>1, <2>2
<1>6. ASSUME NEW l \in LRPKeys
      PROVE  (IsRunning(g) /\ g # NoGroup /\ g = OnlyEvacuating(groups[l].evacuating)) <=>
               /\ groups[l].evacuating \in ActualLRPs
               /\ groups[l].evacuating.state = "RUNNING"
               /\ g = OnlyEvacuating(groups[l].evacuating)
  <2>1. CASE groups[l].evacuating = Nil
    BY <1>2, <2>1, NilAssumption
  <2>2. CASE groups[l].evacuating \in ActualLRPs
    BY <1>1, <2>2
  <2> QED
    BY <1>3, <2>1, <2>2
<1> QED
  BY <1>4, <1>5, <1>6

\* A change of one group leaves all live but what it takes from that group.
LEMMA StillLive ==
  ASSUME NEW before \in [LRPKeys -> Groups], NEW after \in [LRPKeys -> Groups],
         NEW l \in LRPKeys, \A m \in LRPKeys \ {l} : after[m] = before[m],
         NEW gone,
         before[l].instance \in ActualLRPs /\ before[l].instance.state = "RUNNING" =>
           after[l].instance = before[l].instance \/ Only(before[l].instance) \in gone,
         before[l].evacuating \in ActualLRPs /\ before[l].evacuating.state = "RUNNING" =>
           after[l].evacuating = before[l].evacuating \/ OnlyEvacuating(before[l].evacuating) \in gone
  PROVE  LiveIn(before) \subseteq LiveIn(after) \cup gone
<1> SUFFICES ASSUME NEW g \in LiveIn(before), g \notin gone
             PROVE  g \in LiveIn(after)
  OBVIOUS
<1>1. PICK m \in LRPKeys :
             \/ /\ before[m].instance \in ActualLRPs
                /\ before[m].instance.state = "RUNNING"
                /\ g = Only(before[m].instance)
             \/ /\ before[m].evacuating \in ActualLRPs
                /\ before[m].evacuating.state = "RUNNING"
                /\ g = OnlyEvacuating(before[m].evacuating)
  BY LiveInFacts
<1>2. \/ /\ after[m].instance \in ActualLRPs
         /\ after[m].instance.state = "RUNNING"
         /\ g = Only(after[m].instance)
      \/ /\ after[m].evacuating \in ActualLRPs
         /\ after[m].evacuating.state = "RUNNING"
         /\ g = OnlyEvacuating(after[m].evacuating)
  <2>1. CASE m = l
    BY <1>1, <2>1
  <2>2. CASE m # l
    BY <1>1, <2>2
  <2> QED
    BY <2>1, <2>2
<1> QED
  BY <1>2, LiveInFacts

\* A running group of one side that is added or removed by its event.
LEMMA EventsOfOneSide ==
  ASSUME NEW x \in ActualLRPs, NEW y \in ActualLRPs,
         NEW g \in {Only(x), OnlyEvacuating(x)}
  PROVE  LET created == [type |-> "ActualLRPCreatedEvent", group |-> g]
             removed == [type |-> "ActualLRPRemovedEvent", group |-> g]
             changed == [type |-> "ActualLRPChangedEvent", before |-> Only(x), after |-> Only(y)]
         IN  /\ AddedBy(created) = IF x.state = "RUNNING" THEN {g} ELSE {}
             /\ AddedBy(removed) = {}
             /\ RemovedBy(removed) = IF x.state = "RUNNING" THEN {g} ELSE {}
             /\ AddedBy(changed) = IF y.state = "RUNNING" THEN {Only(y)} ELSE {}
             /\ RemovedBy(changed) = IF x.state = "RUNNING" /\ y.state # "RUNNING"
                                       THEN {Only(x)} ELSE {}
<1>1. /\ IsRunning(g) <=> x.state = "RUNNING"
      /\ IsRunning(Only(x)) <=> x.state = "RUNNING"
      /\ IsRunning(Only(y)) <=> y.state = "RUNNING"
  BY NilAssumption DEF Only, OnlyEvacuating, IsRunning, Resolve, ResolvesToEvacuating
<1> QED
  BY <1>1 DEF AddedBy, RemovedBy

\* SetInstance is accounted for unless a running record replaces another.
LEMMA SetInstanceAccounts ==
  ASSUME BBSTypes, NEW l \in LRPKeys, NEW lrp \in ActualLRPs, SetInstance(l, lrp),
         StateOf(actual[l].instance) # "RUNNING" \/ lrp.state # "RUNNING"
  PROVE  \E event \in Events :
           /\ stream' = Append(stream, event)
           /\ LiveGroups \subseteq LiveGroups' \cup RemovedBy(event)
           /\ AddedBy(event) \subseteq LiveGroups'
<1> DEFINE old   == actual[l].instance
           event == IF old = Nil
                      THEN [type |-> "ActualLRPCreatedEvent", group |-> Only(lrp)]
                      ELSE [type |-> "ActualLRPChangedEvent",
                            before |-> Only(old), after |-> Only(lrp)]
<1>1. stream' = Append(stream, event) /\ actual' = [actual EXCEPT ![l].instance = lrp]
  BY DEF SetInstance, Change
<1>2. actual \in [LRPKeys -> Groups] /\ actual' \in [LRPKeys -> Groups]
  BY SetInstanceType DEF BBSTypes
<1>3. old \in ActualLRPs \cup {Nil}
  BY <1>2 DEF Groups
<1>4. event \in Events
  BY <1>3 DEF Events, ActualEvents, OneSided
<1>5. AddedBy(event) = IF lrp.state = "RUNNING" THEN {Only(lrp)} ELSE {}
  BY <1>3, EventsOfOneSide
<1>6. old # Nil /\ old.state = "RUNNING" => RemovedBy(event) = {Only(old)}
  BY <1>3, EventsOfOneSide DEF StateOf
<1> HIDE DEF event
<1>7. /\ actual'[l].instance = lrp
      /\ \A m \in LRPKeys : /\ actual'[m].evacuating = actual[m].evacuating
                            /\ m # l => actual'[m] = actual[m]
  BY <1>1, <1>2 DEF Groups
<1>8. AddedBy(event) \subseteq LiveGroups'
  BY <1>2, <1>5, <1>7, LiveInFacts DEF LiveGroups
<1>9. LiveGroups \subseteq LiveGroups' \cup RemovedBy(event)
  <2>1. \A m \in LRPKeys \ {l} : actual'[m] = actual[m]
    BY <1>7
  <2>2. old \in ActualLRPs /\ old.state = "RUNNING" => Only(old) \in RemovedBy(event)
    BY <1>6, NilAssumption
  <2> QED
    BY <1>2, <1>7, <2>1, <2>2, StillLive DEF LiveGroups
<1> QED
  BY <1>1, <1>4, <1>8, <1>9

\* Whatever changes in the BBS, its event removes what is live no more and adds
\* only what is live.
LEMMA ChangeAccounts ==
  ASSUME BBSTypes, BBSNext
  PROVE  \E event \in Events :
           /\ stream' = Append(stream, event)
           /\ LiveGroups \subseteq LiveGroups' \cup RemovedBy(event)
           /\ AddedBy(event) \subseteq LiveGroups'
<1> DEFINE Goal == \E event \in Events :
                     /\ stream' = Append(stream, event)
                     /\ LiveGroups \subseteq LiveGroups' \cup RemovedBy(event)
                     /\ AddedBy(event) \subseteq LiveGroups'
<1> HIDE DEF Goal
<1>1. BBSTypes'
  BY BBSTypesStep
<1>2. actual \in [LRPKeys -> Groups] /\ actual' \in [LRPKeys -> Groups]
  BY <1>1 DEF BBSTypes
<1>3. ASSUME NEW event \in DesiredEvents, Change(event), actual' = actual PROVE Goal
  <2>1. AddedBy(event) = {} /\ RemovedBy(event) = {}
    BY HandleDesiredEvent
  <2>2. LiveGroups' = LiveGroups
    BY <1>3 DEF LiveGroups
  <2> QED
    BY <1>3, <2>1, <2>2 DEF Goal, Events, Change
<1>4. ASSUME NEW p \in ProcessGuids, NEW rs \in RouteSets, DesireLRP(p, rs) PROVE Goal
  <2>1. PICK lrp \in DesiredLRPs :
          /\ Change([type |-> "DesiredLRPCreatedEvent", desiredLRP |-> lrp])
          /\ actual' = actual
    BY <1>4, DesiredCreation
  <2>2. [type |-> "DesiredLRPCreatedEvent", desiredLRP |-> lrp] \in DesiredEvents
    BY DEF DesiredEvents
  <2> QED
    BY <1>3, <2>1, <2>2
<1>5. ASSUME NEW p \in ProcessGuids, NEW rs \in RouteSets, UpdateDesiredLRP(p, rs) PROVE Goal
  <2>1. PICK lrp \in DesiredLRPs :
          /\ desired[p] \in DesiredLRPs
          /\ Change([type |-> "DesiredLRPChangedEvent", before |-> desired[p], after |-> lrp])
          /\ actual' = actual
    BY <1>5, DesiredUpdate
  <2>2. [type |-> "DesiredLRPChangedEvent", before |-> desired[p], after |-> lrp]
          \in DesiredEvents
    BY <2>1 DEF DesiredEvents
  <2> QED
    BY <1>3, <2>1, <2>2
<1>6. ASSUME NEW p \in ProcessGuids, RemoveDesiredLRP(p) PROVE Goal
  <2>1. PICK lrp \in DesiredLRPs :
          /\ Change([type |-> "DesiredLRPRemovedEvent", desiredLRP |-> lrp])
          /\ actual' = actual
    BY <1>6, DesiredRemoval
  <2>2. [type |-> "DesiredLRPRemovedEvent", desiredLRP |-> lrp] \in DesiredEvents
    BY DEF DesiredEvents
  <2> QED
    BY <1>3, <2>1, <2>2
<1>7. ASSUME NEW l \in LRPKeys,
             ClaimLRP(l) \/ StartLRP(l) \/ CrashLRP(l) \/ UnclaimEvacuatedLRP(l)
      PROVE  Goal
  BY <1>7, NewInstance, SetInstanceAccounts DEF Goal
<1>8. ASSUME NEW l \in LRPKeys, RemoveLRP(l) PROVE Goal
  <2> DEFINE old   == actual[l].instance
             event == [type |-> "ActualLRPRemovedEvent", group |-> Only(old)]
  <2>1. /\ actual' = [actual EXCEPT ![l].instance = Nil]
        /\ stream' = Append(stream, event)
        /\ old \in ActualLRPs
    BY <1>2, <1>8 DEF RemoveLRP, Change, Groups
  <2>2. event \in Events
    BY <2>1 DEF Events, ActualEvents, OneSided
  <2>3. AddedBy(event) = {} /\ (old.state = "RUNNING" => RemovedBy(event) = {Only(old)})
    BY <2>1, EventsOfOneSide
  <2> HIDE DEF event
  <2>4. /\ \A m \in LRPKeys \ {l} : actual'[m] = actual[m]
        /\ actual'[l].evacuating = actual[l].evacuating
    BY <1>2, <2>1 DEF Groups
  <2>5. LiveGroups \subseteq LiveGroups' \cup RemovedBy(event)
    BY <1>2, <2>3, <2>4, StillLive DEF LiveGroups
  <2> QED
    BY <2>1, <2>2, <2>3, <2>5 DEF Goal
<1>9. ASSUME NEW l \in LRPKeys, EvacuateLRP(l) PROVE Goal
  <2> DEFINE old   == actual[l].instance
             event == [type |-> "ActualLRPCreatedEvent", group |-> OnlyEvacuating(old)]
  <2>1. /\ actual' = [actual EXCEPT ![l].evacuating = old]
        /\ actual[l].evacuating = Nil
        /\ stream' = Append(stream, event)
        /\ old \in ActualLRPs /\ old.state = "RUNNING"
    BY <1>2, <1>9, NilAssumption DEF EvacuateLRP, StateOf, Change, Groups, ActualLRPStates
  <2>2. event \in Events
    BY <2>1 DEF Events, ActualEvents, OneSided
  <2>3. AddedBy(event) = {OnlyEvacuating(old)}
    BY <2>1, EventsOfOneSide
  <2> HIDE DEF event
  <2>4. /\ \A m \in LRPKeys \ {l} : actual'[m] = actual[m]
        /\ actual'[l].instance = old /\ actual'[l].evacuating = old
    BY <1>2, <2>1 DEF Groups
  <2>5. LiveIn(actual) \subseteq LiveIn(actual') \cup {}
    <3>1. ~(actual[l].evacuating \in ActualLRPs)
      BY <2>1, NilAssumption
    <3> QED
      BY <1>2, <2>4, <3>1, StillLive
  <2>6. OnlyEvacuating(old) \in LiveIn(actual')
    BY <1>2, <2>1, <2>4, LiveInFacts
  <2> QED
    BY <2>1, <2>2, <2>3, <2>5, <2>6 DEF Goal, LiveGroups
<1>10. ASSUME NEW l \in LRPKeys, RemoveEvacuatingLRP(l) PROVE Goal
  <2> DEFINE old   == actual[l].evacuating
             event == [type |-> "ActualLRPRemovedEvent", group |-> OnlyEvacuating(old)]
  <2>1. /\ actual' = [actual EXCEPT ![l].evacuating = Nil]
        /\ stream' = Append(stream, event)
        /\ old \in ActualLRPs
    BY <1>2, <1>10 DEF RemoveEvacuatingLRP, Change, Groups
  <2>2. event \in Events
    BY <2>1 DEF Events, ActualEvents, OneSided
  <2>3. AddedBy(event) = {} /\ (old.state = "RUNNING" => RemovedBy(event) = {OnlyEvacuating(old)})
    BY <2>1, EventsOfOneSide
  <2> HIDE DEF event
  <2>4. /\ \A m \in LRPKeys \ {l} : actual'[m] = actual[m]
        /\ actual'[l].instance = actual[l].instance
    BY <1>2, <2>1 DEF Groups
  <2>5. LiveGroups \subseteq LiveGroups' \cup RemovedBy(event)
    BY <1>2, <2>3, <2>4, StillLive DEF LiveGroups
  <2> QED
    BY <2>1, <2>2, <2>3, <2>5 DEF Goal
<1>11. Goal
  BY <1>4, <1>5, <1>6, <1>7, <1>8, <1>9, <1>10 DEF BBSNext
<1> QED
  BY <1>11 DEF Goal

-----------------------------------------------------------------------------
(* GhostInv is inductive *)

\* Caching the next event of the stream leaves the pending events as they are,
\* applying the first cached one takes their head, and a new event of the BBS
\* is the last of them.
LEMMA PendingEvents ==
  ASSUME NEW c \in Seq(Events), NEW s \in Seq(Events)
  PROVE  /\ c \o s \in Seq(Events)
         /\ s # <<>> => Append(c, Head(s)) \o Tail(s) = c \o s
         /\ c # <<>> => /\ c \o s # <<>>
                        /\ Head(c \o s) = Head(c)
                        /\ Tail(c \o s) = Tail(c) \o s
         /\ \A event \in Events : c \o Append(s, event) = Append(c \o s, event)
<1>1. c \o s \in Seq(Events)
  BY ConcatProperties
<1>2. ASSUME NEW t \in Seq(Events), t # <<>>
      PROVE  Head(t) = t[1] /\ Head(t) \in Events /\ Tail(t) \in Seq(Events)
             /\ t = <<Head(t)>> \o Tail(t)
  <2>1. /\ Head(t) = t[1] /\ Head(t) \in Events /\ Tail(t) \in Seq(Events)
        /\ Len(Tail(t)) = Len(t) - 1 /\ Len(t) \in Nat \ {0}
        /\ \A i \in 1 .. Len(Tail(t)) : Tail(t)[i] = t[i + 1]
    BY <1>2, HeadTailProperties, EmptySeq
  <2>2. <<Head(t)>> \in Seq(Events) /\ Len(<<Head(t)>>) = 1 /\ <<Head(t)>>[1] = Head(t)
    BY <2>1
  <2>3. /\ <<Head(t)>> \o Tail(t) \in Seq(Events)
        /\ Len(<<Head(t)>> \o Tail(t)) = Len(t)
        /\ \A i \in 1 .. Len(t) : (<<Head(t)>> \o Tail(t))[i] =
             IF i <= 1 THEN <<Head(t)>>[i] ELSE Tail(t)[i - 1]
    BY <2>1, <2>2, ConcatProperties
  <2>4. ASSUME NEW i \in 1 .. Len(t) PROVE (<<Head(t)>> \o Tail(t))[i] = t[i]
    <3>1. CASE i = 1
      BY <2>1, <2>2, <2>3, <3>1
    <3>2. CASE i # 1
      <4>1. i - 1 \in 1 .. Len(Tail(t)) /\ (i - 1) + 1 = i /\ ~(i <= 1)
        BY <2>1, <3>2
      <4> QED
        BY <2>1, <2>3, <4>1
    <3> QED
      BY <3>1, <3>2
  <2> QED
    BY <2>1, <2>3, <2>4, SeqEqual
<1>3. ASSUME s # <<>> PROVE Append(c, Head(s)) \o Tail(s) = c \o s
  <2>1. Append(c, Head(s)) = c \o <<Head(s)>>
    BY <1>2, <1>3, AppendIsConcat
  <2>2. <<Head(s)>> \in Seq(Events)
    BY <1>2, <1>3
  <2> QED
    BY <1>2, <1>3, <2>1, <2>2, ConcatAssociative
<1>4. ASSUME c # <<>>
      PROVE  /\ c \o s # <<>>
             /\ Head(c \o s) = Head(c)
             /\ Tail(c \o s) = Tail(c) \o s
  <2>1. c \o s # <<>>
    BY <1>4, ConcatEqualIffEmpty
  <2>2. Len(c) \in Nat \ {0} /\ Len(s) \in Nat
    BY <1>4, EmptySeq, LenProperties
  <2>3. (c \o s)[1] = c[1]
    BY <2>2, ConcatProperties
  <2>4. Head(c \o s) = Head(c)
    BY <1>1, <1>2, <1>4, <2>1, <2>3
  <2>5. <<Head(c)>> \in Seq(Events)
    BY <1>2, <1>4
  <2>6. <<Head(c)>> \o Tail(c \o s) = <<Head(c)>> \o (Tail(c) \o s)
    <3>1. c \o s = <<Head(c)>> \o Tail(c \o s)
      BY <1>1, <1>2, <2>1, <2>4
    <3>2. c \o s = <<Head(c)>> \o (Tail(c) \o s)
      BY <1>2, <1>4, <2>5, ConcatAssociative
    <3> QED
      BY <3>1, <3>2
  <2>7. Tail(c \o s) \in Seq(Events) /\ Tail(c) \o s \in Seq(Events)
    BY <1>1, <1>2, <1>4, <2>1, ConcatProperties
  <2>8. Tail(c \o s) = Tail(c) \o s
    BY <2>5, <2>6, <2>7, ConcatSimplifications
  <2> QED
    BY <2>1, <2>4, <2>8
<1>5. ASSUME NEW event \in Events
      PROVE  c \o Append(s, event) = Append(c \o s, event)
  <2>1. <<event>> \in Seq(Events)
    OBVIOUS
  <2>2. Append(s, event) = s \o <<event>> /\ Append(c \o s, event) = (c \o s) \o <<event>>
    BY <1>1, AppendIsConcat
  <2> QED
    BY <2>1, <2>2, ConcatAssociative
<1> QED
  BY <1>1, <1>3, <1>4, <1>5

\* No events remove nothing and add nothing.
LEMMA NoEvents ==
  ASSUME NEW live
  PROVE  AddsAccounted(live, <<>>) /\ Accounted(live, <<>>, 0) = live
<1>1. 1..Len(<<>>) = {}
  BY EmptySeq
<1> QED
  BY <1>1 DEF AddsAccounted, Accounted

\* A group that a fetch returns is live on the side it resolves to.
LEMMA FetchedGroupsAreLive ==
  ASSUME BBSTypes, NEW g \in ActualLRPGroupList, IsRunning(g)
  PROVE  ResolvedSide(g) \in LiveGroups
<1>1. PICK l \in LRPKeys : g = actual[l] /\ g # NoGroup
  BY DEF ActualLRPGroupList
<1>2. actual \in [LRPKeys -> Groups] /\ g \in Groups
  BY <1>1 DEF BBSTypes
<1>3. CASE ResolvesToEvacuating(g)
  <2>1. g.evacuating \in ActualLRPs
    BY <1>1, <1>2, <1>3, NilAssumption DEF Groups, NoGroup, ResolvesToEvacuating
  <2>2. g.evacuating.state = "RUNNING"
    BY <1>3 DEF IsRunning, Resolve
  <2> QED
    BY <1>1, <1>2, <1>3, <2>1, <2>2, LiveInFacts DEF LiveGroups, ResolvedSide
<1>4. CASE ~ResolvesToEvacuating(g)
  <2>1. g.instance \in ActualLRPs
    BY <1>2, <1>4 DEF Groups, ResolvesToEvacuating
  <2>2. g.instance.state = "RUNNING"
    BY <1>4 DEF IsRunning, Resolve
  <2> QED
    BY <1>1, <1>2, <1>4, <2>1, <2>2, LiveInFacts DEF LiveGroups, ResolvedSide
<1> QED
  BY <1>3, <1>4

\* The table that Sync builds has the endpoints of the groups it has read.
LEMMA BuiltEndpointsAccounted ==
  ASSUME NEW lrps \in SUBSET DesiredLRPs, NEW groups \in SUBSET ActualLRPGroups,
         NEW live, NEW events, GroupsAccounted(live, groups, events)
  PROVE  EndpointsAccounted(live, TableOf(lrps, groups), events)
<1> DEFINE T == TableOf(lrps, groups)
<1>1. ASSUME NEW k \in RoutingKeys, NEW ek \in PresentEndpoints(Lookup(T, k))
      PROVE  \E g \in Accounted(live, events, 0) : IsEndpointOf(T, k, ek, g)
  <2>1. PICK g \in groups :
          /\ k \in NewRoutingKeysFromActual(g)
          /\ EndpointKeyOf(g) = ek
          /\ Lookup(T, k).endpoints[ek] = NewEndpointFromActual(g, k.containerPort)
    BY TableOfAt
  <2> HIDE DEF T
  <2>2. /\ Resolve(ResolvedSide(g)) = Resolve(g)
        /\ ResolvesToEvacuating(ResolvedSide(g)) = ResolvesToEvacuating(g)
    BY DEF ResolvedSide, Resolve, ResolvesToEvacuating, Only, OnlyEvacuating
  <2>3. IsEndpointOf(T, k, ek, ResolvedSide(g))
    BY <2>1, <2>2 DEF IsEndpointOf, NewRoutingKeysFromActual, EndpointKeyOf, NewEndpointFromActual
  <2>4. ResolvedSide(g) \in Accounted(live, events, 0)
    BY DEF GroupsAccounted
  <2> QED
    BY <2>3, <2>4
<1> QED
  BY <1>1 DEF EndpointsAccounted

\* handler.HandleEvent keeps the invariant.
LEMMA HandleEventGhost ==
  ASSUME Types, GhostInv, HandleEvent
  PROVE  GhostInv'
<1>1. /\ stream \in Seq(Events) /\ stream # <<>> /\ stream' = Tail(stream)
      /\ cachedEvents \in Seq(Events)
      /\ actual' = actual /\ pc' = pc /\ tracking' = tracking /\ gotActual' = gotActual
      /\ tempTable' = tempTable
      /\ pc \in {"idle", "fetching"} /\ syncing = (pc # "idle")
      /\ entries \in Tables
  BY DEF HandleEvent, Types, TypeOK, BBSTypes
<1>2. LiveGroups' = LiveGroups
  BY <1>1 DEF LiveGroups
<1>3. AddsAccounted(LiveGroups, stream')
  BY <1>1, AddsAccountedInTail DEF GhostInv
<1>4. CASE syncing
  <2>1. cachedEvents' = Append(cachedEvents, Head(stream)) /\ entries' = entries
    BY <1>4 DEF HandleEvent, Cache
  <2>2. Pending' = Pending
    BY <1>1, <2>1, PendingEvents DEF Pending
  <2> QED
    BY <1>1, <1>2, <1>3, <2>1, <2>2 DEF GhostInv
<1>5. CASE ~syncing
  <2>1. pc = "idle" /\ cachedEvents = <<>> /\ cachedEvents' = <<>>
    BY <1>1, <1>5 DEF HandleEvent, Types
  <2>2. entries' = handleEvent(entries, Head(stream)).entries
    BY <1>5 DEF HandleEvent, HandleNow
  <2>3. Tail(stream) \in Seq(Events)
    BY <1>1, HeadTailProperties
  <2>4. Pending = stream /\ Pending' = Tail(stream)
    BY <1>1, <2>1, <2>3, ConcatEmptySeq DEF Pending
  <2>5. tracking = "tracking" => EndpointsAccounted(LiveGroups, entries', Tail(stream))
    BY <1>1, <2>1, <2>2, <2>4, HandlingKeepsEndpointsAccounted DEF GhostInv
  <2> QED
    BY <1>1, <1>2, <1>3, <2>1, <2>4, <2>5 DEF GhostInv
<1> QED
  BY <1>4, <1>5

\* One turn of applyCachedEvents keeps the invariant.
LEMMA ApplyCachedEventGhost ==
  ASSUME Types, GhostInv, ApplyCachedEvent
  PROVE  GhostInv'
<1>1. /\ stream \in Seq(Events) /\ stream' = stream
      /\ cachedEvents \in Seq(Events) /\ cachedEvents # <<>>
      /\ cachedEvents' = Tail(cachedEvents)
      /\ actual' = actual /\ pc' = pc /\ tracking' = tracking
      /\ entries \in Tables
      /\ pc \in {"applyToCurrent", "applyToTemp"}
      /\ pc = "applyToTemp" => tempTable \in Tables
  BY DEF ApplyCachedEvent, Types, TypeOK, BBSTypes, bbsVars
<1>2. LiveGroups' = LiveGroups
  BY <1>1 DEF LiveGroups
<1>3. /\ Pending \in Seq(Events) /\ Pending # <<>>
      /\ Head(Pending) = Head(cachedEvents)
      /\ Pending' = Tail(Pending)
  BY <1>1, PendingEvents DEF Pending
<1>4. tracking # "lost" => AddsAccounted(LiveGroups, Pending')
  BY <1>3, AddsAccountedInTail DEF GhostInv
<1>5. CASE pc = "applyToCurrent"
  <2>1. entries' = handleEvent(entries, Head(Pending)).entries
    BY <1>3, <1>5 DEF ApplyCachedEvent, HandleNow
  <2>2. tracking = "tracking" => EndpointsAccounted(LiveGroups, entries', Pending')
    BY <1>1, <1>3, <1>5, <2>1, HandlingKeepsEndpointsAccounted DEF GhostInv
  <2> QED
    BY <1>1, <1>2, <1>4, <1>5, <2>2 DEF GhostInv
<1>6. CASE pc = "applyToTemp"
  <2>1. tempTable' = handleEvent(tempTable, Head(Pending)).entries
    BY <1>3, <1>6 DEF ApplyCachedEvent
  <2>2. tracking # "lost" => EndpointsAccounted(LiveGroups, tempTable', Pending')
    BY <1>1, <1>3, <1>6, <2>1, HandlingKeepsEndpointsAccounted DEF GhostInv
  <2> QED
    BY <1>1, <1>2, <1>4, <1>6, <2>2 DEF GhostInv
<1> QED
  BY <1>1, <1>5, <1>6

\* A change of the BBS keeps the invariant.
LEMMA BBSStepGhost ==
  ASSUME Types, GhostInv, BBSStep
  PROVE  GhostInv'
<1>1. /\ stream \in Seq(Events) /\ cachedEvents \in Seq(Events)
      /\ entries' = entries /\ cachedEvents' = cachedEvents /\ pc' = pc
      /\ gotActual' = gotActual /\ tempTable' = tempTable /\ tracking' = tracking
  BY DEF BBSStep, Types, BBSTypes, handlerVars
<1>2. PICK event \in Events :
        /\ stream' = Append(stream, event)
        /\ LiveGroups \subseteq LiveGroups' \cup RemovedBy(event)
        /\ AddedBy(event) \subseteq LiveGroups'
  BY ChangeAccounts DEF BBSStep, Types
<1>3. Pending \in Seq(Events) /\ Pending' = Append(Pending, event)
  BY <1>1, <1>2, PendingEvents DEF Pending
<1>4. AddsAccounted(LiveGroups, stream) => AddsAccounted(LiveGroups', stream')
  BY <1>1, <1>2, AccountedAfterChange
<1>5. /\ AddsAccounted(LiveGroups, Pending) => AddsAccounted(LiveGroups', Pending')
      /\ Accounted(LiveGroups, Pending, 0) \subseteq Accounted(LiveGroups', Pending', 0)
  BY <1>2, <1>3, AccountedAfterChange
<1>6. ASSUME NEW table, EndpointsAccounted(LiveGroups, table, Pending)
      PROVE  EndpointsAccounted(LiveGroups', table, Pending')
  BY <1>5, <1>6 DEF EndpointsAccounted
<1>7. ASSUME NEW groups, GroupsAccounted(LiveGroups, groups, Pending)
      PROVE  GroupsAccounted(LiveGroups', groups, Pending')
  BY <1>5, <1>7 DEF GroupsAccounted
<1> QED
  BY <1>1, <1>4, <1>5, <1>6, <1>7 DEF GhostInv

\* Every step keeps the invariant.
LEMMA GhostStep ==
  ASSUME Types, GhostInv, [Next]_vars
  PROVE  GhostInv'
<1>1. ASSUME actual' = actual, stream' = stream, cachedEvents' = cachedEvents
      PROVE  LiveGroups' = LiveGroups /\ Pending' = Pending
  BY <1>1 DEF LiveGroups, Pending
<1>2. CASE HandleEvent
  BY <1>2, HandleEventGhost
<1>3. CASE BeginSync
  <2>1. /\ actual' = actual /\ stream' = stream /\ cachedEvents' = cachedEvents
        /\ entries' = entries /\ pc = "idle" /\ pc' = "fetching" /\ gotActual' = Nil
        /\ tracking' = "tracking" => tracking = "tracking"
        /\ cachedEvents = <<>> /\ stream \in Seq(Events)
    BY <1>3 DEF BeginSync, Types, TypeOK, BBSTypes, bbsVars
  <2>2. Pending = stream
    BY <2>1, ConcatEmptySeq DEF Pending
  <2> QED
    BY <1>1, <2>1, <2>2 DEF GhostInv
<1>4. CASE FetchActualLRPs
  <2>1. /\ actual' = actual /\ stream' = stream /\ cachedEvents' = cachedEvents
        /\ entries' = entries /\ pc' = pc /\ pc = "fetching" /\ tracking' = tracking
        /\ tempTable' = tempTable
    BY <1>4 DEF FetchActualLRPs, bbsVars
  <2>2. gotActual' \notin {Nil, Failed} => gotActual' = {g \in ActualLRPGroupList : IsRunning(g)}
    BY <1>4 DEF FetchActualLRPs
  <2>3. LiveGroups \subseteq Accounted(LiveGroups, Pending, 0)
    BY DEF Accounted
  <2>4. gotActual' \notin {Nil, Failed} => GroupsAccounted(LiveGroups, gotActual', Pending)
    BY <2>2, <2>3, FetchedGroupsAreLive DEF GroupsAccounted, Types
  <2> QED
    BY <1>1, <2>1, <2>4 DEF GhostInv
<1>5. CASE FetchDesiredLRPs
  <2>1. /\ actual' = actual /\ stream' = stream /\ cachedEvents' = cachedEvents
        /\ entries' = entries /\ pc' = pc /\ tracking' = tracking /\ gotActual' = gotActual
        /\ tempTable' = tempTable
    BY <1>5 DEF FetchDesiredLRPs, bbsVars
  <2> QED
    BY <1>1, <2>1 DEF GhostInv
<1>6. CASE BuildTable
  <2>1. /\ actual' = actual /\ stream' = stream /\ cachedEvents' = cachedEvents
        /\ entries' = entries /\ tracking' = tracking /\ gotActual' = gotActual
        /\ pc = "fetching" /\ pc' \in {"applyToCurrent", "applyToTemp"}
        /\ gotActual # Nil /\ gotDesired # Nil
    BY <1>6 DEF BuildTable, bbsVars
  <2>2. ASSUME pc' = "applyToTemp", tracking # "lost"
        PROVE  EndpointsAccounted(LiveGroups, tempTable', Pending)
    <3>1. gotActual # Failed /\ gotDesired # Failed /\ tempTable' = TableOf(gotDesired, gotActual)
      BY <1>6, <2>2 DEF BuildTable
    <3>2. gotActual \in SUBSET ActualLRPGroups /\ gotDesired \in SUBSET DesiredLRPs
      BY <2>1, <3>1 DEF Types, TypeOK
    <3>3. GroupsAccounted(LiveGroups, gotActual, Pending)
      BY <2>1, <2>2, <3>1 DEF GhostInv
    <3> QED
      BY <3>1, <3>2, <3>3, BuiltEndpointsAccounted
  <2> QED
    BY <1>1, <2>1, <2>2 DEF GhostInv
<1>7. CASE ApplyCachedEvent
  BY <1>7, ApplyCachedEventGhost
<1>8. CASE EndSync
  <2>1. /\ actual' = actual /\ stream' = stream /\ cachedEvents' = cachedEvents /\ pc' = "idle"
    BY <1>8 DEF EndSync, SyncCompleted, bbsVars
  <2>2. CASE pc = "applyToCurrent"
    <3>1. entries' = entries /\ (tracking' = "tracking" => tracking = "tracking")
          /\ (tracking' # "lost" => tracking # "lost")
      BY <1>8, <2>2 DEF EndSync
    <3> QED
      BY <1>1, <2>1, <2>2, <3>1 DEF GhostInv
  <2>3. CASE pc = "applyToTemp"
    <3>1. entries' = tempTable /\ (tracking' # "lost" => tracking # "lost")
      BY <1>8, <2>3 DEF EndSync, SwapAndEmit, Swap
    <3> QED
      BY <1>1, <2>1, <2>3, <3>1 DEF GhostInv
  <2> QED
    BY <1>8, <2>2, <2>3 DEF EndSync
<1>9. CASE LoseEvents \/ FailOver
  <2>1. stream' = <<>> /\ tracking' = "lost"
    BY <1>9 DEF LoseEvents, FailOver
  <2> QED
    BY <2>1, NoEvents DEF GhostInv
<1>10. CASE Stabilize \/ (\E m \in routes \ upserted : Expire(m)) \/ UNCHANGED vars
  <2>1. /\ actual' = actual /\ stream' = stream /\ cachedEvents' = cachedEvents
        /\ entries' = entries /\ pc' = pc /\ tracking' = tracking /\ gotActual' = gotActual
        /\ tempTable' = tempTable
    BY <1>10 DEF Stabilize, Expire, vars, bbsVars, handlerVars
  <2> QED
    BY <1>1, <2>1 DEF GhostInv
<1>11. CASE BBSStep
  BY <1>11, BBSStepGhost
<1> QED
  BY <1>2, <1>3, <1>4, <1>5, <1>6, <1>7, <1>8, <1>9, <1>10, <1>11
     DEF Next, SyncStep, Environment

\* Every emitter starts without events.
LEMMA GhostInit == Init => GhostInv
BY NoEvents DEF Init, BBSInit, GhostInv

\* With nothing pending, an endpoint is that of a container the BBS reports.
LEMMA GhostInvImplies ==
  ASSUME Types, GhostInv
  PROVE  NoGhostEndpoints
<1> SUFFICES ASSUME CaughtUp, NEW k \in RoutingKeys, NEW ek \in PresentEndpoints(Lookup(entries, k))
             PROVE  \E g \in ActualLRPGroupList :
                      LET lrp == IF ek.evacuating THEN g.evacuating ELSE g.instance IN
                      /\ lrp # Nil
                      /\ lrp.state = "RUNNING"
                      /\ lrp.instanceGuid = ek.instanceGuid
                      /\ lrp.ports[k.containerPort] = entries[k].endpoints[ek].address
  BY DEF NoGhostEndpoints
<1>1. pc = "idle" /\ tracking = "tracking" /\ cachedEvents = <<>> /\ stream = <<>>
  BY DEF CaughtUp, Types
<1>2. Pending = <<>>
  BY <1>1, EmptySeq, ConcatEmptySeq DEF Pending
<1>3. PICK g \in LiveGroups : IsEndpointOf(entries, k, ek, g)
  BY <1>1, <1>2, NoEvents DEF GhostInv, EndpointsAccounted
<1>4. ek \in EndpointKeys /\ Lookup(entries, k).endpoints[ek] # Nil
  BY DEF PresentEndpoints
<1>5. Lookup(entries, k) = entries[k]
  BY <1>4, ZeroEntryFields DEF Lookup
<1>6. /\ EndpointKeyOf(g) = ek
      /\ entries[k].endpoints[ek].address = Resolve(g).ports[k.containerPort]
  BY <1>3, <1>5 DEF IsEndpointOf, NewEndpointFromActual
<1>7. actual \in [LRPKeys -> Groups]
  BY DEF Types, BBSTypes
<1>8. PICK l \in LRPKeys :
             \/ /\ actual[l].instance \in ActualLRPs
                /\ actual[l].instance.state = "RUNNING"
                /\ g = Only(actual[l].instance)
             \/ /\ actual[l].evacuating \in ActualLRPs
                /\ actual[l].evacuating.state = "RUNNING"
                /\ g = OnlyEvacuating(actual[l].evacuating)
  BY <1>7, LiveInFacts DEF LiveGroups
<1>9. ASSUME NEW lrp \in ActualLRPs
      PROVE  /\ Resolve(Only(lrp)) = lrp /\ ~ResolvesToEvacuating(Only(lrp))
             /\ Resolve(OnlyEvacuating(lrp)) = lrp /\ ResolvesToEvacuating(OnlyEvacuating(lrp))
  BY NilAssumption DEF Only, OnlyEvacuating, Resolve, ResolvesToEvacuating
<1>10. actual[l] \in ActualLRPGroupList
  BY <1>8, NilAssumption DEF ActualLRPGroupList, NoGroup
<1>11. ek.evacuating = ResolvesToEvacuating(g) /\ ek.instanceGuid = Resolve(g).instanceGuid
  BY <1>6 DEF EndpointKeyOf
<1>12. CASE /\ actual[l].instance \in ActualLRPs
            /\ actual[l].instance.state = "RUNNING"
            /\ g = Only(actual[l].instance)
  BY <1>6, <1>9, <1>10, <1>11, <1>12, NilAssumption
<1>13. CASE /\ actual[l].evacuating \in ActualLRPs
            /\ actual[l].evacuating.state = "RUNNING"
            /\ g = OnlyEvacuating(actual[l].evacuating)
  BY <1>6, <1>9, <1>10, <1>11, <1>13, NilAssumption
<1> QED
  BY <1>8, <1>12, <1>13

\* Once the handler has caught up, its table has no endpoint of a container
\* that the BBS does not report as running there: whatever was cached during a
\* sync, was older or newer than what the sync read, or came before a loss of
\* events or a failover, it leaves no dead backend behind.
THEOREM HandlerNoGhostEndpoints == Spec => []NoGhostEndpoints
<1>1. Spec => [](Types /\ GhostInv)
  BY TypesInit, TypesStep, GhostInit, GhostStep, PTL DEF Spec
<1> QED
  BY <1>1, GhostInvImplies, PTL

-----------------------------------------------------------------------------
(* DesiredRoutesArePresent: the invariant *)

\* The desired LRP whose routes an event makes the handler add, as a set.
WrittenBy(event) ==
  CASE event.type = "DesiredLRPCreatedEvent" -> {event.desiredLRP}
    [] event.type = "DesiredLRPChangedEvent" -> {event.after}
    [] OTHER -> {}

\* The processes whose routes an event is about.
ProcessesOf(event) ==
  CASE event.type \in {"DesiredLRPCreatedEvent", "DesiredLRPRemovedEvent"} ->
         {event.desiredLRP.processGuid}
    [] event.type = "DesiredLRPChangedEvent" ->
         {event.before.processGuid, event.after.processGuid}
    [] OTHER -> {}

Silent(p, events) == \A i \in 1..Len(events) : p \notin ProcessesOf(events[i])

\* A tag is older than that of its process' desired LRP d, or equal to it if
\* same holds of what carries it; epochs still to come are unknown.
Dated(d, epochs, tag, same) ==
  /\ tag.epoch \notin epochs
  /\ d # Nil /\ tag.epoch = d.modificationTag.epoch =>
       \/ tag.index < d.modificationTag.index
       \/ tag = d.modificationTag /\ same

\* The same for desired LRPs, events and tables, where lrps are the desired
\* LRPs and epochs the unused epochs of the processes.
DatedLRPs(lrps, epochs) ==
  {lrp \in DesiredLRPs :
     Dated(lrps[lrp.processGuid], epochs[lrp.processGuid],
           lrp.modificationTag, lrp = lrps[lrp.processGuid])}

DatedEvents(lrps, epochs) ==
  {event \in Events : WrittenBy(event) \subseteq DatedLRPs(lrps, epochs)}

\* An entry has the ports of desired LRP d at its key k.
HasPortsOf(entry, k, d) ==
  \A x \in NewExternalEndpoints(k, d) : ContainsExternalPort(entry.externalEndpoints, x.port)

DatedTables(lrps, epochs) ==
  {table \in Tables : \A k \in RoutingKeys :
     Lookup(table, k).modificationTag # Nil =>
       Dated(lrps[k.processGuid], epochs[k.processGuid], Lookup(table, k).modificationTag,
             HasPortsOf(Lookup(table, k), k, lrps[k.processGuid]))}

\* The last of the events about a process that is desired writes it as it is.
Followed(lrps, events) ==
  \A p \in ProcessGuids : lrps[p] # Nil /\ ~Silent(p, events) =>
    \E j \in 1..Len(events) :
      /\ lrps[p] \in WrittenBy(events[j])
      /\ \A i \in 1..Len(events) : i > j => p \notin ProcessesOf(events[i])

\* The processes that are desired and about which no event is on its way.
Settled(lrps, events) == {p \in ProcessGuids : lrps[p] # Nil /\ Silent(p, events)}

RoutesPresent(lrps, table, events) ==
  \A p \in Settled(lrps, events) : \A k \in NewRoutingKeysFromDesired(lrps[p]) :
    HasPortsOf(Lookup(table, k), k, lrps[p])

\* All that carries a tag is dated, whatever was lost.
DatedInv ==
  /\ \A p \in ProcessGuids :
       desired[p] # Nil => desired[p].modificationTag.epoch \notin fresh.epochs[p]
  /\ stream \in Seq(DatedEvents(desired, fresh.epochs))
  /\ cachedEvents \in Seq(DatedEvents(desired, fresh.epochs))
  /\ entries \in DatedTables(desired, fresh.epochs)
  /\ pc = "applyToTemp" => tempTable \in DatedTables(desired, fresh.epochs)
  /\ gotDesired \notin {Nil, Failed} =>
       /\ gotDesired \subseteq DatedLRPs(desired, fresh.epochs)
       /\ \A d1, d2 \in gotDesired : d1.processGuid = d2.processGuid => d1 = d2

\* As long as no events were lost since the sync began, or since the last one
\* that was of use, the tables have the routes that no event will bring.
RoutesInv ==
  /\ Followed(desired, stream)
  /\ tracking # "lost" => Followed(desired, Pending)
  /\ tracking = "tracking" /\ pc # "applyToTemp" => RoutesPresent(desired, entries, Pending)
  /\ tracking # "lost" /\ pc = "fetching" /\ gotDesired \notin {Nil, Failed} =>
       \A p \in Settled(desired, Pending) : desired[p] \in gotDesired
  /\ tracking # "lost" /\ pc = "applyToTemp" => RoutesPresent(desired, tempTable, Pending)

-----------------------------------------------------------------------------
(* What handleEvent does to the routes of a table *)

\* The types of what an event writes and is about.
LEMMA WrittenTypes ==
  ASSUME NEW event \in Events
  PROVE  /\ WrittenBy(event) \subseteq DesiredLRPs
         /\ \A lrp \in WrittenBy(event) : lrp.processGuid \in ProcessesOf(event)
         /\ event \in ActualEvents => WrittenBy(event) = {} /\ ProcessesOf(event) = {}
<1>1. CASE event \in ActualEvents
  <2>1. event.type \in {"ActualLRPCreatedEvent", "ActualLRPRemovedEvent", "ActualLRPChangedEvent"}
    BY <1>1 DEF ActualEvents
  <2> QED
    BY <2>1 DEF WrittenBy, ProcessesOf
<1>2. CASE event \in DesiredEvents
  <2>1. event.type \in {"DesiredLRPCreatedEvent", "DesiredLRPRemovedEvent", "DesiredLRPChangedEvent"}
    BY <1>2 DEF DesiredEvents
  <2>2. event \notin ActualEvents
    BY <2>1 DEF ActualEvents
  <2>3. CASE event.type = "DesiredLRPCreatedEvent"
    BY <1>2, <2>2, <2>3, HandleDesiredEvent DEF WrittenBy, ProcessesOf
  <2>4. CASE event.type = "DesiredLRPRemovedEvent"
    BY <2>2, <2>4 DEF WrittenBy, ProcessesOf
  <2>5. CASE event.type = "DesiredLRPChangedEvent"
    BY <1>2, <2>2, <2>5, HandleDesiredEvent DEF WrittenBy, ProcessesOf
  <2> QED
    BY <2>1, <2>3, <2>4, <2>5
<1> QED
  BY <1>1, <1>2 DEF Events

\* AddRoutes leaves the routes at a key as they are, or makes them those of the
\* desired LRP; a port of the desired LRP is missing afterwards only where the
\* stored tag is of the same epoch and not older.
LEMMA AddRoutesRoutes ==
  ASSUME NEW table \in Tables, NEW d \in DesiredLRPs, NEW k \in RoutingKeys
  PROVE  LET new == Lookup(AddRoutes(table, d).entries, k)
             old == Lookup(table, k)
         IN  /\ \/ new = old
                \/ /\ k \in NewRoutingKeysFromDesired(d)
                   /\ new.externalEndpoints = NewExternalEndpoints(k, d)
                   /\ new.modificationTag = d.modificationTag
             /\ k \in NewRoutingKeysFromDesired(d) =>
                  \/ HasPortsOf(new, k, d)
                  \/ /\ new = old
                     /\ ~SucceededBy(old.modificationTag, d.modificationTag)
<1> DEFINE old       == Lookup(table, k)
           externals == NewExternalEndpoints(k, d)
           new       == Lookup(AddRoutes(table, d).entries, k)
<1>1. new = IF k \in KeysToMerge(table, d) /\ RegistrationNeeded(old, externals)
              THEN UpdatedEntry(old, externals, d.modificationTag) ELSE old
  BY AddRoutesLookup
<1>2. old \in RoutableEndpoints
  BY LookupType
<1>3. k \in KeysToMerge(table, d) <=>
        /\ k \in NewRoutingKeysFromDesired(d)
        /\ SucceededBy(old.modificationTag, d.modificationTag)
  BY DEF KeysToMerge
<1> HIDE DEF new, old, externals
<1>4. CASE k \in KeysToMerge(table, d) /\ RegistrationNeeded(old, externals)
  <2>1. new.externalEndpoints = externals /\ new.modificationTag = d.modificationTag
    BY <1>1, <1>2, <1>4, UpdatedEntryFields
  <2>2. HasPortsOf(new, k, d)
    BY <2>1 DEF HasPortsOf, ContainsExternalPort, externals
  <2> QED
    BY <1>3, <1>4, <2>1, <2>2 DEF new, old, externals
<1>5. CASE k \in KeysToMerge(table, d) /\ ~RegistrationNeeded(old, externals)
  <2>1. new = old
    BY <1>1, <1>5
  <2>2. HasPortsOf(new, k, d)
    BY <1>5, <2>1 DEF HasPortsOf, RegistrationNeeded, externals
  <2> QED
    BY <2>1, <2>2 DEF new, old
<1>6. CASE k \notin KeysToMerge(table, d)
  BY <1>1, <1>3, <1>6 DEF new, old
<1> QED
  BY <1>4, <1>5, <1>6

\* After an event, the routes at a key are those it writes, or none are left
\* because it removes them, or they are as before; only routes of the processes
\* it is about change, and what it writes is present unless it came too late.
LEMMA HandleEventRoutes ==
  ASSUME NEW table \in Tables, NEW event \in Events, NEW k \in RoutingKeys
  PROVE  LET new  == Lookup(handleEvent(table, event).entries, k)
             old  == Lookup(table, k)
             same == /\ new.externalEndpoints = old.externalEndpoints
                     /\ new.modificationTag = old.modificationTag
         IN  /\ \/ same
                \/ new.modificationTag = Nil /\ new.externalEndpoints = {}
                \/ \E lrp \in WrittenBy(event) :
                     /\ k \in NewRoutingKeysFromDesired(lrp)
                     /\ new.externalEndpoints = NewExternalEndpoints(k, lrp)
                     /\ new.modificationTag = lrp.modificationTag
             /\ k.processGuid \notin ProcessesOf(event) => same
             /\ \A lrp \in WrittenBy(event) : k \in NewRoutingKeysFromDesired(lrp) =>
                  \/ HasPortsOf(new, k, lrp)
                  \/ same /\ ~SucceededBy(old.modificationTag, lrp.modificationTag)
<1> DEFINE new  == Lookup(handleEvent(table, event).entries, k)
           old  == Lookup(table, k)
           same == /\ new.externalEndpoints = old.externalEndpoints
                   /\ new.modificationTag = old.modificationTag
<1>1. CASE event \in ActualEvents
  <2>1. WrittenBy(event) = {} /\ ProcessesOf(event) = {}
    BY <1>1, WrittenTypes
  <2>2. old \in RoutableEndpoints
    BY LookupType
  <2>3. same
    <3>1. ASSUME NEW g \in OneSided, handleEvent(table, event) = AddEndpoint(table, g)
          PROVE  same
      <4>1. g \in ActualLRPGroups /\ EndpointKeyOf(g) \in EndpointKeys
        BY OneSidedGroups, ResolveType
      <4> QED
        BY <2>2, <3>1, <4>1, AddEndpointLookup, WithEndpointFields
    <3>2. ASSUME NEW g \in OneSided, handleEvent(table, event) = RemoveEndpoint(table, g)
          PROVE  same
      <4>1. g \in ActualLRPGroups /\ EndpointKeyOf(g) \in EndpointKeys
        BY OneSidedGroups, ResolveType
      <4> QED
        BY <2>2, <3>2, <4>1, RemoveEndpointLookup, WithEndpointFields
    <3>3. CASE handleEvent(table, event) = NoChange(table)
      BY <3>3 DEF NoChange
    <3> HIDE DEF same
    <3> QED
      BY <1>1, <3>1, <3>2, <3>3, HandleActualEvent
  <2> QED
    BY <2>1, <2>3
<1>2. CASE /\ event.type = "DesiredLRPCreatedEvent"
           /\ event.desiredLRP \in DesiredLRPs
           /\ handleEvent(table, event) = AddRoutes(table, event.desiredLRP)
  <2>1. /\ WrittenBy(event) = {event.desiredLRP}
        /\ ProcessesOf(event) = {event.desiredLRP.processGuid}
    BY <1>2 DEF WrittenBy, ProcessesOf
  <2>2. k \in NewRoutingKeysFromDesired(event.desiredLRP) =>
          k.processGuid = event.desiredLRP.processGuid
    BY DEF NewRoutingKeysFromDesired
  <2> QED
    BY <1>2, <2>1, <2>2, AddRoutesRoutes
<1>3. CASE /\ event.type = "DesiredLRPRemovedEvent"
           /\ event.desiredLRP \in DesiredLRPs
           /\ handleEvent(table, event) = RemoveRoutes(table, event.desiredLRP)
  <2> DEFINE keys == NewRoutingKeysFromDesired(event.desiredLRP)
  <2>1. WrittenBy(event) = {} /\ ProcessesOf(event) = {event.desiredLRP.processGuid}
    BY <1>3 DEF WrittenBy, ProcessesOf
  <2>2. /\ keys \in SUBSET RoutingKeys
        /\ k \in keys => k.processGuid = event.desiredLRP.processGuid
    BY DEF NewRoutingKeysFromDesired
  <2>3. new = old \/ (new = ZeroEntry /\ k \in keys)
    <3>1. k \in KeysToDelete(table, keys, event.desiredLRP.modificationTag) => k \in keys
      BY DEF KeysToDelete
    <3>2. handleEvent(table, event)
            = removeRoutingKeys(table, keys, event.desiredLRP.modificationTag)
      BY <1>3 DEF RemoveRoutes
    <3>3. new = Lookup(removeRoutingKeys(table, keys, event.desiredLRP.modificationTag).entries, k)
      BY <3>2
    <3> HIDE DEF keys, new
    <3>4. new = IF k \in KeysToDelete(table, keys, event.desiredLRP.modificationTag)
                  THEN ZeroEntry ELSE old
      BY <2>2, <3>3, RemoveRoutingKeysLookup
    <3> QED
      BY <3>1, <3>4
  <2> HIDE DEF keys, new, old
  <2> QED
    BY <2>1, <2>2, <2>3, ZeroEntryFields DEF new, old
<1>4. CASE /\ event.type = "DesiredLRPChangedEvent"
           /\ event.before \in DesiredLRPs /\ event.after \in DesiredLRPs
           /\ handleEvent(table, event) = UpdateRoutes(table, event.before, event.after)
  <2>1. /\ WrittenBy(event) = {event.after}
        /\ ProcessesOf(event) = {event.before.processGuid, event.after.processGuid}
    BY <1>4 DEF WrittenBy, ProcessesOf
  <2>2. /\ k \in NewRoutingKeysFromDesired(event.after) => k.processGuid = event.after.processGuid
        /\ k \in NewRoutingKeysFromDesired(event.before) => k.processGuid = event.before.processGuid
    BY DEF NewRoutingKeysFromDesired
  <2>3. CASE new = Lookup(AddRoutes(table, event.after).entries, k)
    BY <1>4, <2>1, <2>2, <2>3, AddRoutesRoutes
  <2>4. CASE /\ new = ZeroEntry
             /\ k \in NewRoutingKeysFromDesired(event.before) \ NewRoutingKeysFromDesired(event.after)
    BY <2>1, <2>2, <2>4, ZeroEntryFields
  <2> QED
    BY <1>4, <2>3, <2>4, UpdateRoutesLookup
<1> QED
  BY <1>1, <1>2, <1>3, <1>4, HandleDesiredEvent DEF Events

-----------------------------------------------------------------------------
(* What is dated stays dated *)

\* A desired LRP that takes the place of none is of an unused epoch, and one
\* that takes the place of another is of its epoch and newer: either makes the
\* tags that were dated older.
LEMMA DatedAfterChange ==
  ASSUME NEW before, NEW after \in DesiredLRPs \cup {Nil},
         NEW epochs, NEW unused \in SUBSET epochs,
         before \in DesiredLRPs \cup {Nil},
         after # Nil =>
           IF before = Nil THEN after.modificationTag.epoch \in epochs
           ELSE /\ after.modificationTag.epoch = before.modificationTag.epoch
                /\ before.modificationTag.index < after.modificationTag.index,
         NEW tag \in ModificationTags, NEW same, NEW nowSame,
         Dated(before, epochs, tag, same)
  PROVE  Dated(after, unused, tag, nowSame)
<1>1. tag.epoch \notin unused
  BY DEF Dated
<1>2. ASSUME after # Nil, tag.epoch = after.modificationTag.epoch
      PROVE  tag.index < after.modificationTag.index
  <2>1. before # Nil
    BY <1>2 DEF Dated
  <2>2. /\ before \in DesiredLRPs /\ after \in DesiredLRPs
        /\ tag.epoch = before.modificationTag.epoch
        /\ before.modificationTag.index < after.modificationTag.index
    BY <1>2, <2>1
  <2>3. /\ before.modificationTag.index \in Nat /\ after.modificationTag.index \in Nat
        /\ tag.index \in Nat
    BY <2>2 DEF DesiredLRPs, ModificationTags
  <2>4. tag.index < before.modificationTag.index \/ tag = before.modificationTag
    BY <2>1, <2>2 DEF Dated
  <2> QED
    BY <2>2, <2>3, <2>4
<1> QED
  BY <1>1, <1>2 DEF Dated

\* Handling a dated event keeps a table dated.
LEMMA HandlingKeepsDated ==
  ASSUME NEW lrps, NEW epochs,
         NEW table \in DatedTables(lrps, epochs), NEW event \in DatedEvents(lrps, epochs)
  PROVE  handleEvent(table, event).entries \in DatedTables(lrps, epochs)
<1> DEFINE new == handleEvent(table, event).entries
<1>1. table \in Tables /\ event \in Events
  BY DEF DatedTables, DatedEvents
<1>2. new \in Tables
  BY <1>1, HandleEventType DEF Results
<1>3. ASSUME NEW k \in RoutingKeys, Lookup(new, k).modificationTag # Nil
      PROVE  Dated(lrps[k.processGuid], epochs[k.processGuid], Lookup(new, k).modificationTag,
                   HasPortsOf(Lookup(new, k), k, lrps[k.processGuid]))
  <2> DEFINE old == Lookup(table, k)
  <2>1. CASE /\ Lookup(new, k).externalEndpoints = old.externalEndpoints
             /\ Lookup(new, k).modificationTag = old.modificationTag
    <3>1. Dated(lrps[k.processGuid], epochs[k.processGuid], old.modificationTag,
                HasPortsOf(old, k, lrps[k.processGuid]))
      BY <1>3, <2>1 DEF DatedTables
    <3>2. HasPortsOf(Lookup(new, k), k, lrps[k.processGuid])
            = HasPortsOf(old, k, lrps[k.processGuid])
      BY <2>1 DEF HasPortsOf
    <3> QED
      BY <2>1, <3>1, <3>2
  <2>2. ASSUME NEW lrp \in WrittenBy(event),
               k \in NewRoutingKeysFromDesired(lrp),
               Lookup(new, k).externalEndpoints = NewExternalEndpoints(k, lrp),
               Lookup(new, k).modificationTag = lrp.modificationTag
        PROVE  Dated(lrps[k.processGuid], epochs[k.processGuid], Lookup(new, k).modificationTag,
                     HasPortsOf(Lookup(new, k), k, lrps[k.processGuid]))
    <3>1. lrp.processGuid = k.processGuid
      BY <2>2 DEF NewRoutingKeysFromDesired
    <3>2. Dated(lrps[k.processGuid], epochs[k.processGuid], lrp.modificationTag,
                lrp = lrps[k.processGuid])
      BY <3>1 DEF DatedEvents, DatedLRPs
    <3>3. HasPortsOf(Lookup(new, k), k, lrp)
      BY <2>2 DEF HasPortsOf, ContainsExternalPort
    <3> QED
      BY <2>2, <3>2, <3>3 DEF Dated
  <2> QED
    BY <1>1, <1>3, <2>1, <2>2, HandleEventRoutes
<1> QED
  BY <1>2, <1>3 DEF DatedTables

\* A change of the BBS writes the desired LRP that it leaves, and only about
\* its process.
LEMMA ChangeWrites ==
  ASSUME BBSTypes, BBSNext,
         \A p \in ProcessGuids :
           desired[p] # Nil => desired[p].modificationTag.epoch \notin fresh.epochs[p]
  PROVE  \E event \in Events :
           /\ stream' = Append(stream, event)
           /\ \A lrp \in WrittenBy(event) :
                /\ lrp = desired'[lrp.processGuid]
                /\ lrp.modificationTag.epoch \notin fresh'.epochs[lrp.processGuid]
           /\ \A p \in ProcessGuids :
                IF p \notin ProcessesOf(event)
                  THEN desired'[p] = desired[p] /\ fresh'.epochs[p] = fresh.epochs[p]
                  ELSE /\ fresh'.epochs[p] \subseteq fresh.epochs[p]
                       /\ desired[p] # Nil \/ \E d \in WrittenBy(event) : d.processGuid = p
                       /\ desired'[p] # Nil =>
                            /\ desired'[p] \in WrittenBy(event)
                            /\ IF desired[p] = Nil
                                 THEN desired'[p].modificationTag.epoch \in fresh.epochs[p]
                                 ELSE /\ desired'[p].modificationTag.epoch
                                           = desired[p].modificationTag.epoch
                                      /\ desired[p].modificationTag.index
                                           < desired'[p].modificationTag.index
<1> DEFINE Accounts(event) ==
      /\ stream' = Append(stream, event)
      /\ \A lrp \in WrittenBy(event) :
           /\ lrp = desired'[lrp.processGuid]
           /\ lrp.modificationTag.epoch \notin fresh'.epochs[lrp.processGuid]
      /\ \A p \in ProcessGuids :
           IF p \notin ProcessesOf(event)
             THEN desired'[p] = desired[p] /\ fresh'.epochs[p] = fresh.epochs[p]
             ELSE /\ fresh'.epochs[p] \subseteq fresh.epochs[p]
                  /\ desired[p] # Nil \/ \E d \in WrittenBy(event) : d.processGuid = p
                  /\ desired'[p] # Nil =>
                       /\ desired'[p] \in WrittenBy(event)
                       /\ IF desired[p] = Nil
                            THEN desired'[p].modificationTag.epoch \in fresh.epochs[p]
                            ELSE /\ desired'[p].modificationTag.epoch
                                      = desired[p].modificationTag.epoch
                                 /\ desired[p].modificationTag.index
                                      < desired'[p].modificationTag.index
<1>1. /\ desired \in [ProcessGuids -> DesiredLRPs \cup {Nil}]
      /\ fresh \in [epochs : [ProcessGuids -> SUBSET Epochs], instanceGuids : SUBSET InstanceGuids]
  BY DEF BBSTypes
<1>2. ASSUME NEW p \in ProcessGuids, NEW rs \in RouteSets, DesireLRP(p, rs)
      PROVE  \E event \in Events : Accounts(event)
  <2>1. PICK e \in fresh.epochs[p], lrp \in DesiredLRPs :
          /\ desired[p] = Nil
          /\ lrp.processGuid = p
          /\ lrp.modificationTag = FirstTag(e)
          /\ desired' = [desired EXCEPT ![p] = lrp]
          /\ fresh' = [fresh EXCEPT !.epochs[p] = @ \ {e}]
          /\ Change([type |-> "DesiredLRPCreatedEvent", desiredLRP |-> lrp])
    BY <1>2, DesiredCreation
  <2> DEFINE event == [type |-> "DesiredLRPCreatedEvent", desiredLRP |-> lrp]
  <2>2. event \in Events
    BY DEF Events, DesiredEvents
  <2>3. WrittenBy(event) = {lrp} /\ ProcessesOf(event) = {p} /\ stream' = Append(stream, event)
    BY <2>1 DEF WrittenBy, ProcessesOf, Change
  <2> HIDE DEF event
  <2>4. /\ desired'[p] = lrp /\ lrp.modificationTag.epoch = e
        /\ fresh'.epochs[p] = fresh.epochs[p] \ {e}
        /\ \A q \in ProcessGuids \ {p} : desired'[q] = desired[q] /\ fresh'.epochs[q] = fresh.epochs[q]
    BY <1>1, <2>1 DEF FirstTag
  <2>5. Accounts(event)
    BY <2>1, <2>3, <2>4
  <2> QED
    BY <2>2, <2>5
<1>3. ASSUME NEW p \in ProcessGuids, NEW rs \in RouteSets, UpdateDesiredLRP(p, rs)
      PROVE  \E event \in Events : Accounts(event)
  <2>1. PICK lrp \in DesiredLRPs :
          /\ desired[p] \in DesiredLRPs
          /\ desired[p] # Nil
          /\ lrp.processGuid = p
          /\ lrp.modificationTag = Bump(desired[p].modificationTag)
          /\ desired' = [desired EXCEPT ![p] = lrp]
          /\ Change([type |-> "DesiredLRPChangedEvent", before |-> desired[p], after |-> lrp])
          /\ fresh' = fresh
    BY <1>3, DesiredUpdate
  <2> DEFINE event == [type |-> "DesiredLRPChangedEvent", before |-> desired[p], after |-> lrp]
  <2>2. event \in Events
    BY <2>1 DEF Events, DesiredEvents
  <2>3. desired[p].processGuid = p
    BY <2>1 DEF BBSTypes
  <2>4. WrittenBy(event) = {lrp} /\ ProcessesOf(event) = {p} /\ stream' = Append(stream, event)
    BY <2>1, <2>3 DEF WrittenBy, ProcessesOf, Change
  <2> HIDE DEF event
  <2>5. /\ desired'[p] = lrp
        /\ lrp.modificationTag.epoch = desired[p].modificationTag.epoch
        /\ desired[p].modificationTag.index < lrp.modificationTag.index
        /\ \A q \in ProcessGuids \ {p} : desired'[q] = desired[q]
    BY <1>1, <2>1 DEF Bump, DesiredLRPs, ModificationTags
  <2>6. lrp.modificationTag.epoch \notin fresh'.epochs[p]
    BY <2>1, <2>5
  <2>7. Accounts(event)
    BY <2>1, <2>4, <2>5, <2>6
  <2> QED
    BY <2>2, <2>7
<1>4. ASSUME NEW p \in ProcessGuids, RemoveDesiredLRP(p)
      PROVE  \E event \in Events : Accounts(event)
  <2>1. PICK lrp \in DesiredLRPs :
          /\ lrp.processGuid = p
          /\ desired' = [desired EXCEPT ![p] = Nil]
          /\ Change([type |-> "DesiredLRPRemovedEvent", desiredLRP |-> lrp])
          /\ fresh' = fresh
    BY <1>4, DesiredRemoval
  <2> DEFINE event == [type |-> "DesiredLRPRemovedEvent", desiredLRP |-> lrp]
  <2>2. event \in Events
    BY DEF Events, DesiredEvents
  <2>3. WrittenBy(event) = {} /\ ProcessesOf(event) = {p} /\ stream' = Append(stream, event)
    BY <2>1 DEF WrittenBy, ProcessesOf, Change
  <2> HIDE DEF event
  <2>4. desired[p] # Nil
    BY <1>4 DEF RemoveDesiredLRP
  <2>5. Accounts(event)
    BY <1>1, <2>1, <2>3, <2>4
  <2> QED
    BY <2>2, <2>5
<1>5. ASSUME NEW event \in ActualEvents, stream' = Append(stream, event), desired' = desired,
             fresh'.epochs = fresh.epochs
      PROVE  \E other \in Events : Accounts(other)
  <2>1. event \in Events
    BY DEF Events
  <2>2. WrittenBy(event) = {} /\ ProcessesOf(event) = {}
    BY <2>1, WrittenTypes
  <2>3. Accounts(event)
    BY <1>5, <2>2
  <2> QED
    BY <2>1, <2>3
<1>6. ASSUME NEW l \in LRPKeys,
             ClaimLRP(l) \/ StartLRP(l) \/ CrashLRP(l) \/ UnclaimEvacuatedLRP(l)
      PROVE  \E event \in Events : Accounts(event)
  <2>1. PICK lrp \in ActualLRPs : SetInstance(l, lrp)
    BY <1>6, NewInstance
  <2>2. fresh'.epochs = fresh.epochs
    BY <1>1, <1>6 DEF ClaimLRP, StartLRP, CrashLRP, UnclaimEvacuatedLRP, StopLRP
  <2>3. actual[l].instance \in ActualLRPs \cup {Nil}
    BY DEF BBSTypes, Groups
  <2>4. CASE actual[l].instance = Nil
    <3> DEFINE event == [type |-> "ActualLRPCreatedEvent", group |-> Only(lrp)]
    <3>1. event \in ActualEvents
      BY DEF ActualEvents, OneSided
    <3>2. stream' = Append(stream, event) /\ desired' = desired
      BY <2>1, <2>4 DEF SetInstance, Change
    <3> QED
      BY <1>5, <2>2, <3>1, <3>2
  <2>5. CASE actual[l].instance # Nil
    <3> DEFINE event == [type |-> "ActualLRPChangedEvent",
                         before |-> Only(actual[l].instance), after |-> Only(lrp)]
    <3>1. event \in ActualEvents
      BY <2>3, <2>5 DEF ActualEvents, OneSided
    <3>2. stream' = Append(stream, event) /\ desired' = desired
      BY <2>1, <2>5 DEF SetInstance, Change
    <3> QED
      BY <1>5, <2>2, <3>1, <3>2
  <2> QED
    BY <2>4, <2>5
<1>7. ASSUME NEW l \in LRPKeys, RemoveLRP(l) PROVE \E event \in Events : Accounts(event)
  <2> DEFINE event == [type |-> "ActualLRPRemovedEvent", group |-> Only(actual[l].instance)]
  <2>1. event \in ActualEvents
    BY <1>7 DEF RemoveLRP, BBSTypes, Groups, ActualEvents, OneSided
  <2>2. stream' = Append(stream, event) /\ desired' = desired /\ fresh' = fresh
    BY <1>7 DEF RemoveLRP, Change
  <2> QED
    BY <1>5, <2>1, <2>2
<1>8. ASSUME NEW l \in LRPKeys, EvacuateLRP(l) PROVE \E event \in Events : Accounts(event)
  <2> DEFINE event == [type |-> "ActualLRPCreatedEvent",
                       group |-> OnlyEvacuating(actual[l].instance)]
  <2>1. actual[l].instance \in ActualLRPs
    BY <1>8, NilAssumption DEF EvacuateLRP, StateOf, BBSTypes, Groups, ActualLRPStates
  <2>2. event \in ActualEvents
    BY <2>1 DEF ActualEvents, OneSided
  <2>3. stream' = Append(stream, event) /\ desired' = desired /\ fresh' = fresh
    BY <1>8 DEF EvacuateLRP, Change
  <2> QED
    BY <1>5, <2>2, <2>3
<1>9. ASSUME NEW l \in LRPKeys, RemoveEvacuatingLRP(l)
      PROVE  \E event \in Events : Accounts(event)
  <2> DEFINE event == [type |-> "ActualLRPRemovedEvent",
                       group |-> OnlyEvacuating(actual[l].evacuating)]
  <2>1. event \in ActualEvents
    BY <1>9 DEF RemoveEvacuatingLRP, BBSTypes, Groups, ActualEvents, OneSided
  <2>2. stream' = Append(stream, event) /\ desired' = desired /\ fresh' = fresh
    BY <1>9 DEF RemoveEvacuatingLRP, Change
  <2> QED
    BY <1>5, <2>1, <2>2
<1>10. \E event \in Events : Accounts(event)
  <2> HIDE DEF Accounts
  <2> QED
    BY <1>2, <1>3, <1>4, <1>6, <1>7, <1>8, <1>9 DEF BBSNext
<1> QED
  BY <1>10

\* A change of the BBS keeps everything dated, its own event included.
LEMMA DatedAfterBBSStep ==
  ASSUME BBSTypes, BBSNext,
         \A p \in ProcessGuids :
           desired[p] # Nil => desired[p].modificationTag.epoch \notin fresh.epochs[p]
  PROVE  /\ DatedLRPs(desired, fresh.epochs) \subseteq DatedLRPs(desired', fresh'.epochs)
         /\ DatedEvents(desired, fresh.epochs) \subseteq DatedEvents(desired', fresh'.epochs)
         /\ DatedTables(desired, fresh.epochs) \subseteq DatedTables(desired', fresh'.epochs)
         /\ \A p \in ProcessGuids :
              desired'[p] # Nil => desired'[p].modificationTag.epoch \notin fresh'.epochs[p]
         /\ stream \in Seq(DatedEvents(desired, fresh.epochs)) =>
              stream' \in Seq(DatedEvents(desired', fresh'.epochs))
<1>1. PICK event \in Events :
           /\ stream' = Append(stream, event)
           /\ \A lrp \in WrittenBy(event) :
                /\ lrp = desired'[lrp.processGuid]
                /\ lrp.modificationTag.epoch \notin fresh'.epochs[lrp.processGuid]
           /\ \A p \in ProcessGuids :
                IF p \notin ProcessesOf(event)
                  THEN desired'[p] = desired[p] /\ fresh'.epochs[p] = fresh.epochs[p]
                  ELSE /\ fresh'.epochs[p] \subseteq fresh.epochs[p]
                       /\ desired'[p] # Nil =>
                            /\ desired'[p] \in WrittenBy(event)
                            /\ IF desired[p] = Nil
                                 THEN desired'[p].modificationTag.epoch \in fresh.epochs[p]
                                 ELSE /\ desired'[p].modificationTag.epoch
                                           = desired[p].modificationTag.epoch
                                      /\ desired[p].modificationTag.index
                                           < desired'[p].modificationTag.index
  BY ChangeWrites
<1>2. \A p \in ProcessGuids : /\ desired[p] \in DesiredLRPs \cup {Nil}
                              /\ desired'[p] \in DesiredLRPs \cup {Nil}
                              /\ desired'[p] # Nil => desired'[p].processGuid = p
  BY BBSTypesStep DEF BBSTypes
<1>3. ASSUME NEW p \in ProcessGuids, NEW tag \in ModificationTags, NEW same, NEW nowSame,
             Dated(desired[p], fresh.epochs[p], tag, same),
             desired'[p] = desired[p] => nowSame = same
      PROVE  Dated(desired'[p], fresh'.epochs[p], tag, nowSame)
  <2>1. CASE p \notin ProcessesOf(event)
    BY <1>1, <1>3, <2>1
  <2>2. CASE p \in ProcessesOf(event)
    <3>1. /\ fresh'.epochs[p] \in SUBSET fresh.epochs[p]
          /\ desired'[p] # Nil =>
               IF desired[p] = Nil
                 THEN desired'[p].modificationTag.epoch \in fresh.epochs[p]
                 ELSE /\ desired'[p].modificationTag.epoch = desired[p].modificationTag.epoch
                      /\ desired[p].modificationTag.index < desired'[p].modificationTag.index
      BY <1>1, <2>2
    <3>2. desired[p] \in DesiredLRPs \cup {Nil} /\ desired'[p] \in DesiredLRPs \cup {Nil}
      BY <1>2
    <3>3. Dated(desired[p], fresh.epochs[p], tag, same)
      BY <1>3
    <3> QED
      BY <3>1, <3>2, <3>3, DatedAfterChange
  <2> QED
    BY <2>1, <2>2
<1>4. ASSUME NEW lrp \in DatedLRPs(desired, fresh.epochs)
      PROVE  lrp \in DatedLRPs(desired', fresh'.epochs)
  <2>1. /\ lrp \in DesiredLRPs /\ lrp.processGuid \in ProcessGuids
        /\ lrp.modificationTag \in ModificationTags
        /\ Dated(desired[lrp.processGuid], fresh.epochs[lrp.processGuid],
                 lrp.modificationTag, lrp = desired[lrp.processGuid])
    BY DEF DatedLRPs, DesiredLRPs
  <2>2. Dated(desired'[lrp.processGuid], fresh'.epochs[lrp.processGuid],
              lrp.modificationTag, lrp = desired'[lrp.processGuid])
    BY <1>3, <2>1
  <2> QED
    BY <2>1, <2>2 DEF DatedLRPs
<1>5. DatedEvents(desired, fresh.epochs) \subseteq DatedEvents(desired', fresh'.epochs)
  BY <1>4 DEF DatedEvents
<1>6. ASSUME NEW table \in DatedTables(desired, fresh.epochs)
      PROVE  table \in DatedTables(desired', fresh'.epochs)
  <2>1. table \in Tables
    BY DEF DatedTables
  <2>2. ASSUME NEW k \in RoutingKeys, Lookup(table, k).modificationTag # Nil
        PROVE  Dated(desired'[k.processGuid], fresh'.epochs[k.processGuid],
                     Lookup(table, k).modificationTag,
                     HasPortsOf(Lookup(table, k), k, desired'[k.processGuid]))
    <3>1. k.processGuid \in ProcessGuids
      BY DEF RoutingKeys
    <3>2. Lookup(table, k).modificationTag \in ModificationTags
      BY <2>1, <2>2, LookupType DEF RoutableEndpoints
    <3>3. Dated(desired[k.processGuid], fresh.epochs[k.processGuid],
                Lookup(table, k).modificationTag,
                HasPortsOf(Lookup(table, k), k, desired[k.processGuid]))
      BY <2>2 DEF DatedTables
    <3> QED
      BY <1>3, <3>1, <3>2, <3>3
  <2> QED
    BY <2>1, <2>2 DEF DatedTables
<1>7. ASSUME NEW p \in ProcessGuids, desired'[p] # Nil
      PROVE  desired'[p].modificationTag.epoch \notin fresh'.epochs[p]
  <2>1. CASE p \notin ProcessesOf(event)
    BY <1>1, <1>7, <2>1
  <2>2. CASE p \in ProcessesOf(event)
    BY <1>1, <1>2, <1>7, <2>2
  <2> QED
    BY <2>1, <2>2
<1>8. event \in DatedEvents(desired', fresh'.epochs)
  <2>1. ASSUME NEW lrp \in WrittenBy(event) PROVE lrp \in DatedLRPs(desired', fresh'.epochs)
    <3>1. lrp \in DesiredLRPs
      BY WrittenTypes
    <3> QED
      BY <1>1, <3>1 DEF DatedLRPs, Dated
  <2> QED
    BY <2>1 DEF DatedEvents
<1>9. ASSUME stream \in Seq(DatedEvents(desired, fresh.epochs))
      PROVE  stream' \in Seq(DatedEvents(desired', fresh'.epochs))
  <2>1. stream \in Seq(DatedEvents(desired', fresh'.epochs))
    BY <1>5, <1>9, SeqMonotonic
  <2> QED
    BY <1>1, <1>8, <2>1, AppendProperties
<1> QED
  BY <1>4, <1>5, <1>6, <1>7, <1>9

-----------------------------------------------------------------------------
(* The last word on a process *)

\* A process is settled when neither the next event nor a later one is about it.
LEMMA SilentInTail ==
  ASSUME NEW events \in Seq(Events), events # <<>>, NEW p
  PROVE  Silent(p, events) <=> p \notin ProcessesOf(Head(events)) /\ Silent(p, Tail(events))
<1>1. /\ Len(events) \in Nat \ {0}
      /\ Len(Tail(events)) = Len(events) - 1
      /\ \A i \in 1..Len(Tail(events)) : Tail(events)[i] = events[i + 1]
      /\ Head(events) = events[1]
  BY HeadTailProperties, EmptySeq
<1>2. ASSUME Silent(p, events)
      PROVE  p \notin ProcessesOf(Head(events)) /\ Silent(p, Tail(events))
  <2>1. \A i \in 1..Len(Tail(events)) : i + 1 \in 1..Len(events)
    BY <1>1
  <2> QED
    BY <1>1, <1>2, <2>1 DEF Silent
<1>3. ASSUME p \notin ProcessesOf(Head(events)), Silent(p, Tail(events)), NEW i \in 1..Len(events)
      PROVE  p \notin ProcessesOf(events[i])
  <2>1. CASE i = 1
    BY <1>1, <1>3, <2>1
  <2>2. CASE i # 1
    <3>1. i - 1 \in 1..Len(Tail(events)) /\ (i - 1) + 1 = i
      BY <1>1, <2>2
    <3> QED
      BY <1>1, <1>3, <3>1 DEF Silent
  <2> QED
    BY <2>1, <2>2
<1> QED
  BY <1>2, <1>3 DEF Silent

\* Handling the first event leaves the last word on a process to be said, or
\* has said it.
LEMMA FollowedInTail ==
  ASSUME NEW lrps, \A p \in ProcessGuids : lrps[p] # Nil => lrps[p].processGuid = p,
         NEW events \in Seq(Events), events # <<>>, Followed(lrps, events)
  PROVE  /\ Followed(lrps, Tail(events))
         /\ \A p \in Settled(lrps, Tail(events)) :
              \/ p \in Settled(lrps, events) /\ p \notin ProcessesOf(Head(events))
              \/ lrps[p] \in WrittenBy(Head(events))
<1>1. /\ Len(events) \in Nat \ {0}
      /\ Len(Tail(events)) = Len(events) - 1
      /\ \A i \in 1..Len(Tail(events)) : Tail(events)[i] = events[i + 1]
      /\ Head(events) = events[1]
  BY HeadTailProperties, EmptySeq
<1>2. ASSUME NEW p \in ProcessGuids, lrps[p] # Nil, ~Silent(p, events)
      PROVE  \/ lrps[p] \in WrittenBy(Head(events)) /\ Silent(p, Tail(events))
             \/ /\ ~Silent(p, Tail(events))
                /\ \E j \in 1..Len(Tail(events)) :
                     /\ lrps[p] \in WrittenBy(Tail(events)[j])
                     /\ \A i \in 1..Len(Tail(events)) :
                          i > j => p \notin ProcessesOf(Tail(events)[i])
  <2>1. PICK j \in 1..Len(events) :
          /\ lrps[p] \in WrittenBy(events[j])
          /\ \A i \in 1..Len(events) : i > j => p \notin ProcessesOf(events[i])
    BY <1>2 DEF Followed
  <2>2. ASSUME NEW i \in 1..Len(Tail(events)), i + 1 > j
        PROVE  p \notin ProcessesOf(Tail(events)[i])
    <3>1. i + 1 \in 1..Len(events)
      BY <1>1
    <3> QED
      BY <1>1, <2>1, <2>2, <3>1
  <2>3. CASE j = 1
    <3>1. \A i \in 1..Len(Tail(events)) : i + 1 > j
      BY <1>1, <2>3
    <3> QED
      BY <1>1, <2>1, <2>2, <2>3, <3>1 DEF Silent
  <2>4. CASE j # 1
    <3>1. /\ j - 1 \in 1..Len(Tail(events)) /\ (j - 1) + 1 = j
          /\ \A i \in 1..Len(Tail(events)) : i > j - 1 => i + 1 > j
      BY <1>1, <2>4
    <3>2. lrps[p] \in WrittenBy(Tail(events)[j - 1])
      BY <1>1, <2>1, <3>1
    <3>3. Tail(events)[j - 1] \in Events
      BY <3>1, HeadTailProperties, ElementOfSeq
    <3>4. p \in ProcessesOf(Tail(events)[j - 1])
      BY <1>2, <3>2, <3>3, WrittenTypes
    <3>5. ~Silent(p, Tail(events))
      BY <3>1, <3>4 DEF Silent
    <3> QED
      BY <2>2, <3>1, <3>2, <3>5
  <2> QED
    BY <2>3, <2>4
<1>3. Followed(lrps, Tail(events))
  <2> SUFFICES ASSUME NEW p \in ProcessGuids, lrps[p] # Nil, ~Silent(p, Tail(events))
               PROVE  \E j \in 1..Len(Tail(events)) :
                        /\ lrps[p] \in WrittenBy(Tail(events)[j])
                        /\ \A i \in 1..Len(Tail(events)) :
                             i > j => p \notin ProcessesOf(Tail(events)[i])
    BY DEF Followed
  <2>1. ~Silent(p, events)
    BY SilentInTail
  <2> QED
    BY <1>2, <2>1
<1>4. ASSUME NEW p \in Settled(lrps, Tail(events))
      PROVE  \/ p \in Settled(lrps, events) /\ p \notin ProcessesOf(Head(events))
             \/ lrps[p] \in WrittenBy(Head(events))
  <2>1. p \in ProcessGuids /\ lrps[p] # Nil /\ Silent(p, Tail(events))
    BY DEF Settled
  <2>2. CASE Silent(p, events)
    BY <2>1, <2>2, SilentInTail DEF Settled
  <2>3. CASE ~Silent(p, events)
    BY <1>2, <2>1, <2>3
  <2> QED
    BY <2>2, <2>3
<1> QED
  BY <1>3, <1>4

\* Handling the first event keeps the routes of the settled processes, and
\* brings those of the process on which it is the last word: where its tag is
\* not let in, an equal one is stored, with the same ports.
LEMMA HandlingKeepsRoutes ==
  ASSUME NEW lrps \in [ProcessGuids -> DesiredLRPs \cup {Nil}], NEW epochs,
         \A p \in ProcessGuids : lrps[p] # Nil => lrps[p].processGuid = p,
         NEW events \in Seq(Events), events # <<>>, Followed(lrps, events),
         NEW table \in DatedTables(lrps, epochs), RoutesPresent(lrps, table, events)
  PROVE  RoutesPresent(lrps, handleEvent(table, Head(events)).entries, Tail(events))
<1> DEFINE event == Head(events)
           new   == handleEvent(table, event).entries
<1>1. event \in Events
  BY HeadTailProperties
<1>2. table \in Tables
  BY DEF DatedTables
<1>3. ASSUME NEW p \in Settled(lrps, Tail(events)), NEW k \in NewRoutingKeysFromDesired(lrps[p])
      PROVE  HasPortsOf(Lookup(new, k), k, lrps[p])
  <2>1. /\ p \in ProcessGuids /\ lrps[p] # Nil /\ lrps[p] \in DesiredLRPs
        /\ lrps[p].processGuid = p
    BY DEF Settled
  <2>2. k \in RoutingKeys /\ k.processGuid = p
    BY <2>1 DEF NewRoutingKeysFromDesired
  <2>3. ASSUME Lookup(new, k).externalEndpoints = Lookup(table, k).externalEndpoints,
               HasPortsOf(Lookup(table, k), k, lrps[p])
        PROVE  HasPortsOf(Lookup(new, k), k, lrps[p])
    BY <2>3 DEF HasPortsOf
  <2> HIDE DEF new
  <2>4. CASE p \in Settled(lrps, events) /\ p \notin ProcessesOf(event)
    <3>1. HasPortsOf(Lookup(table, k), k, lrps[p])
      BY <2>4 DEF RoutesPresent
    <3>2. Lookup(new, k).externalEndpoints = Lookup(table, k).externalEndpoints
      BY <1>1, <1>2, <2>2, <2>4, HandleEventRoutes DEF new
    <3> QED
      BY <2>3, <3>1, <3>2
  <2>5. CASE lrps[p] \in WrittenBy(event)
    <3> DEFINE old == Lookup(table, k)
    <3>1. \/ HasPortsOf(Lookup(new, k), k, lrps[p])
          \/ /\ Lookup(new, k).externalEndpoints = old.externalEndpoints
             /\ ~SucceededBy(old.modificationTag, lrps[p].modificationTag)
      BY <1>1, <1>2, <2>2, <2>5, HandleEventRoutes DEF new
    <3>2. ASSUME ~SucceededBy(old.modificationTag, lrps[p].modificationTag)
          PROVE  HasPortsOf(old, k, lrps[p])
      <4>1. /\ old.modificationTag # Nil
            /\ old.modificationTag.epoch = lrps[p].modificationTag.epoch
            /\ ~(old.modificationTag.index < lrps[p].modificationTag.index)
        BY <3>2 DEF SucceededBy
      <4>2. Dated(lrps[p], epochs[p], old.modificationTag, HasPortsOf(old, k, lrps[p]))
        BY <2>2, <4>1 DEF DatedTables
      <4> QED
        BY <2>1, <4>1, <4>2 DEF Dated
    <3> QED
      BY <2>3, <3>1, <3>2
  <2> QED
    BY <2>4, <2>5, FollowedInTail
<1> QED
  BY <1>3 DEF RoutesPresent

\* A change of the BBS has the last word on its process.
LEMMA FollowedAfterChange ==
  ASSUME NEW before, NEW after, NEW events \in Seq(Events), NEW event \in Events,
         \A p \in ProcessGuids :
           IF p \notin ProcessesOf(event) THEN after[p] = before[p]
           ELSE after[p] # Nil => after[p] \in WrittenBy(event)
  PROVE  LET more == Append(events, event) IN
         /\ Followed(before, events) => Followed(after, more)
         /\ \A p \in Settled(after, more) :
              p \in Settled(before, events) /\ after[p] = before[p]
<1> DEFINE more == Append(events, event)
           m    == Len(events) + 1
<1>1. /\ Len(events) \in Nat
      /\ Len(more) = m
      /\ \A i \in 1..Len(events) : more[i] = events[i]
      /\ more[m] = event
  BY AppendProperties, LenProperties
<1>2. /\ m \in 1..Len(more)
      /\ \A i \in 1..Len(events) : i \in 1..Len(more)
      /\ \A i \in 1..Len(more) : i \in 1..Len(events) \/ i = m
      /\ \A i \in 1..Len(more) : ~(i > m)
  BY <1>1
<1> HIDE DEF more, m
<1>3. ASSUME NEW p PROVE Silent(p, more) <=> Silent(p, events) /\ p \notin ProcessesOf(event)
  BY <1>1, <1>2 DEF Silent
<1>4. ASSUME Followed(before, events), NEW p \in ProcessGuids, after[p] # Nil, ~Silent(p, more)
      PROVE  \E j \in 1..Len(more) :
               /\ after[p] \in WrittenBy(more[j])
               /\ \A i \in 1..Len(more) : i > j => p \notin ProcessesOf(more[i])
  <2>1. CASE p \in ProcessesOf(event)
    BY <1>1, <1>2, <1>4, <2>1
  <2>2. CASE p \notin ProcessesOf(event)
    <3>1. before[p] = after[p] /\ ~Silent(p, events)
      BY <1>3, <1>4, <2>2
    <3>2. PICK j \in 1..Len(events) :
            /\ before[p] \in WrittenBy(events[j])
            /\ \A i \in 1..Len(events) : i > j => p \notin ProcessesOf(events[i])
      BY <1>4, <3>1 DEF Followed
    <3>3. ASSUME NEW i \in 1..Len(more), i > j PROVE p \notin ProcessesOf(more[i])
      BY <1>1, <1>2, <2>2, <3>2, <3>3
    <3> QED
      BY <1>1, <1>2, <3>1, <3>2, <3>3
  <2> QED
    BY <2>1, <2>2
<1>5. ASSUME NEW p \in Settled(after, more)
      PROVE  p \in Settled(before, events) /\ after[p] = before[p]
  BY <1>3 DEF Settled
<1> QED
  BY <1>4, <1>5 DEF Followed, more

-----------------------------------------------------------------------------
(* DatedInv and RoutesInv are inductive *)

\* The table that Sync builds has at each key the routes of a desired LRP that
\* it has read.
LEMMA BuiltRoutes ==
  ASSUME NEW lrps \in SUBSET DesiredLRPs, NEW groups \in SUBSET ActualLRPGroups,
         NEW k \in RoutingKeys
  PROVE  LET here == Lookup(TableOf(lrps, groups), k)
         IN  \/ /\ here.modificationTag = Nil /\ here.externalEndpoints = {}
                /\ \A d \in lrps : k \notin NewRoutingKeysFromDesired(d)
             \/ \E d \in lrps : /\ k \in NewRoutingKeysFromDesired(d)
                                /\ here.externalEndpoints = NewExternalEndpoints(k, d)
                                /\ here.modificationTag = d.modificationTag
<1> DEFINE here   == Lookup(TableOf(lrps, groups), k)
           routed == Lookup(TableOfRoutes(lrps), k)
<1>1. /\ here.externalEndpoints = routed.externalEndpoints
      /\ here.modificationTag = routed.modificationTag
  BY TableOfAt
<1>2. CASE /\ TableOfRoutes(lrps)[k] = Nil
           /\ \A d \in lrps : k \notin NewRoutingKeysFromDesired(d)
  <2>1. routed = ZeroEntry
    BY <1>2 DEF Lookup
  <2> QED
    BY <1>1, <1>2, <2>1, ZeroEntryFields
<1>3. ASSUME NEW d \in lrps, k \in NewRoutingKeysFromDesired(d),
             TableOfRoutes(lrps)[k]
               = UpdatedEntry(ZeroEntry, NewExternalEndpoints(k, d), d.modificationTag)
      PROVE  /\ routed.externalEndpoints = NewExternalEndpoints(k, d)
             /\ routed.modificationTag = d.modificationTag
  <2>1. d.modificationTag \in ModificationTags
    BY DEF DesiredLRPs
  <2>2. TableOfRoutes(lrps)[k] \in RoutableEndpoints
    BY <1>3, <2>1, ZeroEntryType, NewExternalEndpointsType, UpdatedEntryType
  <2>3. routed = TableOfRoutes(lrps)[k]
    BY <2>2, NilIsNoEntry DEF Lookup
  <2> QED
    BY <1>3, <2>3, ZeroEntryType, UpdatedEntryFields
<1> HIDE DEF here, routed
<1>4. \/ /\ here.modificationTag = Nil /\ here.externalEndpoints = {}
         /\ \A d \in lrps : k \notin NewRoutingKeysFromDesired(d)
      \/ \E d \in lrps : /\ k \in NewRoutingKeysFromDesired(d)
                         /\ here.externalEndpoints = NewExternalEndpoints(k, d)
                         /\ here.modificationTag = d.modificationTag
  <2>1. CASE \E d \in lrps :
               /\ k \in NewRoutingKeysFromDesired(d)
               /\ TableOfRoutes(lrps)[k]
                    = UpdatedEntry(ZeroEntry, NewExternalEndpoints(k, d), d.modificationTag)
    BY <1>1, <1>3, <2>1
  <2>2. CASE /\ TableOfRoutes(lrps)[k] = Nil
             /\ \A d \in lrps : k \notin NewRoutingKeysFromDesired(d)
    BY <1>2, <2>2 DEF here
  <2> QED
    BY <2>1, <2>2, TableOfRoutesAt
<1> QED
  BY <1>4 DEF here

\* The table that Sync builds from dated desired LRPs is dated.
LEMMA BuiltTableIsDated ==
  ASSUME NEW lrps, NEW epochs, NEW got \in SUBSET DatedLRPs(lrps, epochs),
         NEW groups \in SUBSET ActualLRPGroups
  PROVE  TableOf(got, groups) \in DatedTables(lrps, epochs)
<1> DEFINE T == TableOf(got, groups)
<1>1. got \in SUBSET DesiredLRPs
  BY DEF DatedLRPs
<1>2. T \in Tables
  BY <1>1, TableOfAt
<1>3. ASSUME NEW k \in RoutingKeys, Lookup(T, k).modificationTag # Nil
      PROVE  Dated(lrps[k.processGuid], epochs[k.processGuid], Lookup(T, k).modificationTag,
                   HasPortsOf(Lookup(T, k), k, lrps[k.processGuid]))
  <2>1. PICK d \in got : /\ k \in NewRoutingKeysFromDesired(d)
                         /\ Lookup(T, k).externalEndpoints = NewExternalEndpoints(k, d)
                         /\ Lookup(T, k).modificationTag = d.modificationTag
    BY <1>1, <1>3, BuiltRoutes
  <2> HIDE DEF T
  <2>2. d.processGuid = k.processGuid
    BY <2>1 DEF NewRoutingKeysFromDesired
  <2>3. Dated(lrps[k.processGuid], epochs[k.processGuid], d.modificationTag,
              d = lrps[k.processGuid])
    BY <2>2 DEF DatedLRPs
  <2>4. HasPortsOf(Lookup(T, k), k, d)
    BY <2>1 DEF HasPortsOf, ContainsExternalPort
  <2> QED
    BY <2>1, <2>3, <2>4 DEF Dated
<1> QED
  BY <1>2, <1>3 DEF DatedTables

\* The desired LRPs that a fetch returns are dated, one for a process.
LEMMA FetchedLRPsAreDated ==
  ASSUME BBSTypes, DatedInv
  PROVE  /\ DesiredLRPSchedulingInfos \subseteq DatedLRPs(desired, fresh.epochs)
         /\ \A d1, d2 \in DesiredLRPSchedulingInfos :
              d1.processGuid = d2.processGuid => d1 = d2
<1>1. ASSUME NEW d \in DesiredLRPSchedulingInfos
      PROVE  /\ d \in DesiredLRPs /\ d # Nil
             /\ d.processGuid \in ProcessGuids /\ d = desired[d.processGuid]
  <2>1. PICK p \in ProcessGuids : d = desired[p] /\ d # Nil
    BY DEF DesiredLRPSchedulingInfos
  <2> QED
    BY <2>1 DEF BBSTypes
<1>2. ASSUME NEW d \in DesiredLRPSchedulingInfos
      PROVE  d \in DatedLRPs(desired, fresh.epochs)
  <2>1. d.modificationTag.epoch \notin fresh.epochs[d.processGuid]
    BY <1>1 DEF DatedInv
  <2> QED
    BY <1>1, <2>1 DEF DatedLRPs, Dated
<1> QED
  BY <1>1, <1>2

\* Every step keeps what carries a tag dated.
LEMMA DatedStep ==
  ASSUME Types, DatedInv, [Next]_vars
  PROVE  DatedInv'
<1> DEFINE DE == DatedEvents(desired, fresh.epochs)
           DT == DatedTables(desired, fresh.epochs)
<1>1. stream \in Seq(DE) /\ cachedEvents \in Seq(DE) /\ entries \in DT
  BY DEF DatedInv
<1>2. CASE BBSStep
  <2>1. BBSTypes /\ BBSNext
    BY <1>2 DEF BBSStep, Types
  <2>2. /\ entries' = entries /\ cachedEvents' = cachedEvents /\ pc' = pc
        /\ gotDesired' = gotDesired /\ tempTable' = tempTable
    BY <1>2 DEF BBSStep, handlerVars
  <2>3. /\ DatedLRPs(desired, fresh.epochs) \subseteq DatedLRPs(desired', fresh'.epochs)
        /\ DE \subseteq DatedEvents(desired', fresh'.epochs)
        /\ DT \subseteq DatedTables(desired', fresh'.epochs)
        /\ \A p \in ProcessGuids :
             desired'[p] # Nil => desired'[p].modificationTag.epoch \notin fresh'.epochs[p]
        /\ stream' \in Seq(DatedEvents(desired', fresh'.epochs))
    BY <1>1, <2>1, DatedAfterBBSStep DEF DatedInv
  <2>4. cachedEvents' \in Seq(DatedEvents(desired', fresh'.epochs))
    BY <1>1, <2>2, <2>3, SeqMonotonic
  <2> QED
    BY <1>1, <2>2, <2>3, <2>4 DEF DatedInv
<1> HIDE DEF DE, DT
<1>3. ASSUME desired' = desired, fresh' = fresh,
             stream' \in Seq(DE), cachedEvents' \in Seq(DE), entries' \in DT,
             pc' = "applyToTemp" => tempTable' \in DT,
             gotDesired' \notin {Nil, Failed} =>
               /\ gotDesired' \subseteq DatedLRPs(desired, fresh.epochs)
               /\ \A d1, d2 \in gotDesired' : d1.processGuid = d2.processGuid => d1 = d2
      PROVE  DatedInv'
  BY <1>3 DEF DatedInv, DE, DT
<1>4. /\ pc = "applyToTemp" => tempTable \in DT
      /\ gotDesired \notin {Nil, Failed} =>
           /\ gotDesired \subseteq DatedLRPs(desired, fresh.epochs)
           /\ \A d1, d2 \in gotDesired : d1.processGuid = d2.processGuid => d1 = d2
  BY DEF DatedInv, DT
<1>5. ASSUME NEW table \in DT, NEW event \in DE
      PROVE  handleEvent(table, event).entries \in DT
  BY HandlingKeepsDated DEF DE, DT
<1>6. ASSUME NEW s \in Seq(DE), s # <<>>
      PROVE  Head(s) \in DE /\ Tail(s) \in Seq(DE)
  BY <1>6, HeadTailProperties
<1>7. CASE HandleEvent
  <2>1. /\ desired' = desired /\ fresh' = fresh /\ pc' = pc /\ tempTable' = tempTable
        /\ gotDesired' = gotDesired /\ stream # <<>> /\ stream' = Tail(stream)
    BY <1>7 DEF HandleEvent
  <2>2. CASE syncing
    <3>1. cachedEvents' = Append(cachedEvents, Head(stream)) /\ entries' = entries
      BY <1>7, <2>2 DEF HandleEvent, Cache
    <3>2. cachedEvents' \in Seq(DE)
      BY <1>1, <1>6, <2>1, <3>1, AppendProperties
    <3> QED
      BY <1>1, <1>3, <1>4, <1>6, <2>1, <3>1, <3>2
  <2>3. CASE ~syncing
    <3>1. entries' = handleEvent(entries, Head(stream)).entries /\ cachedEvents' = cachedEvents
      BY <1>7, <2>3 DEF HandleEvent, HandleNow
    <3>2. entries' \in DT
      BY <1>1, <1>5, <1>6, <2>1, <3>1
    <3> QED
      BY <1>1, <1>3, <1>4, <1>6, <2>1, <3>1, <3>2
  <2> QED
    BY <2>2, <2>3
<1>8. CASE BeginSync
  <2>1. /\ desired' = desired /\ fresh' = fresh /\ stream' = stream /\ cachedEvents' = <<>>
        /\ entries' = entries /\ pc' = "fetching" /\ gotDesired' = Nil
    BY <1>8 DEF BeginSync, bbsVars
  <2> QED
    BY <1>1, <1>3, <2>1, EmptySeq
<1>9. CASE FetchActualLRPs
  <2>1. /\ desired' = desired /\ fresh' = fresh /\ stream' = stream
        /\ cachedEvents' = cachedEvents /\ entries' = entries /\ pc' = pc
        /\ tempTable' = tempTable /\ gotDesired' = gotDesired
    BY <1>9 DEF FetchActualLRPs, bbsVars
  <2> QED
    BY <1>1, <1>3, <1>4, <2>1
<1>10. CASE FetchDesiredLRPs
  <2>1. /\ desired' = desired /\ fresh' = fresh /\ stream' = stream
        /\ cachedEvents' = cachedEvents /\ entries' = entries /\ pc' = pc
        /\ tempTable' = tempTable
        /\ gotDesired' \in {DesiredLRPSchedulingInfos, Failed}
    BY <1>10 DEF FetchDesiredLRPs, bbsVars
  <2>2. /\ DesiredLRPSchedulingInfos \subseteq DatedLRPs(desired, fresh.epochs)
        /\ \A d1, d2 \in DesiredLRPSchedulingInfos :
             d1.processGuid = d2.processGuid => d1 = d2
    BY FetchedLRPsAreDated DEF Types
  <2> QED
    BY <1>1, <1>3, <1>4, <2>1, <2>2
<1>11. CASE BuildTable
  <2>1. /\ desired' = desired /\ fresh' = fresh /\ stream' = stream
        /\ cachedEvents' = cachedEvents /\ entries' = entries /\ gotDesired' = gotDesired
        /\ gotDesired # Nil /\ gotActual # Nil
    BY <1>11 DEF BuildTable, bbsVars
  <2>2. ASSUME pc' = "applyToTemp" PROVE tempTable' \in DT
    <3>1. gotActual # Failed /\ gotDesired # Failed /\ tempTable' = TableOf(gotDesired, gotActual)
      BY <1>11, <2>2 DEF BuildTable
    <3>2. gotActual \in SUBSET ActualLRPGroups
      BY <2>1, <3>1 DEF Types, TypeOK
    <3> QED
      BY <1>4, <2>1, <3>1, <3>2, BuiltTableIsDated DEF DT
  <2> QED
    BY <1>1, <1>3, <1>4, <2>1, <2>2
<1>12. CASE ApplyCachedEvent
  <2>1. /\ desired' = desired /\ fresh' = fresh /\ stream' = stream /\ pc' = pc
        /\ cachedEvents # <<>> /\ cachedEvents' = Tail(cachedEvents) /\ gotDesired' = gotDesired
    BY <1>12 DEF ApplyCachedEvent, bbsVars
  <2>2. CASE /\ pc = "applyToCurrent"
             /\ HandleNow(Head(cachedEvents))
             /\ UNCHANGED tempTable
    <3>1. entries' \in DT
      BY <1>1, <1>5, <1>6, <2>1, <2>2 DEF HandleNow
    <3> QED
      BY <1>1, <1>3, <1>4, <1>6, <2>1, <2>2, <3>1
  <2>3. CASE /\ pc = "applyToTemp"
             /\ tempTable' = handleEvent(tempTable, Head(cachedEvents)).entries
             /\ UNCHANGED <<entries, routes, upserted>>
    <3>1. tempTable' \in DT
      BY <1>1, <1>4, <1>5, <1>6, <2>1, <2>3
    <3> QED
      BY <1>1, <1>3, <1>4, <1>6, <2>1, <2>3, <3>1
  <2> QED
    BY <1>12, <2>2, <2>3 DEF ApplyCachedEvent
<1>13. CASE EndSync
  <2>1. /\ desired' = desired /\ fresh' = fresh /\ stream' = stream /\ pc' = "idle"
        /\ cachedEvents' = cachedEvents /\ gotDesired' = Nil
    BY <1>13 DEF EndSync, SyncCompleted, bbsVars
  <2>2. entries' \in DT
    BY <1>1, <1>4, <1>13 DEF EndSync, SwapAndEmit, Swap
  <2> QED
    BY <1>1, <1>3, <2>1, <2>2
<1>14. CASE LoseEvents
  <2>1. /\ desired' = desired /\ fresh' = fresh /\ stream' = <<>> /\ pc' = pc
        /\ cachedEvents' = cachedEvents /\ entries' = entries
        /\ tempTable' = tempTable /\ gotDesired' = gotDesired
    BY <1>14 DEF LoseEvents, handlerVars
  <2> QED
    BY <1>1, <1>3, <1>4, <2>1, EmptySeq
<1>15. NewTable \in DT
  <2>1. NewTable \in Tables /\ \A k \in RoutingKeys : Lookup(NewTable, k) = ZeroEntry
    BY DEF NewTable, Tables, Lookup
  <2> QED
    BY <2>1, ZeroEntryFields DEF DT, DatedTables
<1>16. CASE FailOver
  <2>1. /\ desired' = desired /\ fresh' = fresh /\ stream' = <<>> /\ pc' = "idle"
        /\ cachedEvents' = <<>> /\ entries' = NewTable /\ gotDesired' = Nil
    BY <1>16 DEF FailOver
  <2> QED
    BY <1>3, <1>15, <2>1, EmptySeq
<1>17. CASE Stabilize \/ (\E m \in routes \ upserted : Expire(m)) \/ UNCHANGED vars
  <2>1. /\ desired' = desired /\ fresh' = fresh /\ stream' = stream /\ pc' = pc
        /\ cachedEvents' = cachedEvents /\ entries' = entries
        /\ tempTable' = tempTable /\ gotDesired' = gotDesired
    BY <1>17 DEF Stabilize, Expire, vars, bbsVars, handlerVars
  <2> QED
    BY <1>1, <1>3, <1>4, <2>1
<1> QED
  BY <1>2, <1>7, <1>8, <1>9, <1>10, <1>11, <1>12, <1>13, <1>14, <1>16, <1>17
     DEF Next, SyncStep, Environment

\* With no events on their way, none is about any process.
LEMMA FollowedNothing ==
  ASSUME NEW lrps
  PROVE  Followed(lrps, <<>>) /\ \A p : Silent(p, <<>>)
<1>1. 1..Len(<<>>) = {}
  BY EmptySeq
<1> QED
  BY <1>1 DEF Followed, Silent

\* handler.HandleEvent keeps the invariant.
LEMMA HandleEventRoutesInv ==
  ASSUME Types, DatedInv, RoutesInv, HandleEvent
  PROVE  RoutesInv'
<1>1. /\ stream \in Seq(Events) /\ stream # <<>> /\ stream' = Tail(stream)
      /\ cachedEvents \in Seq(Events)
      /\ desired' = desired /\ pc' = pc /\ tracking' = tracking /\ gotDesired' = gotDesired
      /\ tempTable' = tempTable
      /\ pc \in {"idle", "fetching"} /\ syncing = (pc # "idle")
  BY DEF HandleEvent, Types, TypeOK, BBSTypes
<1>2. /\ desired \in [ProcessGuids -> DesiredLRPs \cup {Nil}]
      /\ \A p \in ProcessGuids : desired[p] # Nil => desired[p].processGuid = p
  BY DEF Types, BBSTypes
<1>3. Followed(desired, Tail(stream))
  BY <1>1, <1>2, FollowedInTail DEF RoutesInv
<1>4. CASE syncing
  <2>1. cachedEvents' = Append(cachedEvents, Head(stream)) /\ entries' = entries
    BY <1>4 DEF HandleEvent, Cache
  <2>2. Pending' = Pending
    BY <1>1, <2>1, PendingEvents DEF Pending
  <2> QED
    BY <1>1, <1>3, <2>1, <2>2 DEF RoutesInv
<1>5. CASE ~syncing
  <2>1. pc = "idle" /\ cachedEvents = <<>> /\ cachedEvents' = <<>>
    BY <1>1, <1>5 DEF HandleEvent, Types
  <2>2. entries' = handleEvent(entries, Head(stream)).entries
    BY <1>5 DEF HandleEvent, HandleNow
  <2>3. Tail(stream) \in Seq(Events)
    BY <1>1, HeadTailProperties
  <2>4. Pending = stream /\ Pending' = Tail(stream)
    BY <1>1, <2>1, <2>3, ConcatEmptySeq DEF Pending
  <2>5. tracking = "tracking" => RoutesPresent(desired, entries', Tail(stream))
    BY <1>1, <1>2, <2>1, <2>2, <2>4, HandlingKeepsRoutes DEF RoutesInv, DatedInv
  <2> QED
    BY <1>1, <1>3, <2>1, <2>4, <2>5 DEF RoutesInv
<1> QED
  BY <1>4, <1>5

\* One turn of applyCachedEvents keeps the invariant.
LEMMA ApplyCachedEventRoutesInv ==
  ASSUME Types, DatedInv, RoutesInv, ApplyCachedEvent
  PROVE  RoutesInv'
<1>1. /\ stream \in Seq(Events) /\ stream' = stream
      /\ cachedEvents \in Seq(Events) /\ cachedEvents # <<>>
      /\ cachedEvents' = Tail(cachedEvents)
      /\ desired' = desired /\ pc' = pc /\ tracking' = tracking
      /\ pc \in {"applyToCurrent", "applyToTemp"}
  BY DEF ApplyCachedEvent, Types, TypeOK, BBSTypes, bbsVars
<1>2. /\ desired \in [ProcessGuids -> DesiredLRPs \cup {Nil}]
      /\ \A p \in ProcessGuids : desired[p] # Nil => desired[p].processGuid = p
  BY DEF Types, BBSTypes
<1>3. /\ Pending \in Seq(Events) /\ Pending # <<>>
      /\ Head(Pending) = Head(cachedEvents)
      /\ Pending' = Tail(Pending)
  BY <1>1, PendingEvents DEF Pending
<1>4. tracking # "lost" => Followed(desired, Pending')
  BY <1>2, <1>3, FollowedInTail DEF RoutesInv
<1>5. CASE pc = "applyToCurrent"
  <2>1. entries' = handleEvent(entries, Head(Pending)).entries
    BY <1>3, <1>5 DEF ApplyCachedEvent, HandleNow
  <2>2. tracking = "tracking" => RoutesPresent(desired, entries', Pending')
    BY <1>1, <1>2, <1>3, <1>5, <2>1, HandlingKeepsRoutes DEF RoutesInv, DatedInv
  <2> QED
    BY <1>1, <1>4, <1>5, <2>2 DEF RoutesInv
<1>6. CASE pc = "applyToTemp"
  <2>1. tempTable' = handleEvent(tempTable, Head(Pending)).entries
    BY <1>3, <1>6 DEF ApplyCachedEvent
  <2>2. tracking # "lost" => RoutesPresent(desired, tempTable', Pending')
    BY <1>1, <1>2, <1>3, <1>6, <2>1, HandlingKeepsRoutes DEF RoutesInv, DatedInv
  <2> QED
    BY <1>1, <1>4, <1>6, <2>2 DEF RoutesInv
<1> QED
  BY <1>1, <1>5, <1>6

\* A change of the BBS keeps the invariant.
LEMMA BBSStepRoutesInv ==
  ASSUME Types, DatedInv, RoutesInv, BBSStep
  PROVE  RoutesInv'
<1>1. /\ stream \in Seq(Events) /\ cachedEvents \in Seq(Events)
      /\ entries' = entries /\ cachedEvents' = cachedEvents /\ pc' = pc
      /\ gotDesired' = gotDesired /\ tempTable' = tempTable /\ tracking' = tracking
  BY DEF BBSStep, Types, BBSTypes, handlerVars
<1>2. PICK event \in Events :
        /\ stream' = Append(stream, event)
        /\ \A p \in ProcessGuids :
             IF p \notin ProcessesOf(event) THEN desired'[p] = desired[p]
             ELSE desired'[p] # Nil => desired'[p] \in WrittenBy(event)
  BY ChangeWrites DEF BBSStep, Types, DatedInv
<1>3. Pending \in Seq(Events) /\ Pending' = Append(Pending, event)
  BY <1>1, <1>2, PendingEvents DEF Pending
<1>4. Followed(desired', stream')
  BY <1>1, <1>2, FollowedAfterChange DEF RoutesInv
<1>5. /\ Followed(desired, Pending) => Followed(desired', Pending')
      /\ \A p \in Settled(desired', Pending') :
           p \in Settled(desired, Pending) /\ desired'[p] = desired[p]
  BY <1>2, <1>3, FollowedAfterChange
<1>6. ASSUME NEW table, RoutesPresent(desired, table, Pending)
      PROVE  RoutesPresent(desired', table, Pending')
  BY <1>5, <1>6 DEF RoutesPresent
<1> QED
  BY <1>1, <1>4, <1>5, <1>6 DEF RoutesInv

\* The table that Sync builds has the routes of the settled processes.
LEMMA BuildTableRoutesInv ==
  ASSUME Types, DatedInv, RoutesInv, BuildTable
  PROVE  RoutesInv'
<1>1. /\ desired' = desired /\ stream' = stream /\ cachedEvents' = cachedEvents
      /\ entries' = entries /\ tracking' = tracking /\ gotDesired' = gotDesired
      /\ pc = "fetching" /\ pc' \in {"applyToCurrent", "applyToTemp"}
      /\ gotActual # Nil /\ gotDesired # Nil
  BY DEF BuildTable, bbsVars
<1>2. Pending' = Pending
  BY <1>1 DEF Pending
<1>3. ASSUME pc' = "applyToTemp", tracking # "lost"
      PROVE  RoutesPresent(desired, tempTable', Pending)
  <2>1. gotActual # Failed /\ gotDesired # Failed /\ tempTable' = TableOf(gotDesired, gotActual)
    BY <1>3 DEF BuildTable
  <2>2. gotActual \in SUBSET ActualLRPGroups /\ gotDesired \in SUBSET DesiredLRPs
    BY <1>1, <2>1 DEF Types, TypeOK
  <2>3. ASSUME NEW p \in Settled(desired, Pending), NEW k \in NewRoutingKeysFromDesired(desired[p])
        PROVE  HasPortsOf(Lookup(tempTable', k), k, desired[p])
    <3>1. desired[p] \in gotDesired
      BY <1>1, <1>3, <2>1 DEF RoutesInv
    <3>2. k \in RoutingKeys /\ k.processGuid = desired[p].processGuid
      BY DEF NewRoutingKeysFromDesired
    <3>3. PICK d \in gotDesired :
            /\ k \in NewRoutingKeysFromDesired(d)
            /\ Lookup(tempTable', k).externalEndpoints = NewExternalEndpoints(k, d)
      BY <2>1, <2>2, <3>1, <3>2, BuiltRoutes
    <3>4. d.processGuid = k.processGuid
      BY <3>3 DEF NewRoutingKeysFromDesired
    <3>5. d = desired[p]
      BY <1>1, <2>1, <3>1, <3>2, <3>3, <3>4 DEF DatedInv
    <3> QED
      BY <3>3, <3>5 DEF HasPortsOf, ContainsExternalPort
  <2> QED
    BY <2>3 DEF RoutesPresent
<1> QED
  BY <1>1, <1>2, <1>3 DEF RoutesInv

\* Every step keeps the invariant.
LEMMA RoutesStep ==
  ASSUME Types, DatedInv, RoutesInv, [Next]_vars
  PROVE  RoutesInv'
<1>1. ASSUME stream' = stream, cachedEvents' = cachedEvents PROVE Pending' = Pending
  BY <1>1 DEF Pending
<1>2. CASE BeginSync
  <2>1. /\ desired' = desired /\ stream' = stream /\ cachedEvents' = cachedEvents
        /\ entries' = entries /\ pc = "idle" /\ pc' = "fetching" /\ gotDesired' = Nil
        /\ tracking' = "tracking" => tracking = "tracking"
        /\ cachedEvents = <<>> /\ stream \in Seq(Events)
    BY <1>2 DEF BeginSync, Types, TypeOK, BBSTypes, bbsVars
  <2>2. Pending = stream
    BY <2>1, ConcatEmptySeq DEF Pending
  <2> QED
    BY <1>1, <2>1, <2>2 DEF RoutesInv
<1>3. CASE FetchActualLRPs
  <2>1. /\ desired' = desired /\ stream' = stream /\ cachedEvents' = cachedEvents
        /\ entries' = entries /\ pc' = pc /\ tracking' = tracking /\ gotDesired' = gotDesired
        /\ tempTable' = tempTable
    BY <1>3 DEF FetchActualLRPs, bbsVars
  <2> QED
    BY <1>1, <2>1 DEF RoutesInv
<1>4. CASE FetchDesiredLRPs
  <2>1. /\ desired' = desired /\ stream' = stream /\ cachedEvents' = cachedEvents
        /\ entries' = entries /\ pc' = pc /\ tracking' = tracking /\ pc = "fetching"
        /\ gotDesired' \in {DesiredLRPSchedulingInfos, Failed}
    BY <1>4 DEF FetchDesiredLRPs, bbsVars
  <2>2. \A p \in Settled(desired, Pending) : desired[p] \in DesiredLRPSchedulingInfos
    BY DEF Settled, DesiredLRPSchedulingInfos
  <2> QED
    BY <1>1, <2>1, <2>2 DEF RoutesInv
<1>5. CASE EndSync
  <2>1. /\ desired' = desired /\ stream' = stream /\ cachedEvents' = cachedEvents /\ pc' = "idle"
    BY <1>5 DEF EndSync, SyncCompleted, bbsVars
  <2>2. CASE pc = "applyToCurrent"
    <3>1. /\ entries' = entries /\ (tracking' = "tracking" => tracking = "tracking")
          /\ (tracking' # "lost" => tracking # "lost")
      BY <1>5, <2>2 DEF EndSync
    <3> QED
      BY <1>1, <2>1, <2>2, <3>1 DEF RoutesInv
  <2>3. CASE pc = "applyToTemp"
    <3>1. entries' = tempTable /\ (tracking' # "lost" => tracking # "lost")
      BY <1>5, <2>3 DEF EndSync, SwapAndEmit, Swap
    <3> QED
      BY <1>1, <2>1, <2>3, <3>1 DEF RoutesInv
  <2> QED
    BY <1>5, <2>2, <2>3 DEF EndSync
<1>6. CASE LoseEvents \/ FailOver
  <2>1. stream' = <<>> /\ tracking' = "lost"
    BY <1>6 DEF LoseEvents, FailOver
  <2> QED
    BY <2>1, FollowedNothing DEF RoutesInv
<1>7. CASE Stabilize \/ (\E m \in routes \ upserted : Expire(m)) \/ UNCHANGED vars
  <2>1. /\ desired' = desired /\ stream' = stream /\ cachedEvents' = cachedEvents
        /\ entries' = entries /\ pc' = pc /\ tracking' = tracking /\ gotDesired' = gotDesired
        /\ tempTable' = tempTable
    BY <1>7 DEF Stabilize, Expire, vars, bbsVars, handlerVars
  <2> QED
    BY <1>1, <2>1 DEF RoutesInv
<1> QED
  BY <1>2, <1>3, <1>4, <1>5, <1>6, <1>7, HandleEventRoutesInv, ApplyCachedEventRoutesInv,
     BBSStepRoutesInv, BuildTableRoutesInv DEF Next, SyncStep, Environment

\* The invariants hold of an emitter that starts.
LEMMA RoutesInit == Init => DatedInv /\ RoutesInv
<1> SUFFICES ASSUME Init PROVE DatedInv /\ RoutesInv
  OBVIOUS
<1>1. \A p \in ProcessGuids :
        desired[p] # Nil => desired[p].modificationTag.epoch \notin fresh.epochs[p]
  BY DEF Init, BBSInit
<1>2. NewTable \in DatedTables(desired, fresh.epochs)
  <2>1. NewTable \in Tables /\ \A k \in RoutingKeys : Lookup(NewTable, k) = ZeroEntry
    BY DEF NewTable, Tables, Lookup
  <2> QED
    BY <2>1, ZeroEntryFields DEF DatedTables
<1>3. /\ stream = <<>> /\ cachedEvents = <<>> /\ entries = NewTable /\ pc = "idle"
      /\ gotDesired = Nil /\ tracking = "lost"
  BY DEF Init, BBSInit
<1> QED
  BY <1>1, <1>2, <1>3, EmptySeq, FollowedNothing DEF DatedInv, RoutesInv

\* With nothing pending, all desired processes are settled.
LEMMA RoutesInvImplies ==
  ASSUME Types, RoutesInv
  PROVE  DesiredRoutesArePresent
<1> SUFFICES ASSUME CaughtUp, NEW d \in DesiredLRPSchedulingInfos, NEW r \in d.routes
             PROVE  ContainsExternalPort(
                      Lookup(entries, [processGuid   |-> d.processGuid,
                                       containerPort |-> r.containerPort]).externalEndpoints,
                      r.external.port)
  BY DEF DesiredRoutesArePresent
<1>1. pc = "idle" /\ tracking = "tracking" /\ cachedEvents = <<>> /\ stream = <<>>
  BY DEF CaughtUp, Types
<1>2. Pending = <<>>
  BY <1>1, EmptySeq, ConcatEmptySeq DEF Pending
<1>3. PICK p \in ProcessGuids : d = desired[p] /\ d # Nil
  BY DEF DesiredLRPSchedulingInfos
<1>4. p \in Settled(desired, Pending)
  BY <1>2, <1>3, FollowedNothing DEF Settled
<1>5. d \in DesiredLRPs /\ r \in TCPRoutes
  BY <1>3 DEF Types, BBSTypes, DesiredLRPs
<1> DEFINE k == [processGuid |-> d.processGuid, containerPort |-> r.containerPort]
<1>6. k \in NewRoutingKeysFromDesired(d) /\ r.external \in NewExternalEndpoints(k, d)
  BY <1>5 DEF NewRoutingKeysFromDesired, NewExternalEndpoints, RoutingKeys, DesiredLRPs, TCPRoutes
<1> HIDE DEF k
<1>7. HasPortsOf(Lookup(entries, k), k, d)
  BY <1>1, <1>3, <1>4, <1>6 DEF RoutesInv, RoutesPresent
<1>8. ContainsExternalPort(Lookup(entries, k).externalEndpoints, r.external.port)
  BY <1>6, <1>7 DEF HasPortsOf
<1> QED
  BY <1>8 DEF k

\* Once the handler has caught up, no route that the BBS desires is missing
\* from its table: no order in which updates and removals of the process arrive
\* before, during or after a sync makes the tags turn its last word away.
THEOREM HandlerDesiredRoutesArePresent == Spec => []DesiredRoutesArePresent
<1>1. Spec => [](Types /\ DatedInv /\ RoutesInv)
  BY TypesInit, TypesStep, RoutesInit, DatedStep, RoutesStep, PTL DEF Spec
<1> QED
  BY <1>1, RoutesInvImplies, PTL


-----------------------------------------------------------------------------
(* Syncs keep what stays wanted *)

\* What the routing API is told to delete belongs to no mapping that is still
\* wanted elsewhere: while a sync fetches, an external port of the table is
\* desired by the routing key that has it alone, and no two ports are the same
\* sixteen bits.
PortsHaveOneOwner ==
  pc = "fetching" =>
    \A k \in RoutingKeys : \A x \in Lookup(entries, k).externalEndpoints :
      \A d \in DesiredLRPSchedulingInfos : \A r \in d.routes :
        (/\ r.external.routerGroupGuid = x.routerGroupGuid
         /\ r.external.port = Uint16(x.port))
        => /\ d.processGuid = k.processGuid
           /\ r.containerPort = k.containerPort
           /\ r.external.port = x.port

\* The external ports of the table at k that steady mappings go by.
SteadyPorts(k) ==
  {x.port : x \in {y \in Lookup(entries, k).externalEndpoints :
                     \E m \in steady : /\ m.routerGroupGuid = y.routerGroupGuid
                                       /\ m.port = Uint16(y.port)}}

KeepsSteadyPorts(table) ==
  \A k \in RoutingKeys : \A port \in SteadyPorts(k) :
    ContainsExternalPort(Lookup(table, k).externalEndpoints, port)

\* A serial sync has no cached events, and from the desired LRPs it fetched to
\* the table it swaps in it has every port that has been wanted all along.
SteadyInv ==
  /\ cachedEvents = <<>>
  /\ pc = "idle" => gotDesired = Nil /\ steady = {}
  /\ steady \subseteq Wanted
  /\ gotDesired \notin {Nil, Failed} => KeepsSteadyPorts(TableOfRoutes(gotDesired))
  /\ pc = "applyToTemp" => KeepsSteadyPorts(tempTable)

\* A wanted mapping goes by the external port of a desired route.
LEMMA WantedByARoute ==
  ASSUME NEW m \in Wanted
  PROVE  \E d \in DesiredLRPSchedulingInfos : \E r \in d.routes :
           /\ m.routerGroupGuid = r.external.routerGroupGuid
           /\ m.port = r.external.port
<1>1. PICK d \in DesiredLRPSchedulingInfos, g \in ActualLRPGroupList :
        m \in {MappingOf(r, g) : r \in {s \in d.routes : CallForMapping(d, s, g)}}
  BY DEF Wanted
<1>2. PICK r \in d.routes : m = MappingOf(r, g)
  BY <1>1
<1> QED
  BY <1>2 DEF MappingOf

\* The BBS has one desired LRP for each process guid.
LEMMA OneLRPForAProcess ==
  ASSUME Types, NEW d \in DesiredLRPSchedulingInfos, NEW e \in DesiredLRPSchedulingInfos,
         d.processGuid = e.processGuid
  PROVE  d = e
BY DEF Types, BBSTypes, DesiredLRPSchedulingInfos

\* The BBS desires what steady mappings go by, at the key where the table has
\* it.
SteadyPortsAreDesired ==
  pc = "fetching" => \A k \in RoutingKeys : \A port \in SteadyPorts(k) :
    /\ desired[k.processGuid] # Nil
    /\ k \in NewRoutingKeysFromDesired(desired[k.processGuid])
    /\ ContainsExternalPort(NewExternalEndpoints(k, desired[k.processGuid]), port)

\* A port of the table that a steady mapping goes by is one that the BBS desires.
LEMMA SteadyPortIsDesired ==
  ASSUME Types, steady \subseteq Wanted, PortsHaveOneOwner
  PROVE  SteadyPortsAreDesired
<1> SUFFICES ASSUME pc = "fetching", NEW k \in RoutingKeys, NEW port \in SteadyPorts(k)
             PROVE  /\ desired[k.processGuid] # Nil
                    /\ k \in NewRoutingKeysFromDesired(desired[k.processGuid])
                    /\ ContainsExternalPort(NewExternalEndpoints(k, desired[k.processGuid]), port)
  BY DEF SteadyPortsAreDesired
<1>1. PICK x \in Lookup(entries, k).externalEndpoints, m \in steady :
        x.port = port /\ m.routerGroupGuid = x.routerGroupGuid /\ m.port = Uint16(x.port)
  BY DEF SteadyPorts
<1>2. PICK d \in DesiredLRPSchedulingInfos : \E r \in d.routes :
        m.routerGroupGuid = r.external.routerGroupGuid /\ m.port = r.external.port
  BY <1>1, WantedByARoute
<1>3. PICK r \in d.routes :
        m.routerGroupGuid = r.external.routerGroupGuid /\ m.port = r.external.port
  BY <1>2
<1>4. d.processGuid = k.processGuid /\ r.containerPort = k.containerPort /\ r.external.port = port
  <2>1. r.external.routerGroupGuid = x.routerGroupGuid /\ r.external.port = Uint16(x.port)
    BY <1>1, <1>3
  <2>2. \A e \in DesiredLRPSchedulingInfos : \A s \in e.routes :
          (/\ s.external.routerGroupGuid = x.routerGroupGuid
           /\ s.external.port = Uint16(x.port))
          => /\ e.processGuid = k.processGuid
             /\ s.containerPort = k.containerPort
             /\ s.external.port = x.port
    BY <1>1, Zenon DEF PortsHaveOneOwner
  <2> QED
    BY <1>1, <1>3, <2>1, <2>2
<1>5. k \in NewRoutingKeysFromDesired(d) /\ r.external \in NewExternalEndpoints(k, d)
  BY <1>3, <1>4 DEF NewRoutingKeysFromDesired, NewExternalEndpoints, RoutingKeys
<1>6. d # Nil /\ d = desired[k.processGuid]
  BY <1>4 DEF Types, BBSTypes, DesiredLRPSchedulingInfos
<1> QED
  BY <1>4, <1>5, <1>6 DEF ContainsExternalPort

\* What a sync that fetches the desired LRPs now has at a key that they route.
LEMMA FetchedRoutesAt ==
  ASSUME Types, NEW k \in RoutingKeys,
         desired[k.processGuid] # Nil,
         k \in NewRoutingKeysFromDesired(desired[k.processGuid])
  PROVE  LET here == Lookup(TableOfRoutes(DesiredLRPSchedulingInfos), k)
         IN  /\ here.externalEndpoints = NewExternalEndpoints(k, desired[k.processGuid])
             /\ here.modificationTag = desired[k.processGuid].modificationTag
<1> DEFINE lrps == DesiredLRPSchedulingInfos
<1>1. lrps \in SUBSET DesiredLRPs
  BY AnswerTypes DEF Types
<1>2. desired[k.processGuid] \in lrps
  BY DEF DesiredLRPSchedulingInfos, RoutingKeys
<1> HIDE DEF lrps
<1>3. PICK e \in lrps : /\ k \in NewRoutingKeysFromDesired(e)
                        /\ Lookup(TableOf(lrps, {}), k).externalEndpoints = NewExternalEndpoints(k, e)
                        /\ Lookup(TableOf(lrps, {}), k).modificationTag = e.modificationTag
  BY <1>1, <1>2, BuiltRoutes
<1>4. e.processGuid = k.processGuid /\ desired[k.processGuid].processGuid = k.processGuid
  BY <1>3 DEF NewRoutingKeysFromDesired
<1>5. e = desired[k.processGuid]
  BY <1>2, <1>3, <1>4, OneLRPForAProcess DEF lrps
<1>6. /\ Lookup(TableOfRoutes(lrps), k).externalEndpoints
           = Lookup(TableOf(lrps, {}), k).externalEndpoints
      /\ Lookup(TableOfRoutes(lrps), k).modificationTag
           = Lookup(TableOf(lrps, {}), k).modificationTag
  BY <1>1, TableOfAt
<1> QED
  BY <1>3, <1>5, <1>6 DEF lrps

\* So the desired LRPs that a sync fetches have it.
LEMMA FetchedRoutesKeepSteadyPorts ==
  ASSUME Types, steady \subseteq Wanted, PortsHaveOneOwner, pc = "fetching"
  PROVE  KeepsSteadyPorts(TableOfRoutes(DesiredLRPSchedulingInfos))
<1> SUFFICES ASSUME NEW k \in RoutingKeys, NEW port \in SteadyPorts(k)
             PROVE  ContainsExternalPort(
                      Lookup(TableOfRoutes(DesiredLRPSchedulingInfos), k).externalEndpoints, port)
  BY DEF KeepsSteadyPorts
<1>1. /\ desired[k.processGuid] # Nil
      /\ k \in NewRoutingKeysFromDesired(desired[k.processGuid])
      /\ ContainsExternalPort(NewExternalEndpoints(k, desired[k.processGuid]), port)
  BY SteadyPortIsDesired DEF SteadyPortsAreDesired
<1> QED
  BY <1>1, FetchedRoutesAt

\* A swap deletes no mapping that goes by a port the new table keeps.
LEMMA SwapDeletesNoSteadyMapping ==
  ASSUME NEW m \in steady, KeepsSteadyPorts(tempTable)
  PROVE  m \notin ToMappingRequests(Swap(entries, tempTable).events).deletes
<1> SUFFICES ASSUME m \in ToMappingRequests(Swap(entries, tempTable).events).deletes
             PROVE  FALSE
  OBVIOUS
<1>1. PICK e \in Swap(entries, tempTable).events :
        e.eventType = Unregistration /\ m \in mapRoutingEvent(e)
  BY DEF ToMappingRequests, buildMappingRequests
<1>2. PICK k \in RoutingKeys : e \in SwapEvents(entries, tempTable, k)
  BY <1>1 DEF Swap
<1>3. PICK x \in e.entry.externalEndpoints :
        m.routerGroupGuid = x.routerGroupGuid /\ m.port = Uint16(x.port)
  BY <1>1 DEF mapRoutingEvent
<1>4. ASSUME x \in Lookup(entries, k).externalEndpoints
      PROVE  ContainsExternalPort(Lookup(tempTable, k).externalEndpoints, x.port)
  <2>1. x.port \in SteadyPorts(k)
    BY <1>3, <1>4 DEF SteadyPorts
  <2> QED
    BY <2>1 DEF KeepsSteadyPorts
<1>5. CASE tempTable[k] # Nil
  <2> DEFINE removed == RemoveExternalEndpoints(Lookup(entries, k), tempTable[k].externalEndpoints)
  <2>1. e.entry = removed
    BY <1>1, <1>2, <1>5 DEF SwapEvents, createRoutingEvent, Registration, Unregistration
  <2>2. /\ x \in Lookup(entries, k).externalEndpoints
        /\ ~ContainsExternalPort(tempTable[k].externalEndpoints, x.port)
    BY <1>3, <2>1 DEF RemoveExternalEndpoints, Remove
  <2> QED
    BY <1>4, <1>5, <2>2 DEF Lookup
<1>6. CASE tempTable[k] = Nil
  <2>1. e.entry = Lookup(entries, k)
    BY <1>2, <1>6 DEF SwapEvents, createRoutingEvent
  <2>2. Lookup(tempTable, k).externalEndpoints = {}
    BY <1>6, ZeroEntryFields DEF Lookup
  <2> QED
    BY <1>3, <1>4, <2>1, <2>2 DEF ContainsExternalPort
<1> QED
  BY <1>5, <1>6

\* An Emit takes down only what its events ask it to.
LEMMA EmitDeletesWhatIsAsked ==
  ASSUME NEW kept, NEW events, emit(kept, events)
  PROVE  routes \ ToMappingRequests(events).deletes \subseteq routes'
<1>1. routes' \in EmitOutcomes(routes, events)
  BY DEF emit
<1> DEFINE batch == ToMappingRequests(events)
<1> HIDE DEF batch
<1>2. CASE routes' = routes
  BY <1>2
<1>3. CASE routes' = Applied(routes, batch)
  BY <1>3 DEF Applied, batch
<1>4. CASE routes' \in Outcomes(routes, batch)
  BY <1>4 DEF Outcomes, UpsertEffects, DeleteEffects, batch
<1> QED
  BY <1>1, <1>2, <1>3, <1>4 DEF EmitOutcomes, batch

\* As long as the table stays, a mapping less that is steady is no port more.
LEMMA FewerSteadyPorts ==
  ASSUME entries' = entries, steady' \subseteq steady
  PROVE  \A k \in RoutingKeys : SteadyPorts(k)' \subseteq SteadyPorts(k)
BY DEF SteadyPorts

\* A step that leaves the table, the desired LRPs fetched and the table built
\* alone keeps the ports that they keep.
LEMMA SteadyPortsStayKept ==
  ASSUME SteadyInv, entries' = entries, steady' \subseteq steady,
         gotDesired' = gotDesired, tempTable' = tempTable, pc' = pc
  PROVE  /\ (gotDesired \notin {Nil, Failed} => KeepsSteadyPorts(TableOfRoutes(gotDesired)))'
         /\ (pc = "applyToTemp" => KeepsSteadyPorts(tempTable))'
<1>1. ASSUME gotDesired \notin {Nil, Failed}
      PROVE  KeepsSteadyPorts(TableOfRoutes(gotDesired))'
  <2>1. KeepsSteadyPorts(TableOfRoutes(gotDesired))
    BY <1>1 DEF SteadyInv
  <2>2. TableOfRoutes(gotDesired)' = TableOfRoutes(gotDesired)
    OBVIOUS
  <2> QED
    BY <2>1, <2>2, FewerSteadyPorts DEF KeepsSteadyPorts
<1>2. ASSUME pc = "applyToTemp"
      PROVE  KeepsSteadyPorts(tempTable)'
  BY <1>2, FewerSteadyPorts DEF SteadyInv, KeepsSteadyPorts
<1> QED
  BY <1>1, <1>2

\* Wanted depends on what the BBS stores alone.
LEMMA WantedUnchanged ==
  ASSUME desired' = desired, actual' = actual
  PROVE  Wanted' = Wanted
BY DEF Wanted, DesiredLRPSchedulingInfos, ActualLRPGroupList, CallForMapping, MappingOf


\* What the steps of a serial handler keep.
LEMMA SteadyStep ==
  ASSUME Types, SteadyInv, PortsHaveOneOwner, [SerialNext]_vars
  PROVE  SteadyInv'
<1>1. CASE /\ entries' = entries /\ gotDesired' = gotDesired /\ tempTable' = tempTable
           /\ pc' = pc /\ cachedEvents' = cachedEvents
           /\ steady' \subseteq steady /\ steady' \subseteq Wanted'
  BY <1>1, SteadyPortsStayKept DEF SteadyInv
<1>2. CASE pc = "idle" /\ HandleEvent
  <2>1. ~syncing /\ gotDesired' = gotDesired /\ pc' = pc /\ steady' = steady
    BY <1>2 DEF HandleEvent, Types, TypeOK
  <2>2. cachedEvents' = cachedEvents /\ desired' = desired /\ actual' = actual
    BY <1>2, <2>1 DEF HandleEvent
  <2> QED
    BY <1>2, <2>1, <2>2, WantedUnchanged DEF SteadyInv
<1>3. CASE BeginSync
  BY <1>3, WantedUnchanged DEF BeginSync, SteadyInv, bbsVars
<1>4. CASE FetchActualLRPs
  BY <1>1, <1>4, WantedUnchanged DEF FetchActualLRPs, SteadyInv, bbsVars
<1>5. CASE FetchDesiredLRPs
  <2>1. /\ desired' = desired /\ actual' = actual /\ entries' = entries
        /\ steady' = steady /\ cachedEvents' = cachedEvents
        /\ pc = "fetching" /\ pc' = "fetching"
    BY <1>5 DEF FetchDesiredLRPs, bbsVars
  <2>2. CASE gotDesired' = DesiredLRPSchedulingInfos
    <3>1. KeepsSteadyPorts(TableOfRoutes(DesiredLRPSchedulingInfos))
      BY <2>1, FetchedRoutesKeepSteadyPorts DEF SteadyInv
    <3>2. TableOfRoutes(gotDesired)' = TableOfRoutes(DesiredLRPSchedulingInfos)
      BY <2>2
    <3>3. KeepsSteadyPorts(TableOfRoutes(gotDesired))'
      BY <2>1, <3>1, <3>2, FewerSteadyPorts DEF KeepsSteadyPorts
    <3> QED
      BY <2>1, <3>3, WantedUnchanged DEF SteadyInv
  <2>3. CASE gotDesired' = Failed
    BY <2>1, <2>3, WantedUnchanged DEF SteadyInv
  <2> QED
    BY <1>5, <2>2, <2>3 DEF FetchDesiredLRPs
<1>6. CASE BuildTable
  <2>1. /\ desired' = desired /\ actual' = actual /\ entries' = entries
        /\ steady' = steady /\ cachedEvents' = cachedEvents /\ gotDesired' = gotDesired
        /\ pc' # "idle"
    BY <1>6 DEF BuildTable, bbsVars
  <2>2. ASSUME gotDesired \notin {Nil, Failed}
        PROVE  KeepsSteadyPorts(TableOfRoutes(gotDesired))'
    <3>1. KeepsSteadyPorts(TableOfRoutes(gotDesired))
      BY <2>2 DEF SteadyInv
    <3>2. TableOfRoutes(gotDesired)' = TableOfRoutes(gotDesired)
      BY <2>1
    <3> QED
      BY <2>1, <3>1, <3>2, FewerSteadyPorts DEF KeepsSteadyPorts
  <2>3. ASSUME pc' = "applyToTemp"
        PROVE  KeepsSteadyPorts(tempTable)'
    <3>1. /\ gotDesired \notin {Nil, Failed} /\ gotActual \notin {Nil, Failed}
          /\ tempTable' = TableOf(gotDesired, gotActual)
      BY <1>6, <2>3 DEF BuildTable
    <3>2. gotDesired \in SUBSET DesiredLRPs /\ gotActual \in SUBSET ActualLRPGroups
      BY <3>1 DEF Types, TypeOK
    <3>3. ASSUME NEW k \in RoutingKeys
          PROVE  Lookup(tempTable', k).externalEndpoints
                   = Lookup(TableOfRoutes(gotDesired), k).externalEndpoints
      BY <3>1, <3>2, TableOfAt
    <3>4. KeepsSteadyPorts(TableOfRoutes(gotDesired))
      BY <3>1 DEF SteadyInv
    <3> QED
      BY <2>1, <3>3, <3>4, FewerSteadyPorts DEF KeepsSteadyPorts
  <2> QED
    BY <2>1, <2>2, <2>3, WantedUnchanged DEF SteadyInv
<1>7. CASE ApplyCachedEvent
  BY <1>7 DEF ApplyCachedEvent, SteadyInv
<1>8. CASE EndSync
  BY <1>8 DEF EndSync, SyncCompleted, SteadyInv
<1>9. CASE FailOver
  BY <1>9 DEF FailOver, SteadyInv
<1>10. CASE LoseEvents \/ Stabilize \/ \E m \in routes \ upserted : Expire(m)
  BY <1>1, <1>10, WantedUnchanged
     DEF LoseEvents, Stabilize, Expire, SteadyInv, handlerVars, bbsVars
<1>11. CASE BBSStep
  BY <1>1, <1>11 DEF BBSStep, handlerVars
<1>12. CASE UNCHANGED vars
  BY <1>1, <1>12, WantedUnchanged DEF vars, handlerVars, bbsVars, SteadyInv
<1> QED
  BY <1>2, <1>3, <1>4, <1>5, <1>6, <1>7, <1>8, <1>9, <1>10, <1>11, <1>12
     DEF SerialNext, SyncStep, Environment

\* Serial calls are among those that the handler is proved for.
LEMMA SerialStepIsAStep == [SerialNext]_vars => [Next]_vars
BY DEF SerialNext, Next

\* The step that ends a sync takes down nothing steady, if its table has it.
LEMMA EndOfSyncKeepsSteadyMappings ==
  ASSUME KeepsSteadyPorts(tempTable), [Next]_vars, pc = "applyToTemp", pc' = "idle"
  PROVE  routes \cap steady \subseteq routes'
<1>1. CASE EndSync
  <2>1. emit({}, Swap(entries, tempTable).events)
    BY <1>1 DEF EndSync, SwapAndEmit
  <2>2. steady \cap ToMappingRequests(Swap(entries, tempTable).events).deletes = {}
    BY SwapDeletesNoSteadyMapping
  <2> QED
    BY <2>1, <2>2, EmitDeletesWhatIsAsked
<1>2. CASE FailOver
  BY <1>2 DEF FailOver
<1>3. EndSync \/ FailOver
  BY DEF Next, SyncStep, Environment, HandleEvent, BeginSync, FetchActualLRPs,
         FetchDesiredLRPs, BuildTable, ApplyCachedEvent, LoseEvents, Expire, Stabilize,
         BBSStep, vars, handlerVars
<1> QED
  BY <1>1, <1>2, <1>3

\* A bulk sync of this program, which hands over no event while it runs, takes
\* down no route that stays wanted, whatever changes between its two fetches,
\* its swap and the events before it, and whichever request fails: as long as
\* the BBS gives no other routing key an external port that the table still
\* has.
THEOREM SerialSyncKeepsSteadyMappings ==
  SerialSpec /\ []PortsHaveOneOwner => SyncKeepsSteadyMappings
<1>1. Init => SteadyInv
  BY DEF Init, SteadyInv
<1>2. SteadyInv /\ [SerialNext]_vars
        => [pc = "applyToTemp" /\ pc' = "idle" => routes \cap steady \subseteq routes']_vars
  BY SerialStepIsAStep, EndOfSyncKeepsSteadyMappings DEF SteadyInv
<1> QED
  BY <1>1, <1>2, TypesInit, TypesStep, SerialStepIsAStep, SteadyStep, PTL
     DEF SerialSpec, SyncKeepsSteadyMappings

-----------------------------------------------------------------------------
(* Syncs that events interrupt keep what stays wanted, too *)

\* While a sync fetches, an event on its way about a process that is desired
\* leaves it desired, with the epoch that it has in the BBS: none is about an
\* earlier life of the process.
NoEarlierLives ==
  pc = "fetching" =>
    \A i \in 1..Len(Pending) : \A p \in ProcessesOf(Pending[i]) : desired[p] # Nil =>
      \E d \in WrittenBy(Pending[i]) :
        /\ d.processGuid = p
        /\ d.modificationTag.epoch = desired[p].modificationTag.epoch

\* An event takes no port from key k of a table that has it there with a tag:
\* what it writes is older, or has the port.
Spares(tag, event, k, port) ==
  k.processGuid \in ProcessesOf(event) =>
    \E d \in WrittenBy(event) :
      /\ d.processGuid = k.processGuid
      /\ d.modificationTag.epoch = tag.epoch
      /\ tag.index < d.modificationTag.index =>
           /\ k \in NewRoutingKeysFromDesired(d)
           /\ ContainsExternalPort(NewExternalEndpoints(k, d), port)

\* A table has a port at key k, and keeps it whatever events it is given.
KeepsPort(table, events, k, port) ==
  /\ ContainsExternalPort(Lookup(table, k).externalEndpoints, port)
  /\ Lookup(table, k).modificationTag \in ModificationTags
  /\ \A i \in 1..Len(events) : Spares(Lookup(table, k).modificationTag, events[i], k, port)

\* The events that are cached for the new table spare its steady ports, and so
\* do those that may yet be cached for the table to be built.
SparedInv ==
  /\ pc = "fetching" /\ gotDesired \notin {Nil, Failed} =>
       \A k \in RoutingKeys : \A port \in SteadyPorts(k) :
         /\ KeepsPort(TableOfRoutes(gotDesired), Pending, k, port)
         /\ Lookup(TableOfRoutes(gotDesired), k).modificationTag.epoch
              = desired[k.processGuid].modificationTag.epoch
  /\ pc = "applyToTemp" =>
       \A k \in RoutingKeys : \A port \in SteadyPorts(k) :
         KeepsPort(tempTable, cachedEvents, k, port)

\* AddRoutes keeps a port that the desired LRP has, or that is newer than it.
LEMMA AddRoutesKeepsPort ==
  ASSUME NEW table \in Tables, NEW d \in DesiredLRPs, NEW k \in RoutingKeys, NEW port,
         ContainsExternalPort(Lookup(table, k).externalEndpoints, port),
         Lookup(table, k).modificationTag \in ModificationTags,
         d.modificationTag.epoch = Lookup(table, k).modificationTag.epoch,
         (/\ Lookup(table, k).modificationTag.index < d.modificationTag.index
          /\ k \in NewRoutingKeysFromDesired(d))
         => ContainsExternalPort(NewExternalEndpoints(k, d), port)
  PROVE  LET new == Lookup(AddRoutes(table, d).entries, k)
             old == Lookup(table, k)
         IN  /\ ContainsExternalPort(new.externalEndpoints, port)
             /\ \/ new.modificationTag = old.modificationTag
                \/ /\ new.modificationTag = d.modificationTag
                   /\ old.modificationTag.index < d.modificationTag.index
<1> DEFINE old       == Lookup(table, k)
           externals == NewExternalEndpoints(k, d)
           new       == Lookup(AddRoutes(table, d).entries, k)
<1>1. new = IF k \in KeysToMerge(table, d) /\ RegistrationNeeded(old, externals)
              THEN UpdatedEntry(old, externals, d.modificationTag) ELSE old
  BY AddRoutesLookup
<1>2. CASE new = old
  BY <1>2
<1>3. CASE k \in KeysToMerge(table, d) /\ new = UpdatedEntry(old, externals, d.modificationTag)
  <2>1. k \in NewRoutingKeysFromDesired(d) /\ SucceededBy(old.modificationTag, d.modificationTag)
    BY <1>3 DEF KeysToMerge
  <2>2. old.modificationTag # Nil /\ d.modificationTag # Nil
    BY NilAssumption DEF DesiredLRPs
  <2>3. old.modificationTag.index < d.modificationTag.index
    BY <2>1, <2>2 DEF SucceededBy
  <2>4. old \in RoutableEndpoints
    BY LookupType
  <2>5. new.externalEndpoints = externals /\ new.modificationTag = d.modificationTag
    BY <1>3, <2>4 DEF UpdatedEntry, RoutableEndpoints
  <2> QED
    BY <2>1, <2>3, <2>5
<1> QED
  BY <1>1, <1>2, <1>3

\* Handling an event that spares a port keeps it, and the tag grows no older.
LEMMA HandlingKeepsPort ==
  ASSUME NEW table \in Tables, NEW event \in Events, NEW k \in RoutingKeys, NEW port,
         ContainsExternalPort(Lookup(table, k).externalEndpoints, port),
         Lookup(table, k).modificationTag \in ModificationTags,
         Spares(Lookup(table, k).modificationTag, event, k, port)
  PROVE  LET new == Lookup(handleEvent(table, event).entries, k)
             old == Lookup(table, k)
         IN  /\ ContainsExternalPort(new.externalEndpoints, port)
             /\ new.modificationTag \in ModificationTags
             /\ new.modificationTag.epoch = old.modificationTag.epoch
             /\ old.modificationTag.index <= new.modificationTag.index
<1> DEFINE new == Lookup(handleEvent(table, event).entries, k)
           old == Lookup(table, k)
<1>1. old.modificationTag.index \in Nat
  BY DEF ModificationTags
<1>2. CASE k.processGuid \notin ProcessesOf(event)
  <2>1. new.externalEndpoints = old.externalEndpoints /\ new.modificationTag = old.modificationTag
    BY <1>2, HandleEventRoutes
  <2> QED
    BY <1>1, <2>1
<1>3. CASE k.processGuid \in ProcessesOf(event)
  <2>1. PICK d \in WrittenBy(event) :
          /\ d.processGuid = k.processGuid
          /\ d.modificationTag.epoch = old.modificationTag.epoch
          /\ old.modificationTag.index < d.modificationTag.index =>
               /\ k \in NewRoutingKeysFromDesired(d)
               /\ ContainsExternalPort(NewExternalEndpoints(k, d), port)
    BY <1>3 DEF Spares
  <2>2. d \in DesiredLRPs /\ event \notin ActualEvents
    BY WrittenTypes
  <2>3. d.modificationTag \in ModificationTags /\ d.modificationTag.index \in Nat
    BY <2>2 DEF DesiredLRPs, ModificationTags
  <2>4. CASE new = Lookup(AddRoutes(table, d).entries, k)
    <3> DEFINE added == Lookup(AddRoutes(table, d).entries, k)
    <3>1. /\ ContainsExternalPort(added.externalEndpoints, port)
          /\ \/ added.modificationTag = old.modificationTag
             \/ /\ added.modificationTag = d.modificationTag
                /\ old.modificationTag.index < d.modificationTag.index
      BY <2>1, <2>2, AddRoutesKeepsPort
    <3> HIDE DEF added, new, old
    <3> QED
      BY <1>1, <2>1, <2>3, <2>4, <3>1 DEF added, new, old
  <2>5. CASE /\ event.type = "DesiredLRPCreatedEvent"
             /\ event.desiredLRP \in DesiredLRPs
             /\ handleEvent(table, event) = AddRoutes(table, event.desiredLRP)
    <3>1. d = event.desiredLRP
      BY <2>5 DEF WrittenBy
    <3> QED
      BY <2>4, <2>5, <3>1
  <2>6. CASE event.type = "DesiredLRPRemovedEvent"
    BY <2>6 DEF WrittenBy
  <2>7. CASE /\ event.type = "DesiredLRPChangedEvent"
             /\ event.before \in DesiredLRPs /\ event.after \in DesiredLRPs
             /\ handleEvent(table, event) = UpdateRoutes(table, event.before, event.after)
    <3>1. d = event.after
      BY <2>7 DEF WrittenBy
    <3>2. ASSUME k \notin NewRoutingKeysFromDesired(d)
          PROVE  ~SucceededBy(old.modificationTag, d.modificationTag)
      <4>1. old.modificationTag # Nil /\ d.modificationTag # Nil
        BY <2>3, NilAssumption
      <4> QED
        BY <2>1, <3>2, <4>1 DEF SucceededBy
    <3>3. new = Lookup(AddRoutes(table, d).entries, k)
      BY <2>7, <3>1, <3>2, UpdateRoutesLookup
    <3> QED
      BY <2>4, <3>3
  <2> QED
    BY <2>2, <2>5, <2>6, <2>7, HandleDesiredEvent DEF Events
<1> QED
  BY <1>2, <1>3

\* What spares a port for a tag spares it for a newer one.
LEMMA SparesForNewerTag ==
  ASSUME NEW tag \in ModificationTags, NEW newer \in ModificationTags,
         newer.epoch = tag.epoch, tag.index <= newer.index,
         NEW event \in Events, NEW k, NEW port, Spares(tag, event, k, port)
  PROVE  Spares(newer, event, k, port)
<1> SUFFICES ASSUME k.processGuid \in ProcessesOf(event)
             PROVE  \E d \in WrittenBy(event) :
                      /\ d.processGuid = k.processGuid
                      /\ d.modificationTag.epoch = newer.epoch
                      /\ newer.index < d.modificationTag.index =>
                           /\ k \in NewRoutingKeysFromDesired(d)
                           /\ ContainsExternalPort(NewExternalEndpoints(k, d), port)
  BY DEF Spares
<1>1. PICK d \in WrittenBy(event) :
        /\ d.processGuid = k.processGuid
        /\ d.modificationTag.epoch = tag.epoch
        /\ tag.index < d.modificationTag.index =>
             /\ k \in NewRoutingKeysFromDesired(d)
             /\ ContainsExternalPort(NewExternalEndpoints(k, d), port)
  BY DEF Spares
<1>2. d.modificationTag.index \in Nat /\ tag.index \in Nat /\ newer.index \in Nat
  BY WrittenTypes DEF DesiredLRPs, ModificationTags
<1>3. newer.index < d.modificationTag.index => tag.index < d.modificationTag.index
  BY <1>2
<1> QED
  BY <1>1, <1>3

\* One turn of applyCachedEvents leaves a port that all its events spare.
LEMMA HandlingHeadKeepsPort ==
  ASSUME NEW table \in Tables, NEW events \in Seq(Events), events # <<>>,
         NEW k \in RoutingKeys, NEW port, KeepsPort(table, events, k, port)
  PROVE  KeepsPort(handleEvent(table, Head(events)).entries, Tail(events), k, port)
<1> DEFINE new == handleEvent(table, Head(events)).entries
<1>1. /\ Head(events) = events[1] /\ Head(events) \in Events /\ 1 \in 1..Len(events)
      /\ Tail(events) \in Seq(Events)
      /\ \A i \in 1..Len(Tail(events)) : /\ i + 1 \in 1..Len(events)
                                         /\ Tail(events)[i] = events[i + 1]
                                         /\ events[i + 1] \in Events
  BY HeadTailProperties, ElementOfSeq
<1>2. Spares(Lookup(table, k).modificationTag, Head(events), k, port)
  BY <1>1 DEF KeepsPort
<1>3. /\ ContainsExternalPort(Lookup(new, k).externalEndpoints, port)
      /\ Lookup(new, k).modificationTag \in ModificationTags
      /\ Lookup(new, k).modificationTag.epoch = Lookup(table, k).modificationTag.epoch
      /\ Lookup(table, k).modificationTag.index <= Lookup(new, k).modificationTag.index
  BY <1>1, <1>2, HandlingKeepsPort DEF KeepsPort
<1>4. ASSUME NEW i \in 1..Len(Tail(events))
      PROVE  Spares(Lookup(new, k).modificationTag, Tail(events)[i], k, port)
  <2>1. Spares(Lookup(table, k).modificationTag, events[i + 1], k, port)
    BY <1>1 DEF KeepsPort
  <2>2. Lookup(table, k).modificationTag \in ModificationTags
    BY DEF KeepsPort
  <2> HIDE DEF new
  <2> QED
    BY <1>1, <1>3, <2>1, <2>2, SparesForNewerTag
<1> QED
  BY <1>3, <1>4 DEF KeepsPort
\* What a sync fetches of the desired LRPs keeps the steady ports, whatever
\* event is on its way: an event of the same epoch is not newer.
LEMMA FetchedRoutesKeepPort ==
  ASSUME Types, DatedInv, SteadyPortsAreDesired, NoEarlierLives, pc = "fetching",
         NEW k \in RoutingKeys, NEW port \in SteadyPorts(k)
  PROVE  /\ KeepsPort(TableOfRoutes(DesiredLRPSchedulingInfos), Pending, k, port)
         /\ Lookup(TableOfRoutes(DesiredLRPSchedulingInfos), k).modificationTag.epoch
              = desired[k.processGuid].modificationTag.epoch
<1> DEFINE d    == desired[k.processGuid]
           here == Lookup(TableOfRoutes(DesiredLRPSchedulingInfos), k)
<1>1. /\ d # Nil /\ k \in NewRoutingKeysFromDesired(d)
      /\ ContainsExternalPort(NewExternalEndpoints(k, d), port)
  BY DEF SteadyPortsAreDesired
<1>2. here.externalEndpoints = NewExternalEndpoints(k, d) /\ here.modificationTag = d.modificationTag
  BY <1>1, FetchedRoutesAt
<1>3. d.modificationTag \in ModificationTags
  BY <1>1 DEF Types, BBSTypes, RoutingKeys, DesiredLRPs
<1>4. ASSUME NEW i \in 1..Len(Pending)
      PROVE  Spares(d.modificationTag, Pending[i], k, port)
  <2> SUFFICES ASSUME k.processGuid \in ProcessesOf(Pending[i])
               PROVE  \E e \in WrittenBy(Pending[i]) :
                        /\ e.processGuid = k.processGuid
                        /\ e.modificationTag.epoch = d.modificationTag.epoch
                        /\ ~(d.modificationTag.index < e.modificationTag.index)
    BY DEF Spares
  <2>1. PICK e \in WrittenBy(Pending[i]) :
          e.processGuid = k.processGuid /\ e.modificationTag.epoch = d.modificationTag.epoch
    BY <1>1 DEF NoEarlierLives
  <2>2. Pending \in Seq(DatedEvents(desired, fresh.epochs))
    BY ConcatProperties DEF Pending, DatedInv
  <2>3. Pending[i] \in DatedEvents(desired, fresh.epochs)
    BY <2>2, ElementOfSeq
  <2>4. e \in DatedLRPs(desired, fresh.epochs)
    BY <2>3 DEF DatedEvents
  <2>5. /\ e \in DesiredLRPs
        /\ e.modificationTag.index < d.modificationTag.index \/ e.modificationTag = d.modificationTag
    BY <1>1, <2>1, <2>4 DEF DatedLRPs, Dated
  <2>6. e.modificationTag.index \in Nat /\ d.modificationTag.index \in Nat
    BY <1>3, <2>5 DEF DesiredLRPs, ModificationTags
  <2>7. ~(d.modificationTag.index < e.modificationTag.index)
    BY <2>5, <2>6
  <2> QED
    BY <2>1, <2>7
<1> HIDE DEF d, here
<1>5. KeepsPort(TableOfRoutes(DesiredLRPSchedulingInfos), Pending, k, port)
  BY <1>1, <1>2, <1>3, <1>4 DEF KeepsPort, here
<1> QED
  BY <1>2, <1>5 DEF d, here

\* A change of the BBS while a sync fetches: its event writes a desired LRP
\* that still has the steady ports.
LEMMA ChangeSparesPort ==
  ASSUME Types, DatedInv, SteadyPortsAreDesired, SteadyPortsAreDesired', BBSStep,
         pc = "fetching", NEW table, NEW k \in RoutingKeys, NEW port \in SteadyPorts(k),
         port \in SteadyPorts(k)', KeepsPort(table, Pending, k, port),
         Lookup(table, k).modificationTag.epoch = desired[k.processGuid].modificationTag.epoch
  PROVE  /\ KeepsPort(table, Pending', k, port)
         /\ Lookup(table, k).modificationTag.epoch = desired'[k.processGuid].modificationTag.epoch
<1> DEFINE p   == k.processGuid
           tag == Lookup(table, k).modificationTag
<1>1. p \in ProcessGuids
  BY DEF RoutingKeys
<1>2. /\ stream \in Seq(Events) /\ cachedEvents \in Seq(Events)
      /\ cachedEvents' = cachedEvents /\ pc' = pc
  BY DEF BBSStep, Types, BBSTypes, handlerVars
<1>3. PICK event \in Events :
        /\ stream' = Append(stream, event)
        /\ \A q \in ProcessGuids :
             IF q \notin ProcessesOf(event) THEN desired'[q] = desired[q]
             ELSE desired'[q] # Nil =>
                    /\ desired'[q] \in WrittenBy(event)
                    /\ desired[q] # Nil => desired'[q].modificationTag.epoch
                                             = desired[q].modificationTag.epoch
  BY ChangeWrites DEF BBSStep, Types, DatedInv
<1>4. desired[p] # Nil
  BY DEF SteadyPortsAreDesired
<1>5. /\ desired'[p] # Nil /\ k \in NewRoutingKeysFromDesired(desired'[p])
      /\ ContainsExternalPort(NewExternalEndpoints(k, desired'[p]), port)
  BY <1>2 DEF SteadyPortsAreDesired
<1>6. desired'[p].modificationTag.epoch = desired[p].modificationTag.epoch
  BY <1>1, <1>3, <1>4, <1>5
<1>7. desired'[p].processGuid = p
  BY <1>5 DEF NewRoutingKeysFromDesired
<1>8. Spares(tag, event, k, port)
  <2>1. CASE p \notin ProcessesOf(event)
    BY <2>1 DEF Spares
  <2>2. CASE p \in ProcessesOf(event)
    <3>1. desired'[p] \in WrittenBy(event)
      BY <1>1, <1>3, <1>5, <2>2
    <3> QED
      BY <1>5, <1>6, <1>7, <3>1 DEF Spares
  <2> QED
    BY <2>1, <2>2
<1>9. Pending \in Seq(Events) /\ Pending' = Append(Pending, event)
  BY <1>2, <1>3, PendingEvents DEF Pending
<1>10. ASSUME NEW i \in 1..Len(Pending')
       PROVE  Spares(tag, Pending'[i], k, port)
  <2>1. /\ Len(Pending) \in Nat /\ Len(Pending') = Len(Pending) + 1
        /\ \A j \in 1..Len(Pending) : Pending'[j] = Pending[j]
        /\ Pending'[Len(Pending) + 1] = event
    BY <1>9, AppendProperties, LenProperties
  <2>2. CASE i \in 1..Len(Pending)
    BY <2>1, <2>2 DEF KeepsPort
  <2>3. CASE i = Len(Pending) + 1
    BY <1>8, <2>1, <2>3
  <2> QED
    BY <2>1, <2>2, <2>3
<1>11. KeepsPort(table, Pending', k, port)
  BY <1>10 DEF KeepsPort
<1> QED
  BY <1>6, <1>11

\* Fewer events take no more ports.
LEMMA FewerEventsKeepPort ==
  ASSUME NEW table, NEW c \in Seq(Events), NEW s \in Seq(Events), NEW k, NEW port,
         KeepsPort(table, c \o s, k, port)
  PROVE  KeepsPort(table, c, k, port)
<1>1. ASSUME NEW i \in 1..Len(c)
      PROVE  i \in 1..Len(c \o s) /\ (c \o s)[i] = c[i]
  BY ConcatProperties, LenProperties
<1> QED
  BY <1>1 DEF KeepsPort

\* What a table keeps depends on what its entry says of routes.
LEMMA SameRoutesKeepPort ==
  ASSUME NEW table, NEW other, NEW events, NEW k, NEW port, KeepsPort(table, events, k, port),
         Lookup(other, k).externalEndpoints = Lookup(table, k).externalEndpoints,
         Lookup(other, k).modificationTag = Lookup(table, k).modificationTag
  PROVE  KeepsPort(other, events, k, port)
BY DEF KeepsPort

\* Steady mappings are wanted.
LEMMA SteadyIsWantedStep ==
  ASSUME steady \subseteq Wanted, [Next]_vars
  PROVE  (steady \subseteq Wanted)'
<1>1. CASE BBSStep
  BY <1>1 DEF BBSStep
<1>2. CASE desired' = desired /\ actual' = actual /\ steady' \subseteq Wanted
  BY <1>2, WantedUnchanged
<1>3. CASE HandleEvent \/ BeginSync \/ SyncStep
  BY <1>2, <1>3 DEF HandleEvent, BeginSync, SyncStep, FetchActualLRPs, FetchDesiredLRPs,
                    BuildTable, ApplyCachedEvent, EndSync, SyncCompleted, bbsVars
<1>4. CASE LoseEvents \/ FailOver \/ (\E m \in routes \ upserted : Expire(m)) \/ Stabilize
  BY <1>2, <1>4 DEF LoseEvents, FailOver, Expire, Stabilize, bbsVars
<1>5. CASE UNCHANGED vars
  BY <1>2, <1>5 DEF vars, bbsVars
<1> QED
  BY <1>1, <1>3, <1>4, <1>5 DEF Next, Environment

\* What every step keeps while no earlier life of a process is in the way.
LEMMA SparedStep ==
  ASSUME Types, DatedInv, SparedInv, SteadyPortsAreDesired, SteadyPortsAreDesired',
         NoEarlierLives, [Next]_vars
  PROVE  SparedInv'
<1>1. stream \in Seq(Events) /\ cachedEvents \in Seq(Events)
  BY DEF Types, BBSTypes
<1>2. CASE pc' \notin {"fetching", "applyToTemp"}
  BY <1>2 DEF SparedInv
<1>3. CASE /\ entries' = entries /\ steady' \subseteq steady /\ pc' = pc
           /\ gotDesired' = gotDesired /\ tempTable' = tempTable /\ desired' = desired
           /\ cachedEvents' = cachedEvents \/ pc = "fetching"
           /\ \/ Pending' = Pending
              \/ cachedEvents' = cachedEvents /\ stream' = <<>>
  <2>1. ASSUME NEW k \in RoutingKeys, NEW port \in SteadyPorts(k)'
        PROVE  port \in SteadyPorts(k)
    BY <1>3, FewerSteadyPorts
  <2>2. ASSUME pc = "fetching", gotDesired \notin {Nil, Failed},
               NEW k \in RoutingKeys, NEW port \in SteadyPorts(k)
        PROVE  KeepsPort(TableOfRoutes(gotDesired), Pending', k, port)
    <3>1. KeepsPort(TableOfRoutes(gotDesired), Pending, k, port)
      BY <2>2 DEF SparedInv
    <3>2. CASE Pending' = Pending
      BY <3>1, <3>2
    <3>3. CASE cachedEvents' = cachedEvents /\ stream' = <<>>
      <4>1. Pending' = cachedEvents
        BY <1>1, <3>3, ConcatEmptySeq DEF Pending
      <4> QED
        BY <1>1, <3>1, <4>1, FewerEventsKeepPort DEF Pending
    <3> QED
      BY <1>3, <3>2, <3>3
  <2>3. TableOfRoutes(gotDesired)' = TableOfRoutes(gotDesired)
    BY <1>3
  <2> QED
    BY <1>3, <2>1, <2>2, <2>3 DEF SparedInv
<1>4. CASE HandleEvent
  <2>1. /\ desired' = desired /\ pc' = pc /\ gotDesired' = gotDesired /\ steady' = steady
        /\ tempTable' = tempTable /\ stream # <<>> /\ stream' = Tail(stream)
        /\ pc \in {"idle", "fetching"} /\ syncing = (pc # "idle")
    BY <1>4 DEF HandleEvent, Types, TypeOK
  <2>2. CASE pc = "fetching"
    <3>1. cachedEvents' = Append(cachedEvents, Head(stream)) /\ entries' = entries
      BY <1>4, <2>1, <2>2 DEF HandleEvent, Cache
    <3>2. Pending' = Pending
      BY <1>1, <2>1, <3>1, PendingEvents DEF Pending
    <3> QED
      BY <1>3, <2>1, <2>2, <3>1, <3>2
  <2> QED
    BY <1>2, <2>1, <2>2
<1>5. CASE BeginSync
  BY <1>5 DEF BeginSync, SparedInv
<1>6. CASE FetchActualLRPs \/ Stabilize \/ (\E m \in routes \ upserted : Expire(m)) \/ UNCHANGED vars
  <2>1. /\ entries' = entries /\ steady' = steady /\ pc' = pc /\ gotDesired' = gotDesired
        /\ tempTable' = tempTable /\ desired' = desired /\ cachedEvents' = cachedEvents
        /\ stream' = stream
    BY <1>6 DEF FetchActualLRPs, Stabilize, Expire, vars, bbsVars, handlerVars
  <2> QED
    BY <1>3, <2>1 DEF Pending
<1>7. CASE LoseEvents
  <2>1. /\ entries' = entries /\ steady' = steady /\ pc' = pc /\ gotDesired' = gotDesired
        /\ tempTable' = tempTable /\ desired' = desired /\ cachedEvents' = cachedEvents
        /\ stream' = <<>>
    BY <1>7 DEF LoseEvents, handlerVars
  <2> QED
    BY <1>3, <2>1
<1>8. CASE FetchDesiredLRPs
  <2>1. /\ desired' = desired /\ entries' = entries /\ steady' = steady
        /\ cachedEvents' = cachedEvents /\ stream' = stream
        /\ pc = "fetching" /\ pc' = "fetching"
        /\ gotDesired' \in {DesiredLRPSchedulingInfos, Failed}
    BY <1>8 DEF FetchDesiredLRPs, bbsVars
  <2>2. Pending' = Pending
    BY <2>1 DEF Pending
  <2>3. \A k \in RoutingKeys : SteadyPorts(k)' \subseteq SteadyPorts(k)
    BY <2>1, FewerSteadyPorts
  <2>4. CASE gotDesired' = DesiredLRPSchedulingInfos
    <3>1. TableOfRoutes(gotDesired)' = TableOfRoutes(DesiredLRPSchedulingInfos)
      BY <2>4
    <3>2. ASSUME NEW k \in RoutingKeys, NEW port \in SteadyPorts(k)
          PROVE  /\ KeepsPort(TableOfRoutes(DesiredLRPSchedulingInfos), Pending, k, port)
                 /\ Lookup(TableOfRoutes(DesiredLRPSchedulingInfos), k).modificationTag.epoch
                      = desired[k.processGuid].modificationTag.epoch
      BY <2>1, FetchedRoutesKeepPort
    <3> QED
      BY <2>1, <2>2, <2>3, <3>1, <3>2 DEF SparedInv
  <2>5. CASE gotDesired' = Failed
    BY <2>1, <2>5 DEF SparedInv
  <2> QED
    BY <2>1, <2>4, <2>5
<1>9. CASE BuildTable
  <2>1. /\ entries' = entries /\ steady' = steady /\ cachedEvents' = cachedEvents
        /\ pc = "fetching" /\ pc' # "fetching"
    BY <1>9 DEF BuildTable, bbsVars
  <2>2. ASSUME pc' = "applyToTemp", NEW k \in RoutingKeys, NEW port \in SteadyPorts(k)
        PROVE  KeepsPort(tempTable', cachedEvents, k, port)
    <3>1. /\ gotDesired \notin {Nil, Failed} /\ gotActual \notin {Nil, Failed}
          /\ tempTable' = TableOf(gotDesired, gotActual)
      BY <1>9, <2>2 DEF BuildTable
    <3>2. gotDesired \in SUBSET DesiredLRPs /\ gotActual \in SUBSET ActualLRPGroups
      BY <3>1 DEF Types, TypeOK
    <3>3. /\ Lookup(tempTable', k).externalEndpoints
               = Lookup(TableOfRoutes(gotDesired), k).externalEndpoints
          /\ Lookup(tempTable', k).modificationTag
               = Lookup(TableOfRoutes(gotDesired), k).modificationTag
      BY <3>1, <3>2, TableOfAt
    <3>4. KeepsPort(TableOfRoutes(gotDesired), cachedEvents \o stream, k, port)
      BY <2>1, <2>2, <3>1 DEF SparedInv, Pending
    <3>5. KeepsPort(TableOfRoutes(gotDesired), cachedEvents, k, port)
      BY <1>1, <3>4, FewerEventsKeepPort
    <3> QED
      BY <3>3, <3>5, SameRoutesKeepPort
  <2> QED
    BY <2>1, <2>2, FewerSteadyPorts DEF SparedInv
<1>10. CASE ApplyCachedEvent
  <2>1. /\ pc' = pc /\ steady' = steady /\ pc \in {"applyToCurrent", "applyToTemp"}
        /\ cachedEvents # <<>> /\ cachedEvents' = Tail(cachedEvents)
    BY <1>10 DEF ApplyCachedEvent
  <2>2. CASE pc = "applyToTemp"
    <3>1. /\ entries' = entries
          /\ tempTable' = handleEvent(tempTable, Head(cachedEvents)).entries
      BY <1>10, <2>2 DEF ApplyCachedEvent
    <3>2. tempTable \in Tables
      BY <2>2 DEF Types
    <3>3. ASSUME NEW k \in RoutingKeys, NEW port \in SteadyPorts(k)
          PROVE  KeepsPort(tempTable', cachedEvents', k, port)
      <4>1. KeepsPort(tempTable, cachedEvents, k, port)
        BY <2>2 DEF SparedInv
      <4> QED
        BY <1>1, <2>1, <3>1, <3>2, <4>1, HandlingHeadKeepsPort
    <3> QED
      BY <2>1, <2>2, <3>1, <3>3, FewerSteadyPorts DEF SparedInv
  <2> QED
    BY <1>2, <2>1, <2>2
<1>11. CASE EndSync \/ FailOver
  BY <1>2, <1>11 DEF EndSync, SyncCompleted, FailOver
<1>12. CASE BBSStep
  <2>1. /\ entries' = entries /\ gotDesired' = gotDesired /\ tempTable' = tempTable
        /\ pc' = pc /\ cachedEvents' = cachedEvents /\ steady' \subseteq steady
    BY <1>12 DEF BBSStep, handlerVars
  <2>2. \A k \in RoutingKeys : SteadyPorts(k)' \subseteq SteadyPorts(k)
    BY <2>1, FewerSteadyPorts
  <2>3. TableOfRoutes(gotDesired)' = TableOfRoutes(gotDesired)
    BY <2>1
  <2>4. ASSUME pc = "fetching", gotDesired \notin {Nil, Failed},
               NEW k \in RoutingKeys, NEW port \in SteadyPorts(k)'
        PROVE  /\ KeepsPort(TableOfRoutes(gotDesired), Pending', k, port)
               /\ Lookup(TableOfRoutes(gotDesired), k).modificationTag.epoch
                    = desired'[k.processGuid].modificationTag.epoch
    <3>1. port \in SteadyPorts(k)
      BY <2>2
    <3>2. /\ KeepsPort(TableOfRoutes(gotDesired), Pending, k, port)
          /\ Lookup(TableOfRoutes(gotDesired), k).modificationTag.epoch
               = desired[k.processGuid].modificationTag.epoch
      BY <2>4, <3>1 DEF SparedInv
    <3> QED
      BY <1>12, <2>4, <3>1, <3>2, ChangeSparesPort
  <2> QED
    BY <2>1, <2>2, <2>3, <2>4 DEF SparedInv
<1> QED
  BY <1>4, <1>5, <1>6, <1>7, <1>8, <1>9, <1>10, <1>11, <1>12 DEF Next, SyncStep, Environment

\* A bulk sync takes down no route that stays wanted, whatever events it caches
\* while it runs and replays on the table it has built: as long as none of them
\* is about an earlier life of a process that is desired, and no other routing
\* key is given an external port that the table still has.
THEOREM HandlerSyncKeepsSteadyMappings ==
  Spec /\ []PortsHaveOneOwner /\ []NoEarlierLives => SyncKeepsSteadyMappings
<1>1. Init => DatedInv /\ steady \subseteq Wanted /\ SparedInv
  BY RoutesInit DEF Init, SparedInv
<1>2. Types /\ steady \subseteq Wanted /\ PortsHaveOneOwner => SteadyPortsAreDesired
  BY SteadyPortIsDesired
<1>3. SparedInv /\ [Next]_vars
        => [pc = "applyToTemp" /\ pc' = "idle" => routes \cap steady \subseteq routes']_vars
  <2>1. SparedInv /\ pc = "applyToTemp" => KeepsSteadyPorts(tempTable)
    BY DEF SparedInv, KeepsPort, KeepsSteadyPorts
  <2> QED
    BY <2>1, EndOfSyncKeepsSteadyMappings
<1> QED
  BY <1>1, <1>2, <1>3, TypesInit, TypesStep, DatedStep, SteadyIsWantedStep, SparedStep, PTL
     DEF Spec, SyncKeepsSteadyMappings

\* Events are about processes.
LEMMA ProcessTypes ==
  ASSUME NEW event \in Events
  PROVE  ProcessesOf(event) \subseteq ProcessGuids
<1>1. CASE event \in ActualEvents
  BY <1>1, WrittenTypes
<1>2. CASE event \in DesiredEvents
  BY <1>2 DEF DesiredEvents, DesiredLRPs, ProcessesOf
<1> QED
  BY <1>1, <1>2 DEF Events

\* Where a process has one epoch it has one life: a removal is the end of it.
OneLifeEvents(lrps, epochs) ==
  {event \in Events : \A p \in ProcessesOf(event) \cap ProcessGuids :
     \/ \E d \in WrittenBy(event) : d.processGuid = p
     \/ lrps[p] = Nil /\ epochs[p] = {}}

OneLifeInv ==
  /\ stream \in Seq(OneLifeEvents(desired, fresh.epochs))
  /\ cachedEvents \in Seq(OneLifeEvents(desired, fresh.epochs))

\* A change of the BBS keeps it so.
LEMMA OneLifeAfterChange ==
  ASSUME NEW e, Epochs = {e}, Types, DatedInv, OneLifeInv, BBSStep
  PROVE  OneLifeInv'
<1> DEFINE OL    == OneLifeEvents(desired, fresh.epochs)
           nowOL == OneLifeEvents(desired', fresh'.epochs)
<1>1. BBSTypes /\ BBSNext /\ cachedEvents' = cachedEvents
  BY DEF BBSStep, Types, handlerVars
<1>2. PICK event \in Events :
        /\ stream' = Append(stream, event)
        /\ \A p \in ProcessGuids :
             IF p \notin ProcessesOf(event)
               THEN desired'[p] = desired[p] /\ fresh'.epochs[p] = fresh.epochs[p]
               ELSE /\ fresh'.epochs[p] \subseteq fresh.epochs[p]
                    /\ desired[p] # Nil \/ \E d \in WrittenBy(event) : d.processGuid = p
                    /\ desired'[p] # Nil =>
                         /\ desired'[p] \in WrittenBy(event)
                         /\ desired[p] = Nil => desired'[p].modificationTag.epoch \in fresh.epochs[p]
  BY <1>1, ChangeWrites DEF DatedInv
<1>3. ASSUME NEW p \in ProcessGuids, desired[p] = Nil, fresh.epochs[p] = {}
      PROVE  desired'[p] = Nil /\ fresh'.epochs[p] = {}
  <2>1. CASE p \notin ProcessesOf(event)
    BY <1>2, <1>3, <2>1
  <2>2. CASE p \in ProcessesOf(event)
    BY <1>2, <1>3, <2>2
  <2> QED
    BY <2>1, <2>2
<1>4. OL \subseteq nowOL
  BY <1>3 DEF OneLifeEvents
<1>5. event \in nowOL
  <2>1. ASSUME NEW p \in ProcessesOf(event), p \in ProcessGuids,
               ~\E d \in WrittenBy(event) : d.processGuid = p
        PROVE  desired'[p] = Nil /\ fresh'.epochs[p] = {}
    <3>1. desired[p] # Nil /\ fresh'.epochs[p] \subseteq fresh.epochs[p]
      BY <1>2, <2>1
    <3>2. desired[p].modificationTag.epoch \in Epochs
      BY <1>1, <2>1, <3>1 DEF BBSTypes, DesiredLRPs, ModificationTags
    <3>3. desired[p].modificationTag.epoch \notin fresh.epochs[p]
      BY <2>1, <3>1 DEF DatedInv
    <3>4. fresh.epochs[p] \subseteq Epochs
      BY <1>1, <2>1 DEF BBSTypes
    <3>5. fresh'.epochs[p] = {}
      BY <3>1, <3>2, <3>3, <3>4
    <3>6. desired'[p] # Nil => desired'[p].processGuid = p
      BY <1>1, <2>1, BBSTypesStep DEF BBSTypes
    <3>7. desired'[p] = Nil
      BY <1>2, <2>1, <3>6
    <3> QED
      BY <3>5, <3>7
  <2> QED
    BY <2>1 DEF OneLifeEvents
<1>6. stream \in Seq(nowOL) /\ cachedEvents \in Seq(nowOL)
  BY <1>4, SeqMonotonic DEF OneLifeInv
<1>7. stream' \in Seq(nowOL)
  BY <1>2, <1>5, <1>6, AppendProperties
<1> QED
  BY <1>1, <1>6, <1>7 DEF OneLifeInv

\* The handler only hands the events on.
LEMMA OneLifeStep ==
  ASSUME NEW e, Epochs = {e}, Types, DatedInv, OneLifeInv, [Next]_vars
  PROVE  OneLifeInv'
<1> DEFINE OL == OneLifeEvents(desired, fresh.epochs)
<1>1. stream \in Seq(OL) /\ cachedEvents \in Seq(OL)
  BY DEF OneLifeInv
<1>2. CASE BBSStep
  BY <1>2, OneLifeAfterChange
<1>3. ASSUME desired' = desired, fresh' = fresh, stream' \in Seq(OL), cachedEvents' \in Seq(OL)
      PROVE  OneLifeInv'
  BY <1>3 DEF OneLifeInv
<1> HIDE DEF OL
<1>4. ASSUME NEW s \in Seq(OL), s # <<>>
      PROVE  Head(s) \in OL /\ Tail(s) \in Seq(OL)
  BY <1>4, HeadTailProperties
<1>5. CASE HandleEvent
  <2>1. /\ desired' = desired /\ fresh' = fresh /\ stream # <<>> /\ stream' = Tail(stream)
        /\ \/ cachedEvents' = cachedEvents
           \/ cachedEvents' = Append(cachedEvents, Head(stream))
    BY <1>5 DEF HandleEvent, Cache
  <2>2. Append(cachedEvents, Head(stream)) \in Seq(OL)
    BY <1>1, <1>4, <2>1, AppendProperties
  <2> QED
    BY <1>1, <1>3, <1>4, <2>1, <2>2
<1>6. CASE ApplyCachedEvent
  <2>1. /\ desired' = desired /\ fresh' = fresh /\ stream' = stream
        /\ cachedEvents # <<>> /\ cachedEvents' = Tail(cachedEvents)
    BY <1>6 DEF ApplyCachedEvent, bbsVars
  <2> QED
    BY <1>1, <1>3, <1>4, <2>1
<1>7. CASE \/ BeginSync \/ FetchActualLRPs \/ FetchDesiredLRPs \/ BuildTable \/ EndSync
           \/ LoseEvents \/ FailOver \/ (\E m \in routes \ upserted : Expire(m)) \/ Stabilize
           \/ UNCHANGED vars
  <2>1. /\ desired' = desired /\ fresh' = fresh
        /\ stream' = stream \/ stream' = <<>>
        /\ cachedEvents' = cachedEvents \/ cachedEvents' = <<>>
    BY <1>7 DEF BeginSync, FetchActualLRPs, FetchDesiredLRPs, BuildTable, EndSync, SyncCompleted,
                LoseEvents, FailOver, Expire, Stabilize, vars, bbsVars, handlerVars
  <2> QED
    BY <1>1, <1>3, <2>1, EmptySeq
<1> QED
  BY <1>2, <1>5, <1>6, <1>7 DEF Next, SyncStep, Environment

\* One life leaves no earlier ones.
LEMMA OneLifeHasNoEarlier ==
  ASSUME NEW e, Epochs = {e}, Types, OneLifeInv
  PROVE  NoEarlierLives
<1> SUFFICES ASSUME NEW i \in 1..Len(Pending), NEW p \in ProcessesOf(Pending[i]), desired[p] # Nil
             PROVE  \E d \in WrittenBy(Pending[i]) :
                      /\ d.processGuid = p
                      /\ d.modificationTag.epoch = desired[p].modificationTag.epoch
  BY DEF NoEarlierLives
<1>1. Pending \in Seq(OneLifeEvents(desired, fresh.epochs))
  BY ConcatProperties DEF Pending, OneLifeInv
<1>2. Pending[i] \in OneLifeEvents(desired, fresh.epochs)
  BY <1>1, ElementOfSeq
<1>3. Pending[i] \in Events
  BY <1>2 DEF OneLifeEvents
<1>4. p \in ProcessGuids
  BY <1>3, ProcessTypes
<1>5. PICK d \in WrittenBy(Pending[i]) : d.processGuid = p
  BY <1>2, <1>4 DEF OneLifeEvents
<1>6. d.modificationTag.epoch \in Epochs /\ desired[p].modificationTag.epoch \in Epochs
  <2>1. d \in DesiredLRPs /\ desired[p] \in DesiredLRPs
    BY <1>3, <1>4, WrittenTypes DEF Types, BBSTypes
  <2> QED
    BY <2>1 DEF DesiredLRPs, ModificationTags
<1> QED
  BY <1>5, <1>6

\* A process that is never desired again after it was removed has one life:
\* whatever is cached during a sync, it takes down no route that stays wanted.
THEOREM OneLifeSyncKeepsSteadyMappings ==
  ASSUME NEW CONSTANT e, Epochs = {e}
  PROVE  Spec /\ []PortsHaveOneOwner => SyncKeepsSteadyMappings
<1>1. Init => DatedInv /\ OneLifeInv
  BY RoutesInit, EmptySeq DEF Init, BBSInit, OneLifeInv
<1>2. Types /\ DatedInv /\ OneLifeInv /\ [Next]_vars => OneLifeInv'
  BY OneLifeStep
<1>3. Types /\ OneLifeInv => NoEarlierLives
  BY OneLifeHasNoEarlier
<1>4. Spec => []NoEarlierLives
  BY <1>1, <1>2, <1>3, TypesInit, TypesStep, DatedStep, PTL DEF Spec
<1> QED
  BY <1>4, HandlerSyncKeepsSteadyMappings, PTL

-----------------------------------------------------------------------------
(* HeldMappingsAreRouted: what may come between *)

\* The event that goes to the handler's own table next, as a set.
HandledNext ==
  CASE pc = "idle" /\ stream # <<>> -> {Head(stream)}
    [] pc = "applyToCurrent" /\ cachedEvents # <<>> -> {Head(cachedEvents)}
    [] OTHER -> {}

AddressesAt(table, k) ==
  {Lookup(table, k).endpoints[ek].address : ek \in PresentEndpoints(Lookup(table, k))}

\* No address goes from one routing key to another.
Apart(old, new) ==
  \A k, l \in RoutingKeys : k # l => AddressesAt(old, k) \cap AddressesAt(new, l) = {}

\* Requests to the routing API succeed, mappings live and ports have 16 bits.
\* The next change of the table moves no address to another routing key, is no
\* route update that only takes ports away, and removes no endpoint whose
\* address another one of its entry has.
Undisturbed ==
  /\ ~EmitMayFail /\ ~MayExpire
  /\ \A x \in ExternalEndpointInfos : x.port < 65536
  /\ \A event \in HandledNext :
       /\ Apart(entries, handleEvent(entries, event).entries)
       /\ \A d \in WrittenBy(event) : TakesNoPortOnly(entries, d)
       /\ \A g \in RemovedBy(event) : LeavesNoTwin(entries, g)
  /\ pc = "applyToTemp" /\ cachedEvents = <<>> => Apart(entries, tempTable)

\* At every moment, and whatever was lost, the routing API has the mappings of
\* the table.
RoutedInv == HeldMappings(entries) \subseteq routes


-----------------------------------------------------------------------------
(* What an accurate operation does to the mappings *)

\* A port of 16 bits is not cut down.
LEMMA Uint16OfSmallPort ==
  ASSUME NEW n \in Nat, n < 65536
  PROVE  Uint16(n) = n
BY DEF Uint16

\* The mappings that events ask the routing API to upsert and to delete.
LEMMA RequestsOf ==
  ASSUME NEW events, NEW m
  PROVE  /\ m \in ToMappingRequests(events).upserts <=>
              \E e \in events : Valid(e) /\ e.eventType = Registration /\ m \in mapRoutingEvent(e)
         /\ m \in ToMappingRequests(events).deletes <=>
              \E e \in events : Valid(e) /\ e.eventType = Unregistration /\ m \in mapRoutingEvent(e)
BY DEF ToMappingRequests, buildMappingRequests

\* A mapping that a table holds is that of an entry, which its event registers.
LEMMA HeldByAnEntry ==
  ASSUME NEW table, NEW m
  PROVE  m \in HeldMappings(table) <=>
           \E k \in RoutingKeys : \E e \in createRoutingEvent(k, Lookup(table, k), Registration) :
             Valid(e) /\ m \in mapRoutingEvent(e)
<1>1. m \in HeldMappings(table) <=>
        \E e \in GetRoutingEvents(table) :
          Valid(e) /\ e.eventType = Registration /\ m \in mapRoutingEvent(e)
  BY RequestsOf DEF HeldMappings
<1>2. \A e : e \in GetRoutingEvents(table) <=>
               \E k \in RoutingKeys : e \in createRoutingEvent(k, Lookup(table, k), Registration)
  BY DEF GetRoutingEvents
<1>3. \A k : \A e \in createRoutingEvent(k, Lookup(table, k), Registration) :
        e.eventType = Registration
  BY EventFields
<1> QED
  BY <1>1, <1>2, <1>3

\* A table that has changed accurately is routed if it was before.
LEMMA AccurateChangesAreRouted ==
  ASSUME NEW old \in Tables, NEW result \in Results, Accurate(old, result),
         Apart(old, result.entries), \A x \in ExternalEndpointInfos : x.port < 65536,
         NEW api, HeldMappings(old) \subseteq api
  PROVE  HeldMappings(result.entries) \subseteq Applied(api, ToMappingRequests(result.events))
<1> DEFINE new    == result.entries
           events == result.events
<1>1. new \in Tables /\ events \subseteq RoutingEvents
  BY DEF Results
<1> HIDE DEF new, events
<1> SUFFICES ASSUME NEW m \in HeldMappings(new)
             PROVE  m \in Applied(api, ToMappingRequests(events))
  BY DEF new, events
<1>2. PICK k \in RoutingKeys : \E e \in createRoutingEvent(k, Lookup(new, k), Registration) :
             Valid(e) /\ m \in mapRoutingEvent(e)
  BY HeldByAnEntry
<1> DEFINE entry  == Lookup(new, k)
           before == Lookup(old, k)
<1>3. PICK e \in createRoutingEvent(k, entry, Registration) : Valid(e) /\ m \in mapRoutingEvent(e)
  BY <1>2
<1>4. e.key = k /\ e.entry = entry /\ e.eventType = Registration
  BY <1>3, EventFields
<1>5. entry \in RoutableEndpoints /\ before \in RoutableEndpoints
  BY <1>1, LookupType
<1> HIDE DEF entry, before
<1>6. PICK x \in entry.externalEndpoints, ek \in PresentEndpoints(entry) :
        m = [routerGroupGuid |-> x.routerGroupGuid, port |-> Uint16(x.port),
             address |-> entry.endpoints[ek].address]
  BY <1>3, <1>4 DEF mapRoutingEvent
<1>7. m \in api \cup ToMappingRequests(events).upserts
  <2>1. CASE createRoutingEvent(k, entry, Registration) \subseteq events
    BY <1>3, <1>4, <2>1, RequestsOf
  <2>2. CASE /\ entry.externalEndpoints = before.externalEndpoints
             /\ \A i \in PresentEndpoints(entry) : entry.endpoints[i] = before.endpoints[i]
    <3> DEFINE held == [eventType |-> Registration, key |-> k, entry |-> before]
    <3>1. x \in before.externalEndpoints /\ ek \in PresentEndpoints(before)
      BY <1>6, <2>2 DEF PresentEndpoints
    <3>2. held \in createRoutingEvent(k, before, Registration)
      BY <3>1 DEF createRoutingEvent, HasNoExternalPorts
    <3>3. Valid(held)
      BY <1>3, <1>4, <2>2, <3>1 DEF Valid
    <3>4. m \in mapRoutingEvent(held)
      BY <1>6, <2>2, <3>1 DEF mapRoutingEvent
    <3> QED
      BY <3>2, <3>3, <3>4, HeldByAnEntry DEF before
  <2> QED
    BY <2>1, <2>2 DEF Accurate, RegistersAt, new, events, entry, before
<1>8. m \notin ToMappingRequests(events).deletes
  <2> SUFFICES ASSUME m \in ToMappingRequests(events).deletes
               PROVE  FALSE
    OBVIOUS
  <2>1. PICK f \in events : f.eventType = Unregistration /\ m \in mapRoutingEvent(f)
    BY RequestsOf
  <2>2. UnregistersGone(old, result, f)
    BY <2>1 DEF Accurate, events
  <2>3. PICK y \in f.entry.externalEndpoints, j \in PresentEndpoints(f.entry) :
          m = [routerGroupGuid |-> y.routerGroupGuid, port |-> Uint16(y.port),
               address |-> f.entry.endpoints[j].address]
    BY <2>1 DEF mapRoutingEvent
  <2>4. /\ Uint16(x.port) = Uint16(y.port)
        /\ entry.endpoints[ek].address = f.entry.endpoints[j].address
    BY <1>6, <2>3
  <2>5. x.port = y.port
    <3>1. x \in ExternalEndpointInfos /\ y \in ExternalEndpointInfos
      BY <1>1, <1>5, <1>6, <2>1, <2>3 DEF RoutingEvents, RoutableEndpoints
    <3>2. x.port \in Nat /\ y.port \in Nat /\ x.port < 65536 /\ y.port < 65536
      BY <3>1, ExternalEndpointInfosAssumption
    <3> QED
      BY <2>4, <3>2, Uint16OfSmallPort
  <2>6. f.key = k
    <3>1. f.key \in RoutingKeys /\ f.entry.endpoints[j] = Lookup(old, f.key).endpoints[j]
      BY <2>2, <2>3 DEF UnregistersGone
    <3>2. j \in PresentEndpoints(Lookup(old, f.key))
      BY <2>3, <3>1 DEF PresentEndpoints
    <3>3. entry.endpoints[ek].address \in AddressesAt(old, f.key)
      BY <2>4, <3>1, <3>2 DEF AddressesAt
    <3>4. entry.endpoints[ek].address \in AddressesAt(new, k)
      BY <1>6 DEF AddressesAt, entry
    <3> QED
      BY <3>1, <3>3, <3>4 DEF Apart, new
  <2>7. \/ f.entry.endpoints[j].address # entry.endpoints[ek].address
        \/ ~ContainsExternalPort(entry.externalEndpoints, y.port)
    BY <1>6, <2>2, <2>3, <2>6 DEF UnregistersGone, entry, new
  <2> QED
    BY <1>6, <2>4, <2>5, <2>7 DEF ContainsExternalPort
<1> QED
  BY <1>7, <1>8 DEF Applied

\* An Emit whose requests succeed does all that its events ask for.
LEMMA EmitApplies ==
  ASSUME NEW kept, NEW events, emit(kept, events), ~EmitMayFail
  PROVE  routes' = Applied(routes, ToMappingRequests(events))
<1>1. routes' \in EmitOutcomes(routes, events)
  BY DEF emit
<1>2. CASE events = {}
  <2>1. \A m : /\ m \notin ToMappingRequests(events).upserts
               /\ m \notin ToMappingRequests(events).deletes
    BY <1>2, RequestsOf
  <2>2. Applied(routes, ToMappingRequests(events)) = routes
    BY <2>1 DEF Applied
  <2> QED
    BY <1>1, <1>2, <2>2 DEF EmitOutcomes
<1>3. CASE events # {}
  BY <1>1, <1>3 DEF EmitOutcomes
<1> QED
  BY <1>2, <1>3

\* The table operation of an event is accurate, short of the two exceptions.
LEMMA HandleEventAccurate ==
  ASSUME NEW table \in Tables, NEW event \in Events,
         \A d \in WrittenBy(event) : TakesNoPortOnly(table, d),
         \A g \in RemovedBy(event) : LeavesNoTwin(table, g)
  PROVE  Accurate(table, handleEvent(table, event))
<1>1. CASE event \in DesiredEvents
  <2>1. CASE /\ event.type = "DesiredLRPCreatedEvent"
             /\ event.desiredLRP \in DesiredLRPs
             /\ handleEvent(table, event) = AddRoutes(table, event.desiredLRP)
    <3>1. event.desiredLRP \in WrittenBy(event)
      BY <2>1 DEF WrittenBy
    <3> QED
      BY <2>1, <3>1, AddRoutesAccurate
  <2>2. CASE /\ event.type = "DesiredLRPRemovedEvent"
             /\ event.desiredLRP \in DesiredLRPs
             /\ handleEvent(table, event) = RemoveRoutes(table, event.desiredLRP)
    <3>1. NewRoutingKeysFromDesired(event.desiredLRP) \in SUBSET RoutingKeys
      BY DEF NewRoutingKeysFromDesired
    <3> QED
      BY <2>2, <3>1, RemoveRoutingKeysAccurate DEF RemoveRoutes
  <2>3. CASE /\ event.type = "DesiredLRPChangedEvent"
             /\ event.before \in DesiredLRPs /\ event.after \in DesiredLRPs
             /\ handleEvent(table, event) = UpdateRoutes(table, event.before, event.after)
    <3>1. event.after \in WrittenBy(event)
      BY <2>3 DEF WrittenBy
    <3> QED
      BY <2>3, <3>1, UpdateRoutesAccurate
  <2> QED
    BY <1>1, <2>1, <2>2, <2>3, HandleDesiredEvent
<1>2. CASE event \in ActualEvents
  <2>1. ASSUME NEW g \in OneSided
        PROVE  g \in ActualLRPGroups
    BY OneSidedGroups
  <2>2. Accurate(table, NoChange(table))
    BY DEF Accurate, RegistersAt, NoChange
  <2> QED
    BY <1>2, <2>1, <2>2, HandleActualEvent, AddEndpointAccurate, RemoveEndpointAccurate
<1> QED
  BY <1>1, <1>2 DEF Events

\* An accurate change of the table that is emitted keeps the table routed.
LEMMA EmittedChangesAreRouted ==
  ASSUME entries \in Tables, RoutedInv, ~EmitMayFail,
         \A x \in ExternalEndpointInfos : x.port < 65536,
         NEW result \in Results, Accurate(entries, result), Apart(entries, result.entries),
         entries' = result.entries, NEW kept, emit(kept, result.events)
  PROVE  RoutedInv'
<1>1. routes' = Applied(routes, ToMappingRequests(result.events))
  BY EmitApplies
<1>2. HeldMappings(entries) \subseteq routes
  BY DEF RoutedInv
<1>3. HeldMappings(result.entries) \subseteq Applied(routes, ToMappingRequests(result.events))
  BY <1>2, AccurateChangesAreRouted
<1> QED
  BY <1>1, <1>3 DEF RoutedInv

\* HandleNow keeps the table routed.
LEMMA HandleNowRouted ==
  ASSUME entries \in Tables, RoutedInv, Undisturbed, NEW event \in Events,
         event \in HandledNext, HandleNow(event)
  PROVE  RoutedInv'
<1> DEFINE result == handleEvent(entries, event)
<1>1. result \in Results /\ Accurate(entries, result) /\ Apart(entries, result.entries)
  BY HandleEventType, HandleEventAccurate DEF Undisturbed
<1>2. entries' = result.entries /\ emit(upserted, result.events)
  BY DEF HandleNow
<1> HIDE DEF result
<1>3. ~EmitMayFail /\ \A x \in ExternalEndpointInfos : x.port < 65536
  BY DEF Undisturbed
<1> QED
  BY <1>1, <1>2, <1>3, EmittedChangesAreRouted

\* So does the swap at the end of a sync.
LEMMA SwapRouted ==
  ASSUME entries \in Tables, tempTable \in Tables, RoutedInv, Undisturbed,
         pc = "applyToTemp", cachedEvents = <<>>, SwapAndEmit
  PROVE  RoutedInv'
<1> DEFINE result == Swap(entries, tempTable)
<1>1. result \in Results /\ Accurate(entries, result)
  BY SwapType, SwapAccurate
<1>2. entries' = result.entries /\ emit({}, result.events)
  BY DEF SwapAndEmit
<1>3. Apart(entries, result.entries)
  BY DEF Undisturbed, Swap
<1> HIDE DEF result
<1>4. ~EmitMayFail /\ \A x \in ExternalEndpointInfos : x.port < 65536
  BY DEF Undisturbed
<1> QED
  BY <1>1, <1>2, <1>3, <1>4, EmittedChangesAreRouted

\* A new table holds nothing.
LEMMA NewTableHoldsNothing == HeldMappings(NewTable) = {}
<1>1. \A k \in RoutingKeys : createRoutingEvent(k, Lookup(NewTable, k), Registration) = {}
  BY ZeroEntryFields, NothingToAnnounce DEF Lookup, NewTable
<1> QED
  BY <1>1, HeldByAnEntry

\* No step takes the table and the routing API apart.
LEMMA RoutedStep ==
  ASSUME Types, RoutedInv, Undisturbed, [Next]_vars
  PROVE  RoutedInv'
<1>1. CASE entries' = entries /\ routes' = routes
  BY <1>1 DEF RoutedInv
<1>2. CASE HandleEvent
  <2>1. CASE syncing
    BY <1>1, <1>2, <2>1 DEF HandleEvent, Cache
  <2>2. CASE ~syncing
    <3>1. pc = "idle" /\ stream # <<>> /\ HandleNow(Head(stream)) /\ Head(stream) \in Events
      BY <1>2, <2>2, HeadTailProperties DEF HandleEvent, Types, TypeOK, BBSTypes
    <3>2. Head(stream) \in HandledNext
      BY <3>1 DEF HandledNext
    <3> QED
      BY <3>1, <3>2, HandleNowRouted DEF Types, TypeOK
  <2> QED
    BY <2>1, <2>2
<1>3. CASE ApplyCachedEvent
  <2>1. CASE pc = "applyToCurrent"
    <3>1. cachedEvents # <<>> /\ HandleNow(Head(cachedEvents)) /\ Head(cachedEvents) \in Events
      BY <1>3, <2>1, HeadTailProperties DEF ApplyCachedEvent, Types
    <3>2. Head(cachedEvents) \in HandledNext
      BY <2>1, <3>1 DEF HandledNext
    <3> QED
      BY <3>1, <3>2, HandleNowRouted DEF Types, TypeOK
  <2>2. CASE pc # "applyToCurrent"
    BY <1>1, <1>3, <2>2 DEF ApplyCachedEvent
  <2> QED
    BY <2>1, <2>2
<1>4. CASE EndSync
  <2>1. CASE pc = "applyToTemp"
    BY <1>4, <2>1, SwapRouted DEF EndSync, Types, TypeOK
  <2>2. CASE pc # "applyToTemp"
    BY <1>1, <1>4, <2>2 DEF EndSync
  <2> QED
    BY <2>1, <2>2
<1>5. CASE FailOver
  BY <1>5, NewTableHoldsNothing DEF FailOver, RoutedInv
<1>6. CASE \E m \in routes \ upserted : Expire(m)
  BY <1>6 DEF Expire, Undisturbed
<1>7. CASE BeginSync \/ FetchActualLRPs \/ FetchDesiredLRPs \/ BuildTable
  BY <1>1, <1>7 DEF BeginSync, FetchActualLRPs, FetchDesiredLRPs, BuildTable
<1>8. CASE LoseEvents \/ Stabilize \/ BBSStep \/ UNCHANGED vars
  BY <1>1, <1>8 DEF LoseEvents, Stabilize, BBSStep, vars, handlerVars
<1> QED
  BY <1>2, <1>3, <1>4, <1>5, <1>6, <1>7, <1>8 DEF Next, SyncStep, Environment

\* Once caught up, a mapping that the BBS wants and the table holds is at the
\* routing API, and so it is before: neither syncs and the events cached while
\* they run, nor lost events, failed fetches and fail-overs take the two apart.
\* What does is a failing or forgetful routing API, a port of more than 16 bits
\* and the three changes of the table that Undisturbed names.
THEOREM HandlerHeldMappingsAreRouted == Spec /\ []Undisturbed => []HeldMappingsAreRouted
<1>1. Init => RoutedInv
  BY NewTableHoldsNothing DEF Init, RoutedInv
<1>2. RoutedInv => HeldMappingsAreRouted
  BY DEF RoutedInv, HeldMappingsAreRouted
<1> QED
  BY <1>1, <1>2, TypesInit, TypesStep, RoutedStep, PTL DEF Spec


-----------------------------------------------------------------------------
(* When nothing comes between: a BBS that gives addresses and ports once *)

\* Endpoints that are at one address are the same one. An instance and its
\* evacuating twin are two endpoints at one address, so no container that has
\* been an instance evacuates here.
HaveOwnAddresses(groups) ==
  \A g, h \in groups :
    \A k \in NewRoutingKeysFromActual(g), l \in NewRoutingKeysFromActual(h) :
      Resolve(g).ports[k.containerPort] = Resolve(h).ports[l.containerPort] =>
        k = l /\ EndpointKeyOf(g) = EndpointKeyOf(h)

\* None of the desired LRPs only takes ports away from one that it succeeds, for
\* a container port of the same process. Within an epoch ports may be added, or
\* exchanged for others; of two epochs each succeeds the other, so between them
\* no set of ports is a proper part of another.
NoneOnlyTakesPorts(lrps) ==
  \A d, e \in lrps :
    \A k \in NewRoutingKeysFromDesired(d) \cap NewRoutingKeysFromDesired(e) :
      /\ SucceededBy(d.modificationTag, e.modificationTag)
      /\ \A x \in NewExternalEndpoints(k, e) :
           ContainsExternalPort(NewExternalEndpoints(k, d), x.port)
      => \A x \in NewExternalEndpoints(k, d) :
           ContainsExternalPort(NewExternalEndpoints(k, e), x.port)

\* The routing API is reliable, and lrps and groups are all the BBS ever has.
BBSKeepsTo(lrps, groups) ==
  /\ ~EmitMayFail /\ ~MayExpire
  /\ \A x \in ExternalEndpointInfos : x.port < 65536
  /\ \A p \in ProcessGuids : desired[p] \in DesiredLRPs => desired[p] \in lrps
  /\ LiveGroups \subseteq groups

\* Events and tables that are about those alone.
KnownEvents(lrps, groups) ==
  {event \in Events : WrittenBy(event) \subseteq lrps /\ AddedBy(event) \subseteq groups}

KnownTables(lrps, groups) ==
  {table \in Tables : \A k \in RoutingKeys :
     /\ \A ek \in PresentEndpoints(Lookup(table, k)) :
          \E g \in groups : IsEndpointOf(table, k, ek, g)
     /\ \/ Lookup(table, k).externalEndpoints = {}
        \/ \E d \in lrps : /\ k \in NewRoutingKeysFromDesired(d)
                           /\ Lookup(table, k).externalEndpoints = NewExternalEndpoints(k, d)
                           /\ Lookup(table, k).modificationTag = d.modificationTag}

KnownInv(lrps, groups) ==
  /\ stream \in Seq(KnownEvents(lrps, groups))
  /\ cachedEvents \in Seq(KnownEvents(lrps, groups))
  /\ entries \in KnownTables(lrps, groups)
  /\ pc = "applyToTemp" => tempTable \in KnownTables(lrps, groups)
  /\ gotDesired \notin {Nil, Failed} => gotDesired \subseteq lrps
  /\ gotActual \notin {Nil, Failed} => \A g \in gotActual : ResolvedSide(g) \in groups

\* Handling a known event keeps a table known.
LEMMA HandlingKeepsKnown ==
  ASSUME NEW lrps, NEW groups,
         NEW table \in KnownTables(lrps, groups), NEW event \in KnownEvents(lrps, groups)
  PROVE  handleEvent(table, event).entries \in KnownTables(lrps, groups)
<1> DEFINE new == handleEvent(table, event).entries
<1>1. table \in Tables /\ event \in Events
  BY DEF KnownTables, KnownEvents
<1>2. new \in Tables
  BY <1>1, HandleEventType DEF Results
<1>3. ASSUME NEW k \in RoutingKeys, NEW ek \in PresentEndpoints(Lookup(new, k))
      PROVE  \E g \in groups : IsEndpointOf(new, k, ek, g)
  <2>1. CASE \E g \in AddedBy(event) : IsEndpointOf(new, k, ek, g)
    BY <2>1 DEF KnownEvents
  <2>2. CASE /\ ek \in PresentEndpoints(Lookup(table, k))
             /\ Lookup(new, k).endpoints[ek] = Lookup(table, k).endpoints[ek]
    <3>1. PICK g \in groups : IsEndpointOf(table, k, ek, g)
      BY <2>2 DEF KnownTables
    <3> QED
      BY <2>2, <3>1 DEF IsEndpointOf
  <2> QED
    BY <1>1, <2>1, <2>2, HandleEventEndpoints
<1>4. ASSUME NEW k \in RoutingKeys
      PROVE  \/ Lookup(new, k).externalEndpoints = {}
             \/ \E d \in lrps : /\ k \in NewRoutingKeysFromDesired(d)
                                /\ Lookup(new, k).externalEndpoints = NewExternalEndpoints(k, d)
                                /\ Lookup(new, k).modificationTag = d.modificationTag
  <2>1. CASE /\ Lookup(new, k).externalEndpoints = Lookup(table, k).externalEndpoints
             /\ Lookup(new, k).modificationTag = Lookup(table, k).modificationTag
    BY <2>1 DEF KnownTables
  <2>2. CASE Lookup(new, k).externalEndpoints = {}
    BY <2>2
  <2>3. CASE \E d \in WrittenBy(event) :
               /\ k \in NewRoutingKeysFromDesired(d)
               /\ Lookup(new, k).externalEndpoints = NewExternalEndpoints(k, d)
               /\ Lookup(new, k).modificationTag = d.modificationTag
    BY <2>3 DEF KnownEvents
  <2> QED
    BY <1>1, <2>1, <2>2, <2>3, HandleEventRoutes
<1> QED
  BY <1>2, <1>3, <1>4 DEF KnownTables

\* The table that Sync builds from known answers is known.
LEMMA BuiltTableIsKnown ==
  ASSUME NEW lrps, NEW groups, NEW got \in SUBSET DesiredLRPs, got \subseteq lrps,
         NEW gotGroups \in SUBSET ActualLRPGroups,
         \A g \in gotGroups : ResolvedSide(g) \in groups
  PROVE  TableOf(got, gotGroups) \in KnownTables(lrps, groups)
<1> DEFINE T == TableOf(got, gotGroups)
<1>1. T \in Tables
  BY TableOfAt
<1>2. ASSUME NEW k \in RoutingKeys, NEW ek \in PresentEndpoints(Lookup(T, k))
      PROVE  \E g \in groups : IsEndpointOf(T, k, ek, g)
  <2>1. Accounted(groups, <<>>, 0) = groups
    BY NoEvents
  <2>2. EndpointsAccounted(groups, T, <<>>)
    BY <2>1, BuiltEndpointsAccounted DEF GroupsAccounted
  <2> QED
    BY <2>1, <2>2 DEF EndpointsAccounted
<1>3. ASSUME NEW k \in RoutingKeys
      PROVE  \/ Lookup(T, k).externalEndpoints = {}
             \/ \E d \in lrps : /\ k \in NewRoutingKeysFromDesired(d)
                                /\ Lookup(T, k).externalEndpoints = NewExternalEndpoints(k, d)
                                /\ Lookup(T, k).modificationTag = d.modificationTag
  BY BuiltRoutes
<1> QED
  BY <1>1, <1>2, <1>3 DEF KnownTables

\* The event of a change of the BBS is known.
LEMMA ChangeIsKnown ==
  ASSUME NEW lrps, NEW groups, BBSTypes, DatedInv, BBSNext, BBSKeepsTo(lrps, groups)',
         stream \in Seq(KnownEvents(lrps, groups))
  PROVE  stream' \in Seq(KnownEvents(lrps, groups))
<1>1. PICK event \in Events : stream' = Append(stream, event) /\ AddedBy(event) \subseteq LiveGroups'
  BY ChangeAccounts
<1>2. PICK other \in Events :
        /\ stream' = Append(stream, other)
        /\ \A lrp \in WrittenBy(other) : lrp = desired'[lrp.processGuid]
  BY ChangeWrites DEF DatedInv
<1>3. other = event
  <2>1. stream \in Seq(Events)
    BY DEF BBSTypes
  <2>2. Append(stream, event)[Len(stream) + 1] = event /\ Append(stream, other)[Len(stream) + 1] = other
    BY <2>1, AppendProperties
  <2> QED
    BY <1>1, <1>2, <2>2
<1>4. ASSUME NEW lrp \in WrittenBy(event)
      PROVE  lrp \in lrps
  <2>1. lrp \in DesiredLRPs /\ lrp.processGuid \in ProcessGuids
    BY WrittenTypes DEF DesiredLRPs
  <2> QED
    BY <1>2, <1>3, <2>1 DEF BBSKeepsTo
<1>5. event \in KnownEvents(lrps, groups)
  BY <1>1, <1>4 DEF KnownEvents, BBSKeepsTo
<1> QED
  BY <1>1, <1>5, AppendProperties

\* Every step keeps to what is known.
LEMMA KnownStep ==
  ASSUME NEW lrps, NEW groups, Types, DatedInv, KnownInv(lrps, groups),
         BBSKeepsTo(lrps, groups), BBSKeepsTo(lrps, groups)', [Next]_vars
  PROVE  KnownInv(lrps, groups)'
<1> DEFINE KE == KnownEvents(lrps, groups)
           KT == KnownTables(lrps, groups)
<1>1. stream \in Seq(KE) /\ cachedEvents \in Seq(KE) /\ entries \in KT
  BY DEF KnownInv
<1>2. /\ pc = "applyToTemp" => tempTable \in KT
      /\ gotDesired \notin {Nil, Failed} => gotDesired \subseteq lrps
      /\ gotActual \notin {Nil, Failed} => \A g \in gotActual : ResolvedSide(g) \in groups
  BY DEF KnownInv
<1>3. ASSUME stream' \in Seq(KE), cachedEvents' \in Seq(KE), entries' \in KT,
             pc' = "applyToTemp" => tempTable' \in KT,
             gotDesired' \notin {Nil, Failed} => gotDesired' \subseteq lrps,
             gotActual' \notin {Nil, Failed} => \A g \in gotActual' : ResolvedSide(g) \in groups
      PROVE  KnownInv(lrps, groups)'
  BY <1>3 DEF KnownInv
<1>4. ASSUME NEW table \in KT, NEW event \in KE
      PROVE  handleEvent(table, event).entries \in KT
  BY HandlingKeepsKnown
<1>5. CASE BBSStep
  <2>1. BBSTypes /\ BBSNext
    BY <1>5 DEF BBSStep, Types
  <2>2. /\ entries' = entries /\ cachedEvents' = cachedEvents /\ pc' = pc
        /\ gotDesired' = gotDesired /\ gotActual' = gotActual /\ tempTable' = tempTable
    BY <1>5 DEF BBSStep, handlerVars
  <2>3. stream' \in Seq(KE)
    BY <1>1, <2>1, ChangeIsKnown
  <2> HIDE DEF KE, KT
  <2> QED
    BY <1>1, <1>2, <1>3, <2>2, <2>3
<1>6. NewTable \in KT
  <2>1. NewTable \in Tables /\ \A k \in RoutingKeys : Lookup(NewTable, k) = ZeroEntry
    BY DEF NewTable, Tables, Lookup
  <2> QED
    BY <2>1, ZeroEntryFields DEF KnownTables, PresentEndpoints
<1> HIDE DEF KE, KT
<1>7. ASSUME NEW s \in Seq(KE), s # <<>>
      PROVE  Head(s) \in KE /\ Tail(s) \in Seq(KE)
  BY <1>7, HeadTailProperties
<1>8. CASE HandleEvent
  <2>1. /\ pc' = pc /\ tempTable' = tempTable /\ gotActual' = gotActual
        /\ gotDesired' = gotDesired /\ stream # <<>> /\ stream' = Tail(stream)
    BY <1>8 DEF HandleEvent
  <2>2. CASE syncing
    <3>1. cachedEvents' = Append(cachedEvents, Head(stream)) /\ entries' = entries
      BY <1>8, <2>2 DEF HandleEvent, Cache
    <3>2. cachedEvents' \in Seq(KE)
      BY <1>1, <1>7, <2>1, <3>1, AppendProperties
    <3> QED
      BY <1>1, <1>2, <1>3, <1>7, <2>1, <3>1, <3>2
  <2>3. CASE ~syncing
    <3>1. entries' = handleEvent(entries, Head(stream)).entries /\ cachedEvents' = cachedEvents
      BY <1>8, <2>3 DEF HandleEvent, HandleNow
    <3>2. entries' \in KT
      BY <1>1, <1>4, <1>7, <2>1, <3>1
    <3> QED
      BY <1>1, <1>2, <1>3, <1>7, <2>1, <3>1, <3>2
  <2> QED
    BY <2>2, <2>3
<1>9. CASE BeginSync
  <2>1. /\ stream' = stream /\ cachedEvents' = <<>> /\ entries' = entries
        /\ pc' = "fetching" /\ gotDesired' = Nil /\ gotActual' = Nil
    BY <1>9 DEF BeginSync, bbsVars
  <2> QED
    BY <1>1, <1>3, <2>1, EmptySeq
<1>10. CASE FetchActualLRPs
  <2>1. /\ stream' = stream /\ cachedEvents' = cachedEvents /\ entries' = entries /\ pc' = pc
        /\ tempTable' = tempTable /\ gotDesired' = gotDesired
        /\ gotActual' \in {{g \in ActualLRPGroupList : IsRunning(g)}, Failed}
    BY <1>10 DEF FetchActualLRPs, bbsVars
  <2>2. \A g \in ActualLRPGroupList : IsRunning(g) => ResolvedSide(g) \in groups
    BY FetchedGroupsAreLive DEF Types, BBSKeepsTo
  <2> QED
    BY <1>1, <1>2, <1>3, <2>1, <2>2
<1>11. CASE FetchDesiredLRPs
  <2>1. /\ stream' = stream /\ cachedEvents' = cachedEvents /\ entries' = entries /\ pc' = pc
        /\ tempTable' = tempTable /\ gotActual' = gotActual
        /\ gotDesired' \in {DesiredLRPSchedulingInfos, Failed}
    BY <1>11 DEF FetchDesiredLRPs, bbsVars
  <2>2. DesiredLRPSchedulingInfos \subseteq lrps
    BY AnswerTypes DEF Types, BBSKeepsTo, DesiredLRPSchedulingInfos
  <2> QED
    BY <1>1, <1>2, <1>3, <2>1, <2>2
<1>12. CASE BuildTable
  <2>1. /\ stream' = stream /\ cachedEvents' = cachedEvents /\ entries' = entries
        /\ gotDesired' = gotDesired /\ gotActual' = gotActual
        /\ gotDesired # Nil /\ gotActual # Nil
    BY <1>12 DEF BuildTable, bbsVars
  <2>2. ASSUME pc' = "applyToTemp" PROVE tempTable' \in KT
    <3>1. gotActual # Failed /\ gotDesired # Failed /\ tempTable' = TableOf(gotDesired, gotActual)
      BY <1>12, <2>2 DEF BuildTable
    <3>2. gotActual \in SUBSET ActualLRPGroups /\ gotDesired \in SUBSET DesiredLRPs
      BY <2>1, <3>1 DEF Types, TypeOK
    <3> QED
      BY <1>2, <2>1, <3>1, <3>2, BuiltTableIsKnown DEF KT
  <2> QED
    BY <1>1, <1>2, <1>3, <2>1, <2>2
<1>13. CASE ApplyCachedEvent
  <2>1. /\ stream' = stream /\ pc' = pc /\ gotActual' = gotActual /\ gotDesired' = gotDesired
        /\ cachedEvents # <<>> /\ cachedEvents' = Tail(cachedEvents)
    BY <1>13 DEF ApplyCachedEvent, bbsVars
  <2>2. CASE /\ pc = "applyToCurrent"
             /\ HandleNow(Head(cachedEvents))
             /\ UNCHANGED tempTable
    <3>1. entries' \in KT
      BY <1>1, <1>4, <1>7, <2>1, <2>2 DEF HandleNow
    <3> QED
      BY <1>1, <1>2, <1>3, <1>7, <2>1, <2>2, <3>1
  <2>3. CASE /\ pc = "applyToTemp"
             /\ tempTable' = handleEvent(tempTable, Head(cachedEvents)).entries
             /\ UNCHANGED <<entries, routes, upserted>>
    <3>1. tempTable' \in KT
      BY <1>1, <1>2, <1>4, <1>7, <2>1, <2>3
    <3> QED
      BY <1>1, <1>2, <1>3, <1>7, <2>1, <2>3, <3>1
  <2> QED
    BY <1>13, <2>2, <2>3 DEF ApplyCachedEvent
<1>14. CASE EndSync
  <2>1. /\ stream' = stream /\ pc' = "idle" /\ cachedEvents' = cachedEvents
        /\ gotDesired' = Nil /\ gotActual' = Nil
    BY <1>14 DEF EndSync, SyncCompleted, bbsVars
  <2>2. entries' \in KT
    BY <1>1, <1>2, <1>14 DEF EndSync, SwapAndEmit, Swap
  <2> QED
    BY <1>1, <1>3, <2>1, <2>2
<1>15. CASE LoseEvents
  <2>1. /\ stream' = <<>> /\ pc' = pc /\ cachedEvents' = cachedEvents /\ entries' = entries
        /\ tempTable' = tempTable /\ gotDesired' = gotDesired /\ gotActual' = gotActual
    BY <1>15 DEF LoseEvents, handlerVars
  <2> QED
    BY <1>1, <1>2, <1>3, <2>1, EmptySeq
<1>16. CASE FailOver
  <2>1. /\ stream' = <<>> /\ pc' = "idle" /\ cachedEvents' = <<>> /\ entries' = NewTable
        /\ gotDesired' = Nil /\ gotActual' = Nil
    BY <1>16 DEF FailOver
  <2> QED
    BY <1>3, <1>6, <2>1, EmptySeq
<1>17. CASE Stabilize \/ (\E m \in routes \ upserted : Expire(m)) \/ UNCHANGED vars
  <2>1. /\ stream' = stream /\ pc' = pc /\ cachedEvents' = cachedEvents /\ entries' = entries
        /\ tempTable' = tempTable /\ gotDesired' = gotDesired /\ gotActual' = gotActual
    BY <1>17 DEF Stabilize, Expire, vars, bbsVars, handlerVars
  <2> QED
    BY <1>1, <1>2, <1>3, <2>1
<1> QED
  BY <1>5, <1>8, <1>9, <1>10, <1>11, <1>12, <1>13, <1>14, <1>15, <1>16, <1>17
     DEF Next, SyncStep, Environment

\* Nothing is known at first.
LEMMA KnownInit ==
  ASSUME NEW lrps, NEW groups, Init
  PROVE  KnownInv(lrps, groups)
<1>1. NewTable \in Tables /\ \A k \in RoutingKeys : Lookup(NewTable, k) = ZeroEntry
  BY DEF NewTable, Tables, Lookup
<1>2. NewTable \in KnownTables(lrps, groups)
  BY <1>1, ZeroEntryFields DEF KnownTables, PresentEndpoints
<1> QED
  BY <1>2, EmptySeq DEF Init, BBSInit, KnownInv

\* Between known tables, no address changes its routing key.
LEMMA KnownTablesAreApart ==
  ASSUME NEW lrps, NEW groups, HaveOwnAddresses(groups),
         NEW old \in KnownTables(lrps, groups), NEW new \in KnownTables(lrps, groups)
  PROVE  Apart(old, new)
<1> SUFFICES ASSUME NEW k \in RoutingKeys, NEW l \in RoutingKeys,
                    NEW a \in AddressesAt(old, k), a \in AddressesAt(new, l)
             PROVE  k = l
  BY DEF Apart
<1>1. PICK i \in PresentEndpoints(Lookup(old, k)) : a = Lookup(old, k).endpoints[i].address
  BY DEF AddressesAt
<1>2. PICK j \in PresentEndpoints(Lookup(new, l)) : a = Lookup(new, l).endpoints[j].address
  BY DEF AddressesAt
<1>3. PICK g \in groups : IsEndpointOf(old, k, i, g)
  BY <1>1 DEF KnownTables
<1>4. PICK h \in groups : IsEndpointOf(new, l, j, h)
  BY <1>2 DEF KnownTables
<1>5. Resolve(g).ports[k.containerPort] = a
  BY <1>1, <1>3 DEF IsEndpointOf, NewEndpointFromActual
<1>6. Resolve(h).ports[l.containerPort] = a
  BY <1>2, <1>4 DEF IsEndpointOf, NewEndpointFromActual
<1> QED
  BY <1>3, <1>4, <1>5, <1>6 DEF HaveOwnAddresses, IsEndpointOf

\* A known table has no two endpoints at one address.
LEMMA KnownTablesHaveNoTwins ==
  ASSUME NEW lrps, NEW groups, HaveOwnAddresses(groups),
         NEW table \in KnownTables(lrps, groups), NEW gone \in ActualLRPGroups
  PROVE  LeavesNoTwin(table, gone)
<1> DEFINE key == EndpointKeyOf(gone)
<1> SUFFICES ASSUME NEW k \in KeysToReduce(table, gone),
                    NEW i \in PresentEndpoints(Lookup(table, k)),
                    Lookup(table, k).endpoints[i].address = Lookup(table, k).endpoints[key].address
             PROVE  i = key
  BY DEF LeavesNoTwin
<1>1. k \in RoutingKeys /\ key \in PresentEndpoints(Lookup(table, k))
  BY ResolveType DEF KeysToReduce, NewRoutingKeysFromActual, PresentEndpoints
<1>2. PICK g \in groups : IsEndpointOf(table, k, i, g)
  BY <1>1 DEF KnownTables
<1>3. PICK h \in groups : IsEndpointOf(table, k, key, h)
  BY <1>1 DEF KnownTables
<1>4. Resolve(g).ports[k.containerPort] = Resolve(h).ports[k.containerPort]
  BY <1>2, <1>3 DEF IsEndpointOf, NewEndpointFromActual
<1>5. EndpointKeyOf(g) = EndpointKeyOf(h)
  BY <1>2, <1>3, <1>4 DEF HaveOwnAddresses, IsEndpointOf
<1> QED
  BY <1>2, <1>3, <1>5 DEF IsEndpointOf

\* No known desired LRP only takes ports away from a known table.
LEMMA KnownTablesLoseNoPortOnly ==
  ASSUME NEW lrps, NEW groups, NoneOnlyTakesPorts(lrps),
         NEW table \in KnownTables(lrps, groups), NEW d \in lrps
  PROVE  TakesNoPortOnly(table, d)
<1> SUFFICES ASSUME NEW k \in KeysToMerge(table, d),
                    ~RegistrationNeeded(Lookup(table, k), NewExternalEndpoints(k, d)),
                    NEW x \in Lookup(table, k).externalEndpoints
             PROVE  ContainsExternalPort(NewExternalEndpoints(k, d), x.port)
  BY DEF TakesNoPortOnly
<1>1. k \in NewRoutingKeysFromDesired(d) /\ k \in RoutingKeys
  BY DEF KeysToMerge, NewRoutingKeysFromDesired
<1>2. PICK old \in lrps : /\ k \in NewRoutingKeysFromDesired(old)
                          /\ Lookup(table, k).externalEndpoints = NewExternalEndpoints(k, old)
                          /\ Lookup(table, k).modificationTag = old.modificationTag
  BY <1>1 DEF KnownTables
<1>3. \A y \in NewExternalEndpoints(k, d) : ContainsExternalPort(NewExternalEndpoints(k, old), y.port)
  BY <1>2 DEF RegistrationNeeded
<1>4. SucceededBy(old.modificationTag, d.modificationTag)
  BY <1>2 DEF KeysToMerge
<1> QED
  BY <1>1, <1>2, <1>3, <1>4 DEF NoneOnlyTakesPorts

\* What an event removes is a group.
LEMMA RemovedTypes ==
  ASSUME NEW event \in Events
  PROVE  RemovedBy(event) \subseteq ActualLRPGroups
<1>1. CASE event \in DesiredEvents
  BY <1>1, HandleDesiredEvent
<1>2. CASE event \in ActualEvents
  BY <1>2, HandleActualEvent, OneSidedGroups
<1> QED
  BY <1>1, <1>2 DEF Events

\* So nothing that is known disturbs.
LEMMA KnownIsUndisturbed ==
  ASSUME NEW lrps, NEW groups, NoneOnlyTakesPorts(lrps), HaveOwnAddresses(groups),
         KnownInv(lrps, groups), BBSKeepsTo(lrps, groups)
  PROVE  Undisturbed
<1>1. entries \in KnownTables(lrps, groups)
  BY DEF KnownInv
<1>2. ASSUME NEW event \in HandledNext
      PROVE  /\ Apart(entries, handleEvent(entries, event).entries)
             /\ \A d \in WrittenBy(event) : TakesNoPortOnly(entries, d)
             /\ \A g \in RemovedBy(event) : LeavesNoTwin(entries, g)
  <2>1. event \in KnownEvents(lrps, groups)
    <3>1. stream # <<>> => Head(stream) \in KnownEvents(lrps, groups)
      BY HeadTailProperties DEF KnownInv
    <3>2. cachedEvents # <<>> => Head(cachedEvents) \in KnownEvents(lrps, groups)
      BY HeadTailProperties DEF KnownInv
    <3> QED
      BY <3>1, <3>2 DEF HandledNext
  <2>2. handleEvent(entries, event).entries \in KnownTables(lrps, groups)
    BY <1>1, <2>1, HandlingKeepsKnown
  <2>3. event \in Events /\ WrittenBy(event) \subseteq lrps
    BY <2>1 DEF KnownEvents
  <2>4. Apart(entries, handleEvent(entries, event).entries)
    BY <1>1, <2>2, KnownTablesAreApart
  <2>5. \A d \in WrittenBy(event) : TakesNoPortOnly(entries, d)
    BY <1>1, <2>3, KnownTablesLoseNoPortOnly
  <2>6. \A g \in RemovedBy(event) : LeavesNoTwin(entries, g)
    BY <1>1, <2>3, RemovedTypes, KnownTablesHaveNoTwins
  <2> QED
    BY <2>4, <2>5, <2>6
<1>3. pc = "applyToTemp" => Apart(entries, tempTable)
  BY <1>1, KnownTablesAreApart DEF KnownInv
<1>4. ~EmitMayFail /\ ~MayExpire /\ \A x \in ExternalEndpointInfos : x.port < 65536
  BY DEF BBSKeepsTo
<1> QED
  BY <1>2, <1>3, <1>4 DEF Undisturbed

\* A BBS that keeps to what is known disturbs nothing.
LEMMA BBSDisturbsNothing ==
  ASSUME NEW CONSTANT lrps, NEW CONSTANT groups,
         NoneOnlyTakesPorts(lrps), HaveOwnAddresses(groups)
  PROVE  Spec /\ []BBSKeepsTo(lrps, groups) => []Undisturbed
<1>1. Init => DatedInv /\ KnownInv(lrps, groups)
  BY RoutesInit, KnownInit
<1>2. /\ Types /\ DatedInv /\ KnownInv(lrps, groups) /\ [Next]_vars
      /\ BBSKeepsTo(lrps, groups) /\ BBSKeepsTo(lrps, groups)'
      => KnownInv(lrps, groups)'
  BY KnownStep
<1>3. KnownInv(lrps, groups) /\ BBSKeepsTo(lrps, groups) => Undisturbed
  BY KnownIsUndisturbed
<1> QED
  BY <1>1, <1>2, <1>3, TypesInit, TypesStep, DatedStep, PTL DEF Spec

\* The same without a word about the table: where no address comes to a second
\* endpoint, by another container or by an evacuation, and no desired LRP only
\* takes ports away from one that it succeeds, the routing API has every mapping
\* that is wanted and held, whatever the order of events, syncs, losses and
\* fail-overs. What the BBS hands out can disturb the mappings, and not when the
\* handler learns of it.
THEOREM HandlerRoutesOwnAddresses ==
  ASSUME NEW CONSTANT lrps, NEW CONSTANT groups,
         NoneOnlyTakesPorts(lrps), HaveOwnAddresses(groups)
  PROVE  Spec /\ []BBSKeepsTo(lrps, groups) => []HeldMappingsAreRouted
BY BBSDisturbsNothing, HandlerHeldMappingsAreRouted, PTL

=============================================================================
