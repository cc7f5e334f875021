------------------------ MODULE RoutingTableHandler ------------------------
(***************************************************************************)
(* Package routing_table: the handler that applies BBS events to the       *)
(* routing table, runs bulk syncs against the BBS and gives the routing    *)
(* events of both to the emitter.                                          *)
(*                                                                         *)
(* The handler is made for an event source that calls HandleEvent while    *)
(* Sync is fetching: its mutex keeps HandleEvent out of the two critical   *)
(* sections of Sync, and events are cached in between.  The watcher of     *)
(* this program calls both from one loop, so that events wait until Sync   *)
(* has returned.  HandleDuringSync chooses between the two.  The fetches   *)
(* run in goroutines of their own and read the BBS at different moments.   *)
(*                                                                         *)
(* routes is the set of mappings the routing API holds (external).  Emit   *)
(* runs under the handler's mutex and is one step here, whose outcomes are *)
(* the ones module Emitter shows an Emit to have.  The routing API drops a *)
(* mapping that is not upserted for the time to live, which is longer than *)
(* a sync interval (module Refresh).                                       *)
(*                                                                         *)
(* When the emitter ends or loses its lock, another one takes over with an *)
(* empty table (module Lifecycle).                                         *)
(***************************************************************************)
EXTENDS BBS, RoutingAPI

CONSTANTS
  HandleDuringSync,  \* whether HandleEvent is called while Sync runs
  EmitMayFail,       \* whether requests to UAA and the routing API may fail
  FetchMayFail,      \* whether requests to the BBS may fail
  MayLoseEvents,     \* whether events are lost while the watcher resubscribes
  MayFailOver,       \* whether another emitter may take over
  MayExpire,         \* whether mappings expire
  MayStabilize,      \* whether failures may come to an end
  Failed             \* the answer to a failed request

ASSUME HandlerAssumption ==
  /\ {HandleDuringSync, EmitMayFail, FetchMayFail,
      MayLoseEvents, MayFailOver, MayExpire, MayStabilize} \subseteq BOOLEAN
  /\ Failed # Nil

VARIABLES
  entries,        \* handler.routingTable
  syncing,        \* handler.syncing
  cachedEvents,   \* handler.cachedEvents
  pc,             \* where Sync is
  gotActual,      \* runningActualLRPs, Failed, or Nil before the answer
  gotDesired,     \* desiredLRPSchedulingInfos, Failed, or Nil
  tempTable,      \* tempRoutingTable, or Nil
  routes,         \* the mappings the routing API holds
  upserted,       \* those known to have been upserted since the last sync ended
  stable,         \* whether requests have stopped failing for good
  tracking,       \* whether the table has seen all the BBS did
  steady          \* the mappings the BBS has wanted since the sync began

handlerVars == <<entries, syncing, cachedEvents, pc, gotActual, gotDesired,
                 tempTable, routes, upserted>>

\* tracking and steady only serve to state the properties.
vars == <<bbsVars, handlerVars, stable, tracking, steady>>

\* Route r of desired LRP d and the running actual LRP of group g call for a
\* mapping.  A port 0 disqualifies all routes of its container port
\* (event_test.go).
CallForMapping(d, r, g) ==
  /\ \A s \in d.routes : s.containerPort = r.containerPort => s.external.port # 0
  /\ d.processGuid = Resolve(g).processGuid
  /\ Resolve(g).state = "RUNNING"
  /\ Resolve(g).ports[r.containerPort] # Nil

MappingOf(r, g) ==
  [routerGroupGuid |-> r.external.routerGroupGuid,
   port            |-> r.external.port,
   address         |-> Resolve(g).ports[r.containerPort]]

\* The mappings that the desired and the running actual LRPs call for.
Wanted ==
  UNION {{MappingOf(r, g) : r \in {s \in d.routes : CallForMapping(d, s, g)}} :
           d \in DesiredLRPSchedulingInfos, g \in ActualLRPGroupList}

-----------------------------------------------------------------------------
(* Emit *)

EmitOutcomes(api, events) ==
  IF events = {} THEN {api}
  ELSE IF EmitMayFail /\ ~stable THEN Outcomes(api, ToMappingRequests(events))
  ELSE {Applied(api, ToMappingRequests(events))}

\* Emit events, when the mappings in kept have a life ahead of them.  As long
\* as requests fail no mapping is sure to.
emit(kept, events) ==
  /\ routes' \in EmitOutcomes(routes, events)
  /\ upserted' = IF stable THEN Applied(kept, ToMappingRequests(events)) ELSE {}

-----------------------------------------------------------------------------
(* handleEvent: the table operation an event stands for. *)

NoChange(table) == [entries |-> table, events |-> {}]

IsRunning(group) == Resolve(group).state = "RUNNING"

handleActualCreate(table, group) ==
  IF IsRunning(group) THEN AddEndpoint(table, group) ELSE NoChange(table)

handleActualUpdate(table, before, after) ==
  CASE IsRunning(after) -> AddEndpoint(table, after)
    [] ~IsRunning(after) /\ IsRunning(before) -> RemoveEndpoint(table, before)
    [] OTHER -> NoChange(table)

handleActualDelete(table, group) ==
  IF IsRunning(group) THEN RemoveEndpoint(table, group) ELSE NoChange(table)

DesiredLRPSchedulingInfo(lrp) ==
  [processGuid |-> lrp.processGuid, routes |-> lrp.routes,
   modificationTag |-> lrp.modificationTag]

handleDesiredCreate(table, lrp) == AddRoutes(table, DesiredLRPSchedulingInfo(lrp))

handleDesiredUpdate(table, before, after) ==
  UpdateRoutes(table, DesiredLRPSchedulingInfo(before), DesiredLRPSchedulingInfo(after))

handleDesiredDelete(table, lrp) == RemoveRoutes(table, DesiredLRPSchedulingInfo(lrp))

handleEvent(table, event) ==
  CASE event.type = "DesiredLRPCreatedEvent" -> handleDesiredCreate(table, event.desiredLRP)
    [] event.type = "DesiredLRPChangedEvent" -> handleDesiredUpdate(table, event.before, event.after)
    [] event.type = "DesiredLRPRemovedEvent" -> handleDesiredDelete(table, event.desiredLRP)
    [] event.type = "ActualLRPCreatedEvent"  -> handleActualCreate(table, event.group)
    [] event.type = "ActualLRPChangedEvent"  -> handleActualUpdate(table, event.before, event.after)
    [] event.type = "ActualLRPRemovedEvent"  -> handleActualDelete(table, event.group)

\* Apply an event to the current table and emit what it returns.
HandleNow(event) ==
  LET result == handleEvent(entries, event) IN
  /\ entries' = result.entries
  /\ emit(upserted, result.events)

\* Mutant: the event is dropped.
CacheNothing(event) == UNCHANGED <<cachedEvents, entries, routes, upserted>>

Cache(event) ==
  /\ cachedEvents' = Append(cachedEvents, event)
  /\ UNCHANGED <<entries, routes, upserted>>

\* The handler's mutex keeps events out of the critical sections of Sync.
HandleEvent ==
  /\ pc \in {"idle", "fetching"}
  /\ stream # <<>>
  /\ stream' = Tail(stream)
  /\ IF syncing
       THEN Cache(Head(stream))
       ELSE /\ HandleNow(Head(stream))
            /\ UNCHANGED cachedEvents
  /\ UNCHANGED <<desired, actual, fresh, changes, syncing, pc, gotActual,
                 gotDesired, tempTable, stable, tracking, steady>>

-----------------------------------------------------------------------------
(* Sync *)

BeginSync ==
  /\ pc = "idle"
  /\ pc' = "fetching"
  /\ cachedEvents' = <<>>
  /\ syncing' = TRUE
  /\ gotActual' = Nil
  /\ gotDesired' = Nil
  /\ tempTable' = Nil
  /\ tracking' = IF tracking = "lost" THEN "recovering" ELSE tracking
  /\ steady' = Wanted
  /\ UNCHANGED <<bbsVars, entries, routes, upserted, stable>>

FetchActualLRPs ==
  /\ pc = "fetching"
  /\ gotActual = Nil
  /\ \/ gotActual' = {g \in ActualLRPGroupList : IsRunning(g)}
     \/ FetchMayFail /\ ~stable /\ gotActual' = Failed
  /\ UNCHANGED <<bbsVars, entries, syncing, cachedEvents, pc, gotDesired,
                 tempTable, routes, upserted, stable, tracking, steady>>

FetchDesiredLRPs ==
  /\ pc = "fetching"
  /\ gotDesired = Nil
  /\ \/ gotDesired' = DesiredLRPSchedulingInfos
     \/ FetchMayFail /\ ~stable /\ gotDesired' = Failed
  /\ UNCHANGED <<bbsVars, entries, syncing, cachedEvents, pc, gotActual,
                 tempTable, routes, upserted, stable, tracking, steady>>

\* AddRoutes for every desired LRP, then AddEndpoint for every running actual
\* LRP, on a new table.  The BBS has one desired LRP per process guid and one
\* group per instance guid, so no two of these calls meet at a key and the
\* loops are written key by key.
TableOfRoutes(lrps) ==
  [k \in RoutingKeys |->
     IF \E d \in lrps : k \in KeysToMerge(NewTable, d)
       THEN mergeRoutesEntry(NewTable, k, CHOOSE d \in lrps : k \in KeysToMerge(NewTable, d))
       ELSE Nil]

TableOf(lrps, groups) ==
  LET routed == TableOfRoutes(lrps)
      at(k)  == {g \in groups : k \in NewRoutingKeysFromActual(g)}
  IN  [k \in RoutingKeys |->
         IF at(k) = {} THEN routed[k]
         ELSE [Lookup(routed, k) EXCEPT !.endpoints =
                 [ek \in EndpointKeys |->
                    IF \E g \in at(k) : EndpointKeyOf(g) = ek
                      THEN NewEndpointFromActual(CHOOSE g \in at(k) : EndpointKeyOf(g) = ek,
                                                 k.containerPort)
                      ELSE Nil]]]

\* Mutant: a failed fetch counts as an empty answer.
BuildTableIgnoringErrors ==
  LET answer(got) == IF got = Failed THEN {} ELSE got IN
  /\ pc = "fetching"
  /\ gotActual # Nil /\ gotDesired # Nil
  /\ tempTable' = TableOf(answer(gotDesired), answer(gotActual))
  /\ pc' = IF RouteCount(tempTable') = 0 THEN "applyToCurrent" ELSE "applyToTemp"
  /\ UNCHANGED <<bbsVars, entries, syncing, cachedEvents, gotActual,
                 gotDesired, routes, upserted, stable, tracking, steady>>

\* wg.Wait, the construction of the new table, and the test that decides
\* which table the cached events go to; the lock is held from here on.
BuildTable ==
  /\ pc = "fetching"
  /\ gotActual # Nil /\ gotDesired # Nil
  /\ tempTable' = IF gotActual = Failed \/ gotDesired = Failed
                    THEN Nil ELSE TableOf(gotDesired, gotActual)
  /\ pc' = IF tempTable' = Nil \/ RouteCount(tempTable') = 0
             THEN "applyToCurrent" ELSE "applyToTemp"
  /\ UNCHANGED <<bbsVars, entries, syncing, cachedEvents, gotActual,
                 gotDesired, routes, upserted, stable, tracking, steady>>

\* One turn of a loop of applyCachedEvents.
ApplyCachedEvent ==
  /\ cachedEvents # <<>>
  /\ cachedEvents' = Tail(cachedEvents)
  /\ \/ /\ pc = "applyToCurrent"
        /\ HandleNow(Head(cachedEvents))
        /\ UNCHANGED tempTable
     \/ /\ pc = "applyToTemp"
        /\ tempTable' = handleEvent(tempTable, Head(cachedEvents)).entries
        /\ UNCHANGED <<entries, routes, upserted>>
  /\ UNCHANGED <<bbsVars, syncing, pc, gotActual, gotDesired, stable, tracking, steady>>

\* Mutant: handler.emitter is still nil.
SwapWithoutEmitter == entries' = tempTable /\ UNCHANGED <<routes, upserted>>

\* Swap the new table in and emit what that returns.
SwapAndEmit ==
  LET result == Swap(entries, tempTable) IN
  /\ entries' = result.entries
  /\ emit({}, result.events)

\* Mutant: syncing is not reset.
SyncCompletedStillSyncing ==
  /\ pc' = "idle"
  /\ UNCHANGED syncing
  /\ gotActual' = Nil
  /\ gotDesired' = Nil
  /\ tempTable' = Nil

SyncCompleted ==
  /\ pc' = "idle"
  /\ syncing' = FALSE
  /\ gotActual' = Nil
  /\ gotDesired' = Nil
  /\ tempTable' = Nil

\* The end of applyCachedEvents and of Sync.
EndSync ==
  /\ cachedEvents = <<>>
  /\ \/ /\ pc = "applyToCurrent"
        /\ tracking' = IF tracking = "recovering" THEN "lost" ELSE tracking
        /\ upserted' = {}
        /\ UNCHANGED <<entries, routes>>
     \/ /\ pc = "applyToTemp"
        /\ SwapAndEmit
        /\ tracking' = IF tracking = "recovering" THEN "tracking" ELSE tracking
  /\ SyncCompleted
  /\ steady' = {}
  /\ UNCHANGED <<bbsVars, cachedEvents, stable>>

-----------------------------------------------------------------------------
(* Environment *)

\* The subscription breaks and the events on their way are lost.
LoseEvents ==
  /\ MayLoseEvents
  /\ stream # <<>>
  /\ stream' = <<>>
  /\ tracking' = "lost"
  /\ UNCHANGED <<desired, actual, fresh, changes, handlerVars, stable, steady>>

\* The emitter ends and another one, which has waited for the lock, starts
\* with a new table, handler and subscription.
FailOver ==
  /\ MayFailOver /\ ~stable
  /\ entries' = NewTable
  /\ syncing' = FALSE
  /\ cachedEvents' = <<>>
  /\ pc' = "idle"
  /\ gotActual' = Nil /\ gotDesired' = Nil /\ tempTable' = Nil
  /\ stream' = <<>>
  /\ tracking' = "lost"
  /\ steady' = {}
  /\ UNCHANGED <<desired, actual, fresh, changes, routes, upserted, stable>>

\* The routing API drops a mapping at the end of its time to live.
Expire(m) ==
  /\ MayExpire
  /\ routes' = routes \ {m}
  /\ UNCHANGED <<bbsVars, entries, syncing, cachedEvents, pc, gotActual, gotDesired,
                 tempTable, upserted, stable, tracking, steady>>

\* From here on every request to the BBS, UAA and the routing API succeeds,
\* and no emitter ends.
Stabilize ==
  /\ MayStabilize /\ ~stable
  /\ stable' = TRUE
  /\ UNCHANGED <<bbsVars, handlerVars, tracking, steady>>

BBSStep ==
  /\ BBSNext
  /\ steady' = steady \cap Wanted'
  /\ UNCHANGED <<handlerVars, stable, tracking>>

Init ==
  /\ BBSInit
  /\ entries = NewTable
  /\ syncing = FALSE
  /\ cachedEvents = <<>>
  /\ pc = "idle"
  /\ gotActual = Nil /\ gotDesired = Nil /\ tempTable = Nil
  /\ routes = {}
  /\ upserted = {}
  /\ stable = FALSE
  /\ tracking = "lost"
  /\ steady = {}

SyncStep ==
  \/ FetchActualLRPs
  \/ FetchDesiredLRPs
  \/ BuildTable
  \/ ApplyCachedEvent
  \/ EndSync

Environment ==
  \/ LoseEvents
  \/ FailOver
  \/ \E m \in routes \ upserted : Expire(m)
  \/ Stabilize
  \/ BBSStep

Next ==
  \/ (pc = "idle" \/ HandleDuringSync) /\ HandleEvent
  \/ BeginSync
  \/ SyncStep
  \/ Environment

Spec == Init /\ [][Next]_vars

\* The handler whose caller waits for Sync before it hands over an event.
SerialNext ==
  \/ pc = "idle" /\ HandleEvent
  \/ BeginSync
  \/ SyncStep
  \/ Environment

SerialSpec == Init /\ [][SerialNext]_vars

\* The watcher delivers what the BBS sends, the syncer keeps asking for syncs,
\* every Sync returns because its requests are answered or fail, and a mapping
\* that is no longer upserted expires.  Nothing obliges requests to stop
\* failing.
Fairness ==
  /\ []<>(stream = <<>>)
  /\ []<>(pc = "idle")
  /\ WF_vars(BeginSync)
  /\ WF_vars(\E m \in routes \ upserted : Expire(m))

FairSpec == Spec /\ Fairness

-----------------------------------------------------------------------------
(* Properties *)

RunningGroups == {g \in ActualLRPGroupList : IsRunning(g)}

SnapshotTable == TableOf(DesiredLRPSchedulingInfos, RunningGroups)

HeldMappings(table) == ToMappingRequests(GetRoutingEvents(table)).upserts

\* A usable sync has been made since events were last lost, and the handler
\* has nothing left to do.
CaughtUp == pc = "idle" /\ stream = <<>> /\ tracking = "tracking"

\* The handler's fields and the locals of Sync have their types.
TypeOK ==
  /\ entries \in Tables
  /\ syncing = (pc # "idle")
  /\ pc \in {"idle", "fetching", "applyToCurrent", "applyToTemp"}
  /\ gotActual \in {Nil, Failed} \cup SUBSET ActualLRPGroups
  /\ gotDesired \in {Nil, Failed} \cup SUBSET DesiredLRPs
  /\ tempTable \in Tables \cup {Nil}
  /\ routes \subseteq TcpRouteMappings
  /\ upserted \subseteq TcpRouteMappings
  /\ stable \in BOOLEAN
  /\ tracking \in {"lost", "recovering", "tracking"}

\* Once caught up, every endpoint of the table is a container the BBS reports
\* as running there: events that were cached during a sync, older than the
\* snapshot or newer, never leave a dead backend behind.
NoGhostEndpoints ==
  CaughtUp =>
    \A k \in RoutingKeys : \A ek \in PresentEndpoints(Lookup(entries, k)) :
      \E g \in ActualLRPGroupList :
        LET lrp == IF ek.evacuating THEN g.evacuating ELSE g.instance IN
        /\ lrp # Nil
        /\ lrp.state = "RUNNING"
        /\ lrp.instanceGuid = ek.instanceGuid
        /\ lrp.ports[k.containerPort] = entries[k].endpoints[ek].address

\* Once caught up, no desired route is missing from the table, whichever of
\* its updates arrived before, during or after a sync.
DesiredRoutesArePresent ==
  CaughtUp =>
    \A d \in DesiredLRPSchedulingInfos : \A r \in d.routes :
      ContainsExternalPort(
        Lookup(entries, [processGuid   |-> d.processGuid,
                         containerPort |-> r.containerPort]).externalEndpoints,
        r.external.port)

\* Once caught up, a mapping that the BBS wants and the table holds is at the
\* routing API ("Emits the external port to internal port mappings to tcp
\* router", README.md).
HeldMappingsAreRouted ==
  CaughtUp => Wanted \cap HeldMappings(entries) \subseteq routes

\* Once caught up, every mapping that the BBS wants is one the table holds and
\* the routing API has been told of (README.md).
WantedMappingsAreRouted == CaughtUp => Wanted \subseteq routes

\* A bulk sync never takes down a route that stayed wanted while it ran.
SyncKeepsSteadyMappings ==
  [][pc = "applyToTemp" /\ pc' = "idle" => routes \cap steady \subseteq routes']_vars

\* Once requests have stopped failing and the BBS is at rest, the routing API
\* ends up with exactly the wanted mappings and a table that is not empty with
\* exactly the routes and backends of the BBS, whatever was lost, failed or
\* left behind by an emitter before.
Converges ==
  stable ~> [](/\ routes = Wanted
               /\ RouteCount(SnapshotTable) > 0 => entries = SnapshotTable)
=============================================================================
