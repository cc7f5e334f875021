-------------------------------- MODULE BBS --------------------------------
(***************************************************************************)
(* The BBS as the emitter sees it (external): its desired and actual LRPs, *)
(* and the stream of events about their changes that the watcher delivers  *)
(* in order to the routing table handler.                                  *)
(*                                                                         *)
(* A desired LRP that is created again has a new epoch.  Its removal event *)
(* carries the tag last stored or a newer one; nothing here decides which. *)
(* Instance guids are never used twice, while the host port of a stopped   *)
(* container may be given to another one.                                  *)
(***************************************************************************)
EXTENDS MappingRequests, Sequences

CONSTANTS
  Indexes,      \* instance indexes of a process
  RouteSets,    \* the sets of TCP routes a process may desire
  Evacuation,   \* whether cells evacuate
  MaxChanges    \* bound on the changes of the BBS in a behaviour

ASSUME BBSAssumption ==
  /\ RouteSets \subseteq SUBSET TCPRoutes
  /\ Epochs # {}
  /\ Evacuation \in BOOLEAN
  /\ MaxChanges \in Nat

VARIABLES
  desired,      \* desired[p]: the desired LRP of process p, or Nil
  actual,       \* actual[l]: the group of LRP key l
  stream,       \* events the handler has not received yet
  fresh,        \* epochs (per process) and instance guids not used so far
  changes       \* number of changes so far

bbsVars == <<desired, actual, stream, fresh, changes>>

LRPKeys == [processGuid : ProcessGuids, index : Indexes]

NoGroup == [instance |-> Nil, evacuating |-> Nil]

Only(lrp) == [instance |-> lrp, evacuating |-> Nil]

OnlyEvacuating(lrp) == [instance |-> Nil, evacuating |-> lrp]

\* What DesiredLRPSchedulingInfos and ActualLRPGroups answer.
DesiredLRPSchedulingInfos == {desired[p] : p \in ProcessGuids} \ {Nil}

ActualLRPGroupList == {actual[l] : l \in LRPKeys} \ {NoGroup}

Unbound == [c \in ContainerPorts |-> Nil]

\* Addresses of the containers that exist.
InUse ==
  UNION {{lrp.ports[c] : c \in ContainerPorts} :
           lrp \in UNION {{actual[l].instance, actual[l].evacuating} : l \in LRPKeys} \ {Nil}}

Bindings ==
  {b \in [ContainerPorts -> Addresses \ InUse] :
     \A c1, c2 \in ContainerPorts : b[c1] = b[c2] => c1 = c2}

Bump(t) == [t EXCEPT !.index = @ + 1]

AnyEpoch == CHOOSE e \in Epochs : TRUE

FirstTag(e) == [epoch |-> e, index |-> 1]

Change(event) ==
  /\ changes < MaxChanges
  /\ changes' = changes + 1
  /\ stream'  = Append(stream, event)

-----------------------------------------------------------------------------
(* Desired LRPs *)

\* Epochs are only compared, so any fresh one stands for all.
DesireLRP(p, routes) ==
  LET e   == CHOOSE e \in fresh.epochs[p] : TRUE
      lrp == [processGuid |-> p, routes |-> routes, modificationTag |-> FirstTag(e)]
  IN  /\ desired[p] = Nil
      /\ fresh.epochs[p] # {}
      /\ desired' = [desired EXCEPT ![p] = lrp]
      /\ fresh' = [fresh EXCEPT !.epochs[p] = @ \ {e}]
      /\ Change([type |-> "DesiredLRPCreatedEvent", desiredLRP |-> lrp])
      /\ UNCHANGED actual

UpdateDesiredLRP(p, routes) ==
  LET before == desired[p]
      after  == [before EXCEPT !.routes = routes, !.modificationTag = Bump(@)]
  IN  /\ desired[p] # Nil
      /\ routes # before.routes
      /\ desired' = [desired EXCEPT ![p] = after]
      /\ Change([type |-> "DesiredLRPChangedEvent", before |-> before, after |-> after])
      /\ UNCHANGED <<actual, fresh>>

RemoveDesiredLRP(p) ==
  /\ desired[p] # Nil
  /\ desired' = [desired EXCEPT ![p] = Nil]
  /\ \E t \in {desired[p].modificationTag, Bump(desired[p].modificationTag)} :
       Change([type       |-> "DesiredLRPRemovedEvent",
               desiredLRP |-> [desired[p] EXCEPT !.modificationTag = t]])
  /\ UNCHANGED <<actual, fresh>>

-----------------------------------------------------------------------------
(* Actual LRPs *)

StateOf(lrp) == IF lrp = Nil THEN Nil ELSE lrp.state

\* The instance side of l becomes lrp; its event is a change or a creation.
SetInstance(l, lrp) ==
  LET before == actual[l].instance IN
  /\ actual' = [actual EXCEPT ![l].instance = lrp]
  /\ Change(IF before = Nil
              THEN [type |-> "ActualLRPCreatedEvent", group |-> Only(lrp)]
              ELSE [type |-> "ActualLRPChangedEvent",
                    before |-> Only(before), after |-> Only(lrp)])
  /\ UNCHANGED desired

\* Tags of actual LRPs are only compared under one instance guid, whose
\* records have one epoch.
ClaimLRP(l) ==
  \E i \in fresh.instanceGuids :
    /\ desired[l.processGuid] # Nil
    /\ StateOf(actual[l].instance) \in {Nil, "UNCLAIMED"}
    /\ fresh' = [fresh EXCEPT !.instanceGuids = @ \ {i}]
    /\ SetInstance(l, [processGuid |-> l.processGuid, instanceGuid |-> i,
                       ports |-> Unbound, state |-> "CLAIMED",
                       modificationTag |->
                         IF actual[l].instance = Nil THEN FirstTag(AnyEpoch)
                         ELSE Bump(actual[l].instance.modificationTag)])

StartLRP(l) ==
  /\ StateOf(actual[l].instance) = "CLAIMED"
  /\ \E b \in Bindings :
       SetInstance(l, [actual[l].instance EXCEPT
                         !.ports = b, !.state = "RUNNING", !.modificationTag = Bump(@)])
  /\ UNCHANGED fresh

\* The container is gone: it crashed, or its cell hands it over to the
\* evacuating side.
StopLRP(l, state) ==
  /\ StateOf(actual[l].instance) = "RUNNING"
  /\ SetInstance(l, [actual[l].instance EXCEPT
                       !.ports = Unbound, !.state = state, !.modificationTag = Bump(@)])
  /\ UNCHANGED fresh

CrashLRP(l) == StopLRP(l, "CRASHED")

UnclaimEvacuatedLRP(l) == actual[l].evacuating # Nil /\ StopLRP(l, "UNCLAIMED")

RemoveLRP(l) ==
  /\ actual[l].instance # Nil
  /\ actual' = [actual EXCEPT ![l].instance = Nil]
  /\ Change([type |-> "ActualLRPRemovedEvent", group |-> Only(actual[l].instance)])
  /\ UNCHANGED <<desired, fresh>>

\* The evacuating record describes the same container as the instance.
EvacuateLRP(l) ==
  /\ Evacuation
  /\ StateOf(actual[l].instance) = "RUNNING"
  /\ actual[l].evacuating = Nil
  /\ actual' = [actual EXCEPT ![l].evacuating = actual[l].instance]
  /\ Change([type |-> "ActualLRPCreatedEvent",
             group |-> OnlyEvacuating(actual[l].instance)])
  /\ UNCHANGED <<desired, fresh>>

RemoveEvacuatingLRP(l) ==
  /\ actual[l].evacuating # Nil
  /\ actual' = [actual EXCEPT ![l].evacuating = Nil]
  /\ Change([type |-> "ActualLRPRemovedEvent", group |-> OnlyEvacuating(actual[l].evacuating)])
  /\ UNCHANGED <<desired, fresh>>

BBSNext ==
  \/ \E p \in ProcessGuids, routes \in RouteSets : DesireLRP(p, routes)
  \/ \E p \in ProcessGuids, routes \in RouteSets : UpdateDesiredLRP(p, routes)
  \/ \E p \in ProcessGuids : RemoveDesiredLRP(p)
  \/ \E l \in LRPKeys : ClaimLRP(l)
  \/ \E l \in LRPKeys : StartLRP(l)
  \/ \E l \in LRPKeys : CrashLRP(l)
  \/ \E l \in LRPKeys : UnclaimEvacuatedLRP(l)
  \/ \E l \in LRPKeys : RemoveLRP(l)
  \/ \E l \in LRPKeys : EvacuateLRP(l)
  \/ \E l \in LRPKeys : RemoveEvacuatingLRP(l)

-----------------------------------------------------------------------------
(* Any process may already be desired and have running instances. *)

Running(p, i, b) ==
  [processGuid |-> p, instanceGuid |-> i, ports |-> b, state |-> "RUNNING",
   modificationTag |-> FirstTag(AnyEpoch)]

InitialGroups ==
  {NoGroup} \cup {Only(Running(p, i, b)) :
                    p \in ProcessGuids, i \in InstanceGuids,
                    b \in {f \in [ContainerPorts -> Addresses] :
                             \A c1, c2 \in ContainerPorts : f[c1] = f[c2] => c1 = c2}}

\* Records of the BBS are about distinct containers of desired processes.
Consistent(groups) ==
  \A l \in LRPKeys : groups[l] # NoGroup =>
    LET lrp == groups[l].instance IN
    /\ lrp.processGuid = l.processGuid
    /\ desired[l.processGuid] # Nil
    /\ \A m \in LRPKeys \ {l} : groups[m] # NoGroup =>
         /\ groups[m].instance.instanceGuid # lrp.instanceGuid
         /\ \A c, d \in ContainerPorts : groups[m].instance.ports[c] # lrp.ports[d]

BBSInit ==
  /\ desired \in [ProcessGuids -> {Nil} \cup
       {[processGuid |-> p, routes |-> r, modificationTag |-> FirstTag(AnyEpoch)] :
          p \in ProcessGuids, r \in RouteSets}]
  /\ \A p \in ProcessGuids : desired[p] # Nil => desired[p].processGuid = p
  /\ actual \in [LRPKeys -> InitialGroups]
  /\ Consistent(actual)
  /\ fresh =
       [epochs |-> [p \in ProcessGuids |->
                      {e \in Epochs : desired[p] # Nil => desired[p].modificationTag.epoch # e}],
        instanceGuids |-> {i \in InstanceGuids : \A l \in LRPKeys :
                             actual[l] # NoGroup => actual[l].instance.instanceGuid # i}]
  /\ stream = <<>>
  /\ changes = 0
=============================================================================
