---------------------------- MODULE SystemProofs ----------------------------
(***************************************************************************)
(* The loops of watcher and syncer call the handler serially, for any      *)
(* number of processes, instances, subscriptions, events and changes.      *)
(***************************************************************************)
EXTENDS System, HandlerProofs

\* Sync is at work only while the watcher's loop waits for it to return.
SyncHasTheLoop == pc # "idle" => watcher = "syncing"

\* What the steps of Sync need: it is at work, and none but its last step
\* makes it idle.
LEMMA SyncRunsInASync ==
  (FetchActualLRPs \/ FetchDesiredLRPs \/ BuildTable \/ ApplyCachedEvent) => pc # "idle"
BY DEF FetchActualLRPs, FetchDesiredLRPs, BuildTable, ApplyCachedEvent

\* No step of the loops or the handler lets go of the loop before Sync is done.
LEMMA SyncHasTheLoopStep ==
  ASSUME SyncHasTheLoop, [SystemNext]_systemVars
  PROVE  SyncHasTheLoop'
<1> USE DEF SyncHasTheLoop
<1>1. ASSUME NEW g, Open(g) PROVE SyncHasTheLoop'
  BY <1>1 DEF Open, Subscribe, Loops!Subscribe, Loops!SubscribeFails, Loops!Store,
              LoseEvents, vars, handlerVars
<1>2. ASSUME NEW g, NextEvent(g) \/ NextFails(g) PROVE SyncHasTheLoop'
  BY <1>2 DEF NextEvent, NextFails, Loops!NextEvent, Loops!NextUnrecognized,
              Loops!NextFails, vars, handlerVars
<1>3. CASE EnterSelect
  BY <1>3 DEF EnterSelect, Loops!Ready, Loops!EnterSelect, vars, handlerVars
<1>4. ASSUME NEW g, ReceiveEvent(g) PROVE SyncHasTheLoop'
  BY <1>4 DEF ReceiveEvent, Loops!ReceiveEvent, HandleEvent
<1>5. ASSUME NEW g, ReceiveError(g) PROVE SyncHasTheLoop'
  BY <1>5 DEF ReceiveError, Loops!ReceiveError, vars, handlerVars
<1>6. CASE ReceiveSync
  BY <1>6 DEF ReceiveSync, Loops!SyncDelivered, Loops!ReceiveSync
<1>7. CASE SyncRuns
  BY <1>7, SyncRunsInASync DEF SyncRuns, watcherVars
<1>8. CASE SyncReturns
  BY <1>8 DEF SyncReturns, EndSync, SyncCompleted
<1>9. CASE SyncerStep
  BY <1>9 DEF SyncerStep, Loops!StartSyncer, Loops!Tick, Loops!SyncDropped,
              Loops!watcherVars, vars, handlerVars
<1>10. CASE EnvironmentStep
  BY <1>10 DEF EnvironmentStep, BBSStep, Stabilize, watcherVars, handlerVars
<1>11. CASE UNCHANGED systemVars
  BY <1>11 DEF systemVars, vars, handlerVars, watcherVars
<1> QED
  BY <1>1, <1>2, <1>3, <1>4, <1>5, <1>6, <1>7, <1>8, <1>9, <1>10, <1>11 DEF SystemNext

\* A step of the system is a step of the serial handler or leaves it alone.
LEMMA SerialStep ==
  ASSUME SyncHasTheLoop, [SystemNext]_systemVars
  PROVE  [SerialNext]_vars
<1>1. ASSUME NEW g, Open(g) PROVE [SerialNext]_vars
  BY <1>1 DEF Open, Subscribe, SerialNext, Environment
<1>2. ASSUME NEW g, NextEvent(g) \/ NextFails(g) PROVE [SerialNext]_vars
  BY <1>2 DEF NextEvent, NextFails
<1>3. CASE EnterSelect
  BY <1>3 DEF EnterSelect
<1>4. ASSUME NEW g, ReceiveEvent(g) PROVE [SerialNext]_vars
  BY <1>4 DEF ReceiveEvent, Loops!ReceiveEvent, SyncHasTheLoop, SerialNext
<1>5. ASSUME NEW g, ReceiveError(g) PROVE [SerialNext]_vars
  BY <1>5 DEF ReceiveError
<1>6. CASE ReceiveSync
  BY <1>6 DEF ReceiveSync, SerialNext
<1>7. CASE SyncRuns
  BY <1>7 DEF SyncRuns, SerialNext, SyncStep
<1>8. CASE SyncReturns
  BY <1>8 DEF SyncReturns, SerialNext, SyncStep
<1>9. CASE SyncerStep
  BY <1>9 DEF SyncerStep
<1>10. CASE EnvironmentStep
  BY <1>10 DEF EnvironmentStep, SerialNext, Environment
<1>11. CASE UNCHANGED systemVars
  BY <1>11 DEF systemVars
<1> QED
  BY <1>1, <1>2, <1>3, <1>4, <1>5, <1>6, <1>7, <1>8, <1>9, <1>10, <1>11 DEF SystemNext

\* The watcher's single loop calls HandleEvent and Sync one after the other,
\* however syncs, events and resubscriptions interleave. When events may be lost
\* is left open: SerialSpec has LoseEvents at any time.
THEOREM SystemRefinesSerialHandler == SystemSpec => RefinesSerialHandler
<1>1. SystemInit => Init /\ SyncHasTheLoop
  BY DEF SystemInit, Init, SyncHasTheLoop
<1> QED
  BY <1>1, SyncHasTheLoopStep, SerialStep, PTL DEF SystemSpec, RefinesSerialHandler, SerialSpec

\* Whatever the loops, resubscriptions and failed fetches do, an emitter that
\* has caught up keeps no backend that is gone.
THEOREM SystemNoGhostEndpoints == SystemSpec => []NoGhostEndpoints
<1>1. SerialSpec => Spec
  BY SerialStepIsAStep, PTL DEF SerialSpec, Spec
<1> QED
  BY <1>1, SystemRefinesSerialHandler, HandlerNoGhostEndpoints, PTL DEF RefinesSerialHandler

\* The same emitter misses no route that the BBS desires.
THEOREM SystemDesiredRoutesArePresent == SystemSpec => []DesiredRoutesArePresent
<1>1. SerialSpec => Spec
  BY SerialStepIsAStep, PTL DEF SerialSpec, Spec
<1> QED
  BY <1>1, SystemRefinesSerialHandler, HandlerDesiredRoutesArePresent, PTL DEF RefinesSerialHandler

\* Its bulk syncs take down no route that stays wanted, as long as an external
\* port that the table still has goes to no other routing key.
THEOREM SystemSyncKeepsSteadyMappings ==
  SystemSpec /\ []PortsHaveOneOwner => SyncKeepsSteadyMappings
BY SystemRefinesSerialHandler, SerialSyncKeepsSteadyMappings, PTL DEF RefinesSerialHandler

\* What its table holds and the BBS wants is at the routing API, as long as the
\* routing API is reliable and no change of the table disturbs its mappings.
THEOREM SystemHeldMappingsAreRouted ==
  SystemSpec /\ []Undisturbed => []HeldMappingsAreRouted
<1>1. SerialSpec => Spec
  BY SerialStepIsAStep, PTL DEF SerialSpec, Spec
<1> QED
  BY <1>1, SystemRefinesSerialHandler, HandlerHeldMappingsAreRouted, PTL DEF RefinesSerialHandler
=============================================================================
