------------------------------- MODULE System -------------------------------
(***************************************************************************)
(* One emitter at work: the syncer and the watcher of module Syncer drive  *)
(* the handler of module RoutingTableHandler.                              *)
(*                                                                         *)
(* RoutingTableHandler by itself takes an event or begins a sync whenever  *)
(* it can.  Here the watcher's loop decides: it calls HandleEvent with the *)
(* event that a checkForEvents goroutine hands over, it calls Sync when a  *)
(* request of the syncer reaches it, and it is busy until Sync returns.    *)
(* stream holds what the BBS has sent and the handler has not got: its     *)
(* head is what the goroutine hands over next.  A new subscription starts  *)
(* with what the BBS sends from then on, so that the rest is lost.         *)
(***************************************************************************)
EXTENDS RoutingTableHandler

CONSTANTS MaxSubscriptions, MaxEvents

VARIABLES watcher, goroutine, inHand, started, open, eventSource, sent, handled, syncer

Loops == INSTANCE Syncer

watcherVars == <<watcher, goroutine, inHand, started, open, eventSource, sent, handled>>

systemVars == <<vars, watcherVars, syncer>>

SystemInit == Init /\ Loops!Init

-----------------------------------------------------------------------------
(* checkForEvents *)

Subscribe(g) ==
  /\ Loops!Subscribe(g)
  /\ IF stream = <<>> THEN UNCHANGED vars ELSE LoseEvents
  /\ UNCHANGED syncer

\* The rest of opening a subscription.
Open(g) ==
  \/ Subscribe(g)
  \/ /\ Loops!SubscribeFails(g) \/ Loops!Store(g)
     /\ UNCHANGED <<vars, syncer>>

NextEvent(g) ==
  /\ stream # <<>>
  /\ Loops!NextEvent(g)
  /\ UNCHANGED <<vars, syncer>>

NextFails(g) ==
  /\ Loops!NextUnrecognized(g) \/ Loops!NextFails(g)
  /\ UNCHANGED <<vars, syncer>>

-----------------------------------------------------------------------------
(* The watcher's loop *)

EnterSelect ==
  /\ \/ Loops!Ready
     \/ watcher # "syncing" /\ Loops!EnterSelect
  /\ UNCHANGED <<vars, syncer>>

ReceiveEvent(g) ==
  /\ Loops!ReceiveEvent(g)
  /\ HandleEvent
  /\ UNCHANGED syncer

ReceiveError(g) ==
  /\ Loops!ReceiveError(g)
  /\ UNCHANGED <<vars, syncer>>

\* Mutant: the watcher starts Sync in a goroutine and goes on.
ReceiveSyncAndGoOn ==
  /\ syncer = "syncing" /\ watcher = "select"
  /\ syncer' = "waiting"
  /\ BeginSync
  /\ UNCHANGED watcherVars

ReceiveSync == Loops!SyncDelivered /\ BeginSync

SyncReturns ==
  /\ watcher = "syncing"
  /\ EndSync
  /\ Loops!EnterSelect
  /\ UNCHANGED syncer

SyncRuns ==
  /\ FetchActualLRPs \/ FetchDesiredLRPs \/ BuildTable \/ ApplyCachedEvent
  /\ UNCHANGED <<watcherVars, syncer>>

-----------------------------------------------------------------------------
(* The syncer *)

SyncerStep ==
  /\ Loops!StartSyncer \/ Loops!Tick \/ Loops!SyncDropped
  /\ UNCHANGED vars

EnvironmentStep ==
  /\ BBSStep \/ Stabilize
  /\ UNCHANGED <<watcherVars, syncer>>

SystemNext ==
  \/ \E g \in Loops!Goroutines : Open(g) \/ NextEvent(g) \/ NextFails(g)
  \/ EnterSelect
  \/ \E g \in Loops!Goroutines : ReceiveEvent(g) \/ ReceiveError(g)
  \/ ReceiveSync
  \/ SyncRuns
  \/ SyncReturns
  \/ SyncerStep
  \/ EnvironmentStep

\* As in module Syncer; the BBS sends what it has, and a Sync whose requests
\* are answered or fail goes on to its end.
SystemFairness ==
  /\ WF_systemVars(EnterSelect)
  /\ \A g \in Loops!Goroutines :
       /\ WF_systemVars(Open(g))
       /\ WF_systemVars(NextEvent(g))
       /\ SF_systemVars(ReceiveEvent(g) \/ ReceiveError(g))
  /\ WF_systemVars(SyncerStep \/ ReceiveSync)
  /\ WF_systemVars(SyncRuns \/ SyncReturns)

SystemSpec == SystemInit /\ [][SystemNext]_systemVars /\ SystemFairness

-----------------------------------------------------------------------------
(* Properties *)

\* The handler as this program calls it: no event is handled while a sync is
\* at work, and syncs do not overlap. SerialSpec loses events at any time, so
\* this says nothing of when a resubscription may lose them.
RefinesSerialHandler == SerialSpec

FetchFailed == Failed \in {gotActual, gotDesired}

\* Once fetches have stopped failing, the syncs that the loops bring about give
\* the table of the BBS and route what it wants, after any losses of events,
\* failed fetches and dropped sync requests.
LoopsBringItUpToDate ==
  <>[]~FetchFailed => <>[](RouteCount(SnapshotTable) > 0 =>
                             entries = SnapshotTable /\ Wanted \subseteq routes)
=============================================================================
