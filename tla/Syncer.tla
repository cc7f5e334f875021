------------------------------- MODULE Syncer -------------------------------
(***************************************************************************)
(* Package syncer, together with the watcher it asks for bulk syncs.  The  *)
(* ordered group of cmd/tcp-emitter starts the syncer once the watcher is  *)
(* ready, and stops it before the watcher.                                 *)
(*                                                                         *)
(* A sync request is a send on an unbuffered channel with a default case:  *)
(* it is dropped unless the watcher is waiting in its select.              *)
(***************************************************************************)
EXTENDS Watcher

VARIABLE
  syncer        \* "unborn", "syncing" (about to send), "waiting", "stopped"

vars == <<watcherVars, syncer>>

Init ==
  /\ WatcherInit
  /\ syncer = "unborn"

\* The watcher is ready: the syncer starts with an initial sync.
StartSyncer ==
  /\ syncer = "unborn"
  /\ watcher \notin {"starting", "stopped"}
  /\ syncer' = "syncing"
  /\ UNCHANGED watcherVars

Tick ==
  /\ syncer = "waiting"
  /\ syncer' = "syncing"
  /\ UNCHANGED watcherVars

SyncDelivered ==
  /\ syncer = "syncing"
  /\ ReceiveSync
  /\ syncer' = "waiting"

\* Mutant: the default case leaves the loop.
SyncDroppedForGood ==
  /\ syncer = "syncing"
  /\ watcher # "select"
  /\ syncer' = "stopped"
  /\ UNCHANGED watcherVars

SyncDropped ==
  /\ syncer = "syncing"
  /\ watcher # "select"
  /\ syncer' = "waiting"
  /\ UNCHANGED watcherVars

StopSyncer ==
  /\ syncer = "waiting"
  /\ syncer' = "stopped"
  /\ UNCHANGED watcherVars

StopWatcher ==
  /\ syncer = "stopped"
  /\ Signal
  /\ UNCHANGED syncer

Next ==
  \/ \E g \in Goroutines : Subscriber(g) /\ UNCHANGED syncer
  \/ Loop /\ UNCHANGED syncer
  \/ StartSyncer
  \/ Tick
  \/ SyncDelivered
  \/ SyncDropped
  \/ StopSyncer
  \/ StopWatcher

\* Goroutines are scheduled, the handler returns, the ticker ticks, and a
\* request to the BBS is answered.  A goroutine that is blocked on a send is
\* taken sooner or later although syncs compete with it: select chooses at
\* random among the channels that are ready.  Nothing obliges anyone to stop
\* the program, to send events or to let a request fail.
Fairness ==
  /\ WF_vars(Loop /\ UNCHANGED syncer)
  /\ \A g \in Goroutines :
       /\ WF_vars((Subscribe(g) \/ SubscribeFails(g) \/ Store(g)) /\ UNCHANGED syncer)
       /\ SF_vars((ReceiveEvent(g) \/ ReceiveError(g)) /\ UNCHANGED syncer)
  /\ WF_vars(StartSyncer)
  /\ WF_vars(Tick)
  /\ WF_vars(SyncDelivered \/ SyncDropped)

Spec == Init /\ [][Next]_vars /\ Fairness

-----------------------------------------------------------------------------
(* Properties *)

\* The loops are where the code can be.
TypeOK ==
  /\ WatcherTypeOK
  /\ syncer \in {"unborn", "syncing", "waiting", "stopped"}

\* Dropped requests do not add up to none: once events and subscription errors
\* let up, syncs keep reaching the handler until the program stops.
SyncsKeepHappening == []<><<ReceiveSync>>_watcherVars \/ <>(syncer = "stopped")

\* A broken subscription is replaced by one whose events are read.
Resubscribes ==
  \A g \in Goroutines :
    goroutine[g] = "sendError" ~>
      (\E h \in Goroutines : goroutine[h] = "next") \/ syncer = "stopped"
=============================================================================
