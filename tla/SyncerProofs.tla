---------------------------- MODULE SyncerProofs ----------------------------
(***************************************************************************)
(* Proofs about Watcher and Syncer, for any number of resubscriptions and  *)
(* events.                                                                 *)
(***************************************************************************)
EXTENDS Syncer, FiniteSetTheorems, TLAPS

\* Only the goroutine started last is alive, and only its source is open.
Latest ==
  /\ \A g \in Goroutines : g # started => goroutine[g] \in {"unborn", "exited"}
  /\ open \subseteq {started}

\* A source is stored before the loop can be asked to close it, a source that
\* is read is open until the watcher stops, and an error leaves a goroutine to
\* start.
Sources ==
  /\ goroutine[started] = "subscribing" => open = {}
  /\ goroutine[started] \in {"next", "sendEvent"} => eventSource = started
  /\ goroutine[started] \in {"storing", "next", "sendEvent"} /\ watcher # "stopped" =>
       started \in open
  /\ goroutine[started] = "sendError" /\ watcher # "stopped" =>
       /\ started < MaxSubscriptions
       /\ started \in open => eventSource = started

\* An event on its way is newer than any that was handled.
InHand ==
  /\ handled <= sent
  /\ \A g \in Goroutines : inHand[g] # 0 => handled < inHand[g] /\ inHand[g] <= sent

IInv == TypeOK /\ Latest /\ Sources /\ InHand

LEMMA InitIInv == Init => IInv
BY WatcherAssumption
   DEF Init, WatcherInit, IInv, TypeOK, WatcherTypeOK, Latest, Sources, InHand,
       Goroutines, WatcherStates, GoroutineStates

\* What a goroutine does keeps the invariant.
LEMMA SubscriberIInv ==
  ASSUME IInv, NEW g \in Goroutines, Subscriber(g), UNCHANGED syncer
  PROVE  IInv'
<1> USE WatcherAssumption
    DEF IInv, TypeOK, WatcherTypeOK, Latest, Sources, InHand, Goto,
        Goroutines, WatcherStates, GoroutineStates
<1>1. CASE Subscribe(g)
  BY <1>1 DEF Subscribe
<1>2. CASE SubscribeFails(g)
  BY <1>2 DEF SubscribeFails, MayFail
<1>3. CASE Store(g)
  BY <1>3 DEF Store
<1>4. CASE NextEvent(g)
  <2>1. TypeOK'
    BY <1>4 DEF NextEvent
  <2>2. Latest'
    BY <1>4 DEF NextEvent
  <2>3. Sources'
    BY <1>4 DEF NextEvent
  <2>4. InHand'
    BY <1>4 DEF NextEvent
  <2> QED BY <2>1, <2>2, <2>3, <2>4
<1>5. CASE NextUnrecognized(g)
  BY <1>5 DEF NextUnrecognized
<1>6. CASE NextFails(g)
  BY <1>6 DEF NextFails, MayFail
<1> QED BY <1>1, <1>2, <1>3, <1>4, <1>5, <1>6 DEF Subscriber

\* So does what the loop does.
LEMMA LoopIInv ==
  ASSUME IInv, Loop, UNCHANGED syncer
  PROVE  IInv'
<1> USE WatcherAssumption
    DEF IInv, TypeOK, WatcherTypeOK, Latest, Sources, InHand, Goto,
        Goroutines, WatcherStates, GoroutineStates
<1>1. CASE Ready
  BY <1>1 DEF Ready
<1>2. CASE EnterSelect
  BY <1>2 DEF EnterSelect
<1>3. ASSUME NEW g \in Goroutines, ReceiveEvent(g)
      PROVE  IInv'
  <2>1. TypeOK'
    BY <1>3 DEF ReceiveEvent
  <2>2. Latest'
    BY <1>3 DEF ReceiveEvent
  <2>3. Sources'
    BY <1>3 DEF ReceiveEvent
  <2>4. InHand'
    BY <1>3 DEF ReceiveEvent
  <2> QED BY <2>1, <2>2, <2>3, <2>4
<1>4. ASSUME NEW g \in Goroutines, ReceiveError(g)
      PROVE  IInv'
  <2>0. g = started /\ started + 1 \in Goroutines /\ watcher # "stopped"
    BY <1>4 DEF ReceiveError
  <2>1. TypeOK'
    <3>1. started' = started + 1 /\ open' \subseteq Goroutines
      BY <1>4 DEF ReceiveError
    <3>2. goroutine' = [goroutine EXCEPT ![started] = "exited", ![started + 1] = "subscribing"]
      BY <1>4, <2>0 DEF ReceiveError
    <3>3. goroutine[started] = "sendError" /\ goroutine[started + 1] \in {"unborn", "exited"}
      BY <1>4, <2>0 DEF ReceiveError
    <3>4. \A h \in Goroutines : goroutine'[h] = "sendEvent" <=> inHand[h] # 0
      BY <2>0, <3>2, <3>3
    <3>5. goroutine' \in [Goroutines -> GoroutineStates]
      BY <2>0, <3>2
    <3> QED BY <1>4, <2>0, <3>1, <3>4, <3>5 DEF ReceiveError
  <2>2. Latest'
    BY <1>4 DEF ReceiveError
  <2>3. Sources'
    BY <1>4 DEF ReceiveError
  <2>4. InHand'
    BY <1>4 DEF ReceiveError
  <2> QED BY <2>1, <2>2, <2>3, <2>4
<1> QED BY <1>1, <1>2, <1>3, <1>4 DEF Loop

LEMMA NextIInv == IInv /\ [Next]_vars => IInv'
<1> SUFFICES ASSUME IInv, [Next]_vars
             PROVE  IInv'
  OBVIOUS
<1> USE DEF IInv, TypeOK, WatcherTypeOK, Latest, Sources, InHand, WatcherStates, watcherVars
<1>1. CASE \E g \in Goroutines : Subscriber(g) /\ UNCHANGED syncer
  BY <1>1, SubscriberIInv
<1>2. CASE Loop /\ UNCHANGED syncer
  BY <1>2, LoopIInv
<1>3. CASE StartSyncer
  BY <1>3 DEF StartSyncer
<1>4. CASE Tick
  BY <1>4 DEF Tick
<1>5. CASE SyncDelivered
  BY <1>5 DEF SyncDelivered, ReceiveSync
<1>6. CASE SyncDropped
  BY <1>6 DEF SyncDropped
<1>7. CASE StopSyncer
  BY <1>7 DEF StopSyncer
<1>8. CASE StopWatcher
  BY <1>8 DEF StopWatcher, Signal
<1>9. CASE UNCHANGED vars
  BY <1>9 DEF vars
<1> QED BY <1>1, <1>2, <1>3, <1>4, <1>5, <1>6, <1>7, <1>8, <1>9 DEF Next

LEMMA Invariance == Spec => []IInv
BY InitIInv, NextIInv, PTL DEF Spec

\* No nil event is sent to the loop, and no more goroutines are started than
\* failures allow.
THEOREM SyncerTypeOK == Spec => []TypeOK
<1>1. IInv => TypeOK
  BY DEF IInv
<1> QED BY <1>1, Invariance, PTL

\* One goroutine at most reads events and one event source at most is open,
\* however often the subscription breaks.
THEOREM SyncerOneSubscription == Spec => []OneSubscription
<1>1. ASSUME NEW S, NEW x, S \subseteq {x}
      PROVE  Cardinality(S) <= 1
  <2>1. IsFiniteSet({x}) /\ Cardinality({x}) = 1
    BY FS_Singleton
  <2>2. Cardinality(S) <= Cardinality({x})
    BY <1>1, <2>1, FS_Subset
  <2> QED BY <2>1, <2>2
<1>2. IInv => OneSubscription
  <2> SUFFICES ASSUME IInv
               PROVE  OneSubscription
    OBVIOUS
  <2>1. Live \subseteq {started} /\ open \subseteq {started}
    BY DEF IInv, Latest, Live
  <2> QED BY <1>1, <2>1 DEF OneSubscription
<1> QED BY <1>2, Invariance, PTL

\* Events reach HandleEvent in the order in which the BBS sent them, and none
\* twice.
THEOREM SyncerEventsInOrder == Spec => EventsInOrder
<1>1. IInv /\ [Next]_vars =>
        [watcher = "select" /\ watcher' = "handling" => handled' > handled]_watcherVars
  <2> SUFFICES ASSUME IInv, [Next]_vars, watcher = "select", watcher' = "handling"
               PROVE  handled' > handled
    BY DEF watcherVars
  <2>1. \E g \in Goroutines : ReceiveEvent(g)
    BY DEF Next, vars, watcherVars, Subscriber, Subscribe, SubscribeFails, Store,
           NextEvent, NextUnrecognized, NextFails, Loop, Ready, EnterSelect, ReceiveError,
           StartSyncer, Tick, SyncDelivered, ReceiveSync, SyncDropped, StopSyncer,
           StopWatcher, Signal
  <2> QED BY <2>1 DEF ReceiveEvent, IInv, TypeOK, WatcherTypeOK, InHand, Goroutines
<1> QED BY <1>1, Invariance, PTL DEF Spec, EventsInOrder
=============================================================================
