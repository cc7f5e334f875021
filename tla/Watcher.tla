------------------------------ MODULE Watcher ------------------------------
(***************************************************************************)
(* Package watcher: the loop that receives BBS events, sync requests and   *)
(* subscription errors over unbuffered channels, and the checkForEvents    *)
(* goroutines that hold a subscription to the BBS.                         *)
(*                                                                         *)
(* A goroutine and the event source it opens share a name; every start of  *)
(* checkForEvents takes the next one.  Events are numbered in the order    *)
(* the BBS sends them.  A send on an unbuffered channel and its receipt    *)
(* are one step, possible only while the loop waits in its select.         *)
(***************************************************************************)
EXTENDS Naturals, FiniteSets

CONSTANTS
  MaxSubscriptions,   \* bound on the starts of checkForEvents
  MaxEvents           \* bound on the events the BBS sends

ASSUME WatcherAssumption == MaxSubscriptions \in Nat \ {0} /\ MaxEvents \in Nat

Goroutines == 1..MaxSubscriptions

VARIABLES
  watcher,      \* where the loop is
  goroutine,    \* where each checkForEvents is
  inHand,       \* the event each of them is about to send, or 0
  started,      \* number of goroutines started
  open,         \* the event sources that are open
  eventSource,  \* the event source stored last, or 0
  sent,         \* number of the last event the BBS sent
  handled       \* number of the last event given to HandleEvent

watcherVars == <<watcher, goroutine, inHand, started, open, eventSource, sent, handled>>

\* ready is closed on the way from "starting" to "ready".
WatcherStates == {"starting", "ready", "select", "handling", "syncing", "stopped"}

GoroutineStates ==
  {"unborn", "subscribing", "storing", "next", "sendEvent", "sendError", "exited"}

Live == {g \in Goroutines : goroutine[g] \notin {"unborn", "exited"}}

Goto(g, state) == goroutine' = [goroutine EXCEPT ![g] = state]

WatcherInit ==
  /\ watcher = "starting"
  /\ goroutine = [g \in Goroutines |-> IF g = 1 THEN "subscribing" ELSE "unborn"]
  /\ inHand = [g \in Goroutines |-> 0]
  /\ started = 1
  /\ open = {}
  /\ eventSource = 0
  /\ sent = 0
  /\ handled = 0

-----------------------------------------------------------------------------
(* checkForEvents *)

\* Failures are bounded by the goroutines left to start.
MayFail == started < MaxSubscriptions

Subscribe(g) ==
  /\ goroutine[g] = "subscribing"
  /\ Goto(g, "storing")
  /\ open' = open \cup {g}
  /\ UNCHANGED <<watcher, inHand, started, eventSource, sent, handled>>

\* Mutant: the error is not sent.
SubscribeFailsSilently(g) ==
  /\ goroutine[g] = "subscribing" /\ MayFail
  /\ Goto(g, "exited")
  /\ UNCHANGED <<watcher, inHand, started, open, eventSource, sent, handled>>

SubscribeFails(g) ==
  /\ goroutine[g] = "subscribing" /\ MayFail
  /\ Goto(g, "sendError")
  /\ UNCHANGED <<watcher, inHand, started, open, eventSource, sent, handled>>

Store(g) ==
  /\ goroutine[g] = "storing"
  /\ eventSource' = g
  /\ Goto(g, "next")
  /\ UNCHANGED <<watcher, inHand, started, open, sent, handled>>

\* es.Next returns an event.
NextEvent(g) ==
  /\ goroutine[g] = "next" /\ g \in open /\ sent < MaxEvents
  /\ sent' = sent + 1
  /\ inHand' = [inHand EXCEPT ![g] = sent + 1]
  /\ Goto(g, "sendEvent")
  /\ UNCHANGED <<watcher, started, open, eventSource, handled>>

\* Mutant: event still holds the event before and is sent again.
NextUnrecognizedSendsStale(g) ==
  /\ goroutine[g] = "next" /\ g \in open /\ sent < MaxEvents
  /\ sent' = sent + 1
  /\ IF handled > 0
       THEN Goto(g, "sendEvent") /\ inHand' = [inHand EXCEPT ![g] = handled]
       ELSE UNCHANGED <<goroutine, inHand>>
  /\ UNCHANGED <<watcher, started, open, eventSource, handled>>

\* Mutant: the nil event that comes with the error is sent.
NextUnrecognizedSendsNil(g) ==
  /\ goroutine[g] = "next" /\ g \in open /\ sent < MaxEvents
  /\ sent' = sent + 1
  /\ Goto(g, "sendEvent")
  /\ UNCHANGED <<watcher, inHand, started, open, eventSource, handled>>

\* ErrUnrecognizedEventType: the event is skipped and the source kept.
NextUnrecognized(g) ==
  /\ goroutine[g] = "next" /\ g \in open /\ sent < MaxEvents
  /\ sent' = sent + 1
  /\ UNCHANGED <<watcher, goroutine, inHand, started, open, eventSource, handled>>

\* Any other error; a source that was closed has no other answer.
NextFails(g) ==
  /\ goroutine[g] = "next"
  /\ g \notin open \/ MayFail
  /\ Goto(g, "sendError")
  /\ UNCHANGED <<watcher, inHand, started, open, eventSource, sent, handled>>

-----------------------------------------------------------------------------
(* Run *)

Ready ==
  /\ watcher = "starting"
  /\ watcher' = "ready"
  /\ UNCHANGED <<goroutine, inHand, started, open, eventSource, sent, handled>>

\* Mutant: the loop ends with a sync.
EnterSelectButNotAfterSync ==
  /\ watcher \in {"ready", "handling"}
  /\ watcher' = "select"
  /\ UNCHANGED <<goroutine, inHand, started, open, eventSource, sent, handled>>

\* The top of the loop, at the start and after each case of the select.
EnterSelect ==
  /\ watcher \in {"ready", "handling", "syncing"}
  /\ watcher' = "select"
  /\ UNCHANGED <<goroutine, inHand, started, open, eventSource, sent, handled>>

ReceiveEvent(g) ==
  /\ watcher = "select"
  /\ goroutine[g] = "sendEvent"
  /\ watcher' = "handling"
  /\ handled' = inHand[g]
  /\ inHand' = [inHand EXCEPT ![g] = 0]
  /\ Goto(g, "next")
  /\ UNCHANGED <<started, open, eventSource, sent>>

\* Mutant: the stored source is not closed.
ReceiveErrorKeepingSource(g) ==
  /\ watcher = "select"
  /\ goroutine[g] = "sendError"
  /\ started' = started + 1
  /\ goroutine' = [goroutine EXCEPT ![g] = "exited", ![started + 1] = "subscribing"]
  /\ UNCHANGED <<watcher, inHand, open, eventSource, sent, handled>>

\* The stored source, if any, is closed and a new goroutine started.
ReceiveError(g) ==
  /\ watcher = "select"
  /\ goroutine[g] = "sendError"
  /\ open' = open \ {eventSource}
  /\ started' = started + 1
  /\ goroutine' = [goroutine EXCEPT ![g] = "exited", ![started + 1] = "subscribing"]
  /\ UNCHANGED <<watcher, inHand, eventSource, sent, handled>>

\* The case that receives from syncChannel.
ReceiveSync ==
  /\ watcher = "select"
  /\ watcher' = "syncing"
  /\ UNCHANGED <<goroutine, inHand, started, open, eventSource, sent, handled>>

Signal ==
  /\ watcher = "select"
  /\ watcher' = "stopped"
  /\ open' = open \ {eventSource}
  /\ UNCHANGED <<goroutine, inHand, started, eventSource, sent, handled>>

Subscriber(g) ==
  \/ Subscribe(g)
  \/ SubscribeFails(g)
  \/ Store(g)
  \/ NextEvent(g)
  \/ NextUnrecognized(g)
  \/ NextFails(g)

Loop ==
  \/ Ready
  \/ EnterSelect
  \/ \E g \in Goroutines : ReceiveEvent(g)
  \/ \E g \in Goroutines : ReceiveError(g)

-----------------------------------------------------------------------------
(* Properties *)

\* The loop and its goroutines are where the code can be, and no nil event is
\* sent to the loop.
WatcherTypeOK ==
  /\ watcher \in WatcherStates
  /\ goroutine \in [Goroutines -> GoroutineStates]
  /\ inHand \in [Goroutines -> 0..MaxEvents]
  /\ started \in Goroutines
  /\ open \subseteq Goroutines
  /\ eventSource \in Goroutines \cup {0}
  /\ sent \in 0..MaxEvents
  /\ handled \in 0..MaxEvents
  /\ \A g \in Goroutines : goroutine[g] = "sendEvent" <=> inHand[g] # 0

\* However often the subscription breaks, one goroutine at most reads events,
\* and one event source at most is open: no resubscription leaks the source
\* it replaces.
OneSubscription == Cardinality(Live) <= 1 /\ Cardinality(open) <= 1

\* Events reach HandleEvent in the order the BBS sent them, and none twice,
\* across any number of resubscriptions.
EventsInOrder ==
  [][watcher = "select" /\ watcher' = "handling" => handled' > handled]_watcherVars
=============================================================================
