# TLA+ verification of tcp-emitter

tcp-emitter keeps the TCP router informed of which backends serve which external
ports. It watches the BBS (the database of desired and running LRPs), keeps a
routing table of its own, and tells the routing API which TCP route mappings to
register and which to remove. This directory holds a TLA+ model of the program,
the TLC runs that check it on small instances, and TLAPS proofs of what holds
whatever the instance: of the routing table, the emitter, the handler, the watcher
with its syncer, all of them at work together, the refresh of mappings and the lock.

## 1. Inventory

| Part (source) | State | Operations | What is hard about it |
|---|---|---|---|
| routing table (`routing_table/schema/routing_table.go`) | entries: routing key (process guid, container port) to external endpoints, backends, modification tag | AddRoutes, UpdateRoutes, RemoveRoutes, AddEndpoint, RemoveEndpoint, Swap, GetRoutingEvents, RouteCount | arguments arrive late, twice or out of order; an operation must return exactly the events that describe what it changed |
| endpoints (`schema/endpoint/endpoint.go`) | none | comparison and subtraction of entries, keys of LRPs | "changed" is decided by ports, counts and tags |
| mapping requests (`schema/event/event.go`) | none | Valid, ToMappingRequests | 32-bit ports cut down to 16 bits; one bad port drops an event |
| handler (`routing_table_handler.go`) | table, `syncing`, `cachedEvents`, mutex | HandleEvent, Sync, Syncing | two fetches at different moments, events cached meanwhile and replayed on the snapshot, fallback when a fetch fails |
| emitter (`emitter/emitter.go`) | none between calls | Emit | two requests and a retry with a new token; requests carried out in part; errors are swallowed |
| watcher (`watcher/watcher.go`) | stored event source, channels | Run, checkForEvents | resubscription, hand-over between goroutines, events lost in between |
| syncer (`syncer/syncer.go`) | ticker | Run, sync | sync requests are dropped unless the watcher is waiting |
| main (`cmd/tcp-emitter/main.go`) | what it has checked so far, its lock | checks its flags, the BBS, the config file and UAA, then runs lock maintainer, watcher and syncer as an ordered group | start and stop order; a crash at any point; a consul session that ends while its emitter runs |
| flags `routeTTL`, `syncInterval` | none | mappings are registered with a time to live, and again by every sync | nothing makes sure the two fit together |
| config (`config/config.go`), log data, fakes | none | - | only that a bad configuration ends the process |

How they interact: the syncer sends on the unbuffered `syncChannel`; the watcher's
single loop receives from it, from the event channel and from the resubscription
channel, and calls `Sync` or `HandleEvent` of the handler; the handler calls the
table and, under its own mutex, `Emit`; `Emit` calls UAA and the routing API. The
checkForEvents goroutine and the two fetches of `Sync` are the only other
goroutines.

What makes the parts correct: the table's events account for every mapping it
gains or loses and stale arguments never undo newer ones; the handler's table
agrees with the BBS once it has caught up, and what it holds is routed; `Emit` is
atomic to its caller; there is one subscription and events stay in order; syncs
keep happening, often enough for wanted mappings not to expire; only the emitter that
holds the lock is active, and one of them takes over. `PROJECT.json` lists the hazards line by line.

## 2. Modules

| Module | Models | State and actions |
|---|---|---|
| `BBSModels` | bbs/models (external) | values; `SucceededBy`, `Equal`, `Resolve` |
| `Endpoint` | `endpoint.go` | operators named after the functions |
| `RoutingTableOps` | `routing_table.go` | each operation as a function of table and argument that yields the new table and the events |
| `RoutingTable` | the table as an object | `entries`, `returned`; one action per operation |
| `MappingRequests` | `event.go` | operators named after the functions |
| `RoutingAPI` | routing API (external) | what a request or a batch may do to the set of mappings |
| `Emitter` | `emitter.go` | `pc`, `batch`, `count`, `useCachedToken`, `api`, `expired`; one action per answer of UAA and the routing API |
| `AtomicEmit` | what Emit promises its caller | `api`, `pending`; Call, Return |
| `BBS` | the BBS (external) | `desired`, `actual`, `stream`; one action per change, each with its event |
| `RoutingTableHandler` | `routing_table_handler.go`, on top of `BBS`, `MappingRequests` and `RoutingAPI` | the handler's fields, the locals of Sync, `routes`; HandleEvent, BeginSync, FetchActualLRPs, FetchDesiredLRPs, BuildTable, ApplyCachedEvent, EndSync, LoseEvents, FailOver, Expire |
| `Watcher` | `watcher.go` | the loop, the goroutines, the open and the stored event source |
| `Syncer` | `syncer.go` with the watcher | `syncer`; StartSyncer, Tick, SyncDelivered, SyncDropped, StopSyncer, StopWatcher |
| `System` | one emitter at work: `Syncer` (instantiated) drives `RoutingTableHandler` (extended) | both states; the loop's ReceiveEvent, ReceiveSync and SyncReturns are joint steps with HandleEvent, BeginSync and EndSync |
| `Refresh` | `routeTTL` against `syncInterval`: syncer ticks, a busy watcher, syncs that take time | one mapping's `life`, the timers, `missed` ticks; Advance, Tick, BeginEvent, Fetch, Emit and their failures |
| `Lifecycle` | `main.go`: several emitters, their checks, the lock and the ordered group | `state` of each emitter, `holder`, `expired`, `up`; one action per check, per start and stop of a member, and per fault |
| `MC*` | bounded arguments for TLC | - |
| `*Proofs` | theorems about the module they are named after (`HandlerProofs`: `RoutingTableHandler`); `RoutingTableOpsProofs` has the lemmas on table operations that the proofs of table and handler share | - |

`RoutingTableHandler` composes table, mapping requests, routing API and BBS; `Syncer`
extends `Watcher`; `System` composes `RoutingTableHandler` and `Syncer`. `Refresh` and
`Lifecycle` stand on their own: the first is about time only, the second about which
emitter is active, and what they show enters the handler as `Expire` and `FailOver`.

Choices that matter:

- *Maps and slices.* A Go map is a total function with `Nil` at the missing keys. A
  slice of external endpoints, routes or events is a set: the code never depends on
  their order or on repetitions.
- *Modification tags* keep epoch and index, and `SucceededBy` as the BBS defines it:
  a different epoch always succeeds.
- *One table operation is one step.* AddEndpoint and RemoveEndpoint release the
  table's mutex between container ports, but the handler's mutex is held around them.
- *Emit is one step of the handler*, with the outcomes of `RoutingAPI!Outcomes`.
  `Emitter` refines `AtomicEmit`, which is what justifies it. An error is swallowed
  by `Emit`, so the handler does not learn which outcome it was.
- *HandleDuringSync.* The handler caches events that arrive while Sync fetches, and
  its tests call HandleEvent during a Sync. The watcher of this program calls both
  from one loop, so events wait in the stream until Sync has returned. TRUE is the
  handler as designed, FALSE the program as wired. With TRUE and a process that is
  deleted and desired again during one sync, a cached removal of the old epoch takes
  down the new epoch's entry (a different epoch always succeeds). `System` leaves the
  order to the loops: its ReceiveEvent could call HandleEvent during a sync, and
  `RefinesSerialHandler` shows that the loops never do (`SerialSpec`, in which an event
  is handled only while no Sync is at work).
- *Faults of the handler's environment.* `FailOver` replaces the emitter by another one
  with an empty table while the routing API keeps its mappings. `Expire` drops a mapping
  that is not known to have been upserted since the last sync ended (`upserted`);
  `Refresh` shows that one that has been does not expire before the next. (It leaves out
  the events of findings 2 and 3, which unregister a mapping that is held: it is about
  what the TTL takes.)
  `Stabilize` ends all failures: `Converges` is about what happens from then on.
- *The events a new subscription misses.* In `System` the stream holds what the BBS has
  sent and the handler has not got; Subscribe empties it.
- *The table a sync builds* is written key by key (`TableOf`) instead of as a loop:
  the BBS has one desired LRP per process guid and one group per instance guid, so no
  two iterations meet at a key.
- *main's checks* end the process when they fail, in main's order; which emitters fail
  the ones on flags and files is a constant. Signals before the group runs end the
  process by default, afterwards they stop its members, last first.
- *Ghost variables* `tracking` and `steady` (handler), `before` and `fault` (emitter),
  `op` (table) and `since` (refresh) only serve to state properties.
- Operators whose comment begins with "Mutant:" are faulty variants of the definition
  that follows. They are used by no specification; substituted for it, they make the
  property named in `PROJECT.json` fail.

## 3. Runs

| Run | Bounds | Shows |
|---|---|---|
| `table` | 1 key, 1 instance with its evacuating twin, 2 addresses, 2 ports, up to 2 routes, 2 tag indices | events match gains and losses; dropped ports are unregistered; tags never go back; a swap registers everything |
| `table_router_groups` | 2 router groups, 1 port | **violated**: see findings |
| `handler_events` | 1 process, 2 instances, 2 addresses, 1 port, evacuation, 4 changes, failing fetches | no dead backends, no missing routes, syncs take nothing down |
| `handler_convergence` | 1 instance, 1 address, port 1 alone, with port 2 or with port 0, 2 changes; every request may fail, events are lost, emitters fail over, mappings expire | route updates racing a sync; convergence of table and routing API |
| `handler_readded_port`, `handler_evacuated_backend`, `handler_remapped_route` | as small as shows it, serial | **violated**: see findings |
| `system` | 1 process, 2 epochs, 1 instance, 2 changes, 2 subscriptions, 2 events handed over, failing fetches | the loops call the handler serially, bring it up to date, and leave no dead backend behind |
| `emitter` | 2 mappings, all 16 batches | harmless expiry, order of requests, refinement, termination |
| `syncer` | 5 subscriptions, 4 events | one subscription, order, progress |
| `refresh` | TTL 13, interval 3, syncs up to 3, 2 missed ticks in a row | wanted mappings last, stale ones go |
| `lifecycle` | 3 emitters, one of them refused by main | the lock, stopping, fail-over |

Why the bounds are enough to be interesting: the operations treat routing keys
independently, and `RoutingTableProofs` proves the same properties for any number of
keys, so the runs have one key. Two tag indices give older, equal and newer. Two
addresses and two instance guids let a host port be used again. `MaxChanges` bounds
the changes of the BBS, not the events handled, the syncs, the failures or the losses:
a behaviour has any number of those. Where the code is known to fail (the findings),
the passing run that checks the same property keeps the case out by its bounds
(`system` has one port and no evacuation); the property is not weakened. In `refresh`
the TTL is the least that its assumption allows, and `MaxStale` is reached. In
`lifecycle` two emitters compete while a third one never gets to the lock.

`CaughtUp` in the handler's properties means: a sync with a usable answer has begun
after events were last lost, it has ended, and no event is waiting. `EmitMayFail` is
FALSE in the runs of `HeldMappingsAreRouted`, because a failed request is only
repeated by the next sync; `handler_convergence` has it TRUE.

Fairness. *Emitter*: requests are answered. *Syncer*: goroutines are scheduled, the
handler returns, the ticker ticks, requests to the BBS are answered, and a goroutine
blocked on a send is received from in the end (Go's select picks at random among the
channels that are ready: strong fairness). Nothing forces a stop, an event or a
failure. The syncer may stop for good once told to, so deadlock is not checked there.
*Handler*: the stream is empty again and again, every Sync returns, syncs
begin, and a mapping that is no longer upserted expires. Nothing forces requests to
stop failing; `Converges` speaks of the behaviours in which they do (`stable`). It
leaves out what an emptied BBS does to the table, because an empty sync changes nothing
(observation 1), but not what it does to the routes. *System*: as for the syncer, and a
Sync goes on. `LoopsBringItUpToDate` speaks of behaviours in which fetches stop failing.
*Lifecycle*: processes make progress, are started again, and notice a lost session;
the session of a dead process ends. `OneEmitterTakesOver` speaks of what follows the
last fault (`calm`).

## 4. Findings

1. `table_router_groups`: `ExternalEndpointInfos.Remove` is documented as a set
   difference but compares ports only; a route that moves to the same port of another
   router group leaves the old mapping registered (`endpoint.go:213`).
2. `handler_readded_port`: an external port that is dropped and then added again is
   not registered, because the update that drops it does not store the entry
   (`routing_table.go:234`).
3. `handler_evacuated_backend`: when the instance record of an evacuating container
   ends, the address its evacuating record still holds is unregistered
   (`routing_table.go:329`).
4. `handler_remapped_route`: removing the last route of a container port discards its
   backends; a route added later has none (`routing_table.go:201`).

Findings 2 to 4 last until the next bulk sync that returns something, which registers
everything again (`Converges`, `SwapRegistersTheNewTable`).

Observations, which no statement of the repository contradicts outright:

1. A sync that succeeds with an empty answer is handled like a failed one
   (`routing_table_handler.go:149`): the table keeps its last entries. They are not
   upserted any more, so their mappings expire, as `Converges` shows.
2. The initial sync is dropped when the syncer asks before the watcher has reached its
   select (`syncer.go:57`); the table then stays empty until the first tick.
3. One external port 0 disqualifies a whole event, unregistrations included; the tests
   of `event.go` want it so. The mappings of the other ports then go by expiry and come
   back with the sync after the port has gone.
4. main refuses a `routeTTL` above 65535 seconds and checks nothing else about it
   (`main.go:215`). With the defaults, 120 s and 20 s, and syncs of less than 20 s,
   `Refresh` gives four syncs in a row that may be lost without a wanted mapping
   expiring.
5. An emitter whose consul session has ended stays active until it notices: two
   emitters can be active for that long, and `OnlyTheHolderIsActive` says when.
6. A swap unregisters what a routing key has lost even if another key has the same
   mapping now (`routing_table.go:94`), and `Emit` deletes last. When two processes share
   an external port and the host address of an instance of one comes to an instance of
   the other, a bulk sync that learns of both at once deletes a mapping that is wanted,
   until the next one registers it again. TLC finds it with two processes, one port, one
   address and four changes, and nothing failing. The proof of
   `SyncKeepsSteadyMappings` therefore has the condition `PortsHaveOneOwner`.
7. `removeEndpoint` unregisters the address of the endpoint it removes without looking
   whether another instance has it (`routing_table.go:329`). While a sync fetches, an
   instance starts at an address and stops, and another one starts there. The snapshot has
   the second; after the swap the late start of the first brings it into the entry next
   to the second, its stop unregisters the address, and the late start of the second
   registers nothing because the entry has the same tag. The mapping is wanted and held,
   and not routed until the next sync. TLC finds it in `SerialSpec` with one process, two
   instance guids, one address, one port and five changes, with nothing failing and
   nothing evacuating. The proof of `HeldMappingsAreRouted` therefore has the condition
   `LeavesNoTwin`.

## 5. Proofs

`EmitterProofs` holds for every set of mappings and batches: `EmitterTypeOK`,
`EmitterExpiredTokenIsHarmless`, `EmitterUpsertsComeFirst` and
`EmitterRefinesAtomicEmit`. The types alone are not inductive for these: the
inductive invariant `IInv` adds how far the batch has got at each point of the loop
(`Progress`). Before the deletes the routing API holds what it held when Emit was
called, with none or all of the upserts; at the deletes all of them; and a second
attempt never has an expired token. An attempt that failed in part has ended the call,
which is why "none or all" is enough. The refinement maps `api` to its value at the
call until Emit returns.

`RoutingTableProofs` holds for every set of keys, instances, addresses, ports, epochs
and arguments, all of whose tags may come in any order: `TableTypeOK` and one theorem
for each of the table's seven action properties. `TypeOK` is inductive; the action
properties follow from it because each operation acts key by key. For every operation
a lemma says what it does and announces at one key, and these give, for any table,
`Sound` (new mappings registered, events true), `SparesHeld` (nothing the key still
holds is unregistered), `Ages` (tags) and `Drops` (dropped external endpoints). Three
operations do not always have `SparesHeld`: AddRoutes and UpdateRoutes where they leave
the entry as it was (finding 2), and RemoveEndpoint where two endpoints share the address
(finding 3). `LiveMappingsStayRegistered` excuses these and says that there is no other;
it is not what shows findings 2 and 3, `HeldMappingsAreRouted` is.
`TableDroppedExternalEndpointsAreUnregistered` assumes `UniquePorts`, that no two
router groups share a port; `table_router_groups` shows that without it the statement
is false. Assumptions on the constants: `Nil` is no value of the program, endpoint
keys are finite (the code compares numbers of endpoints), and the arguments are of the
types the BBS sends.

`SyncerProofs` holds for any number of subscriptions and events: `SyncerTypeOK`,
`SyncerOneSubscription` and `SyncerEventsInOrder`. The invariant adds that only the
goroutine started last is alive and only its source is open (`Latest`), that a source is
stored before the loop can be told of its failure and that an error leaves a start to
spare (`Sources`), and that an event on its way is newer than all that were handled
(`InHand`).

`RefreshProofs` holds for all durations with `RouteTTL > (MaxMissed + 1) * SyncInterval
+ MaxSync`: `RefreshWantedMappingsDoNotExpire` and `RefreshStaleMappingsExpire`. The
invariant bounds a mapping's remaining life from below by the ticks that may still be
missed, and a stale mapping's life from above by the time since its backend went, in
each state of the watcher.

`LifecycleProofs` holds for any number of emitters: `LifecycleOnlyTheHolderIsActive`.
The property is not inductive by itself, because an emitter that has the lock and not
yet started its watcher must be the holder too.

`HandlerProofs` holds for every set of processes, container ports, instances,
addresses, routes and epochs, any number of changes of the BBS, and every choice of
the faults and of `HandleDuringSync`, except where it says serial or names a condition:

- `HandlerTypeOK`. The inductive invariant `Types` adds the types of what the BBS stores
  and sends (events carry groups with one side), that an idle handler has no cached
  events, and that there is a new table when events go to it.
- `HandlerNoGhostEndpoints`. The property speaks of a handler that has caught up; in
  between, the table has dead backends, and so do the answers of the BBS and the new
  table. `GhostInv` says why they go: every endpoint of a table, every group fetched and
  every group that a pending event adds is live in the BBS or removed by a later
  pending event, where pending are the cached events followed by the stream. One lemma
  per kind of change of the BBS shows that its event accounts for what it kills, one
  for `handleEvent` that taking the head of the pending events leaves the rest enough,
  one that the table a sync builds inherits it from what was fetched. Which table and
  which answer count depends on `tracking`: a loss of events makes all of them
  unaccountable until the next sync begins.
- `HandlerDesiredRoutesArePresent`. It needs two invariants. `DatedInv`: every tag in a
  table, an answer or an event is older than that of the process' desired LRP or
  belongs to that very LRP, and epochs not yet used occur nowhere; it holds even after
  losses. `RoutesInv`: the last pending event about a desired process writes it as it
  is, and the routes of a process that no pending event is about are in the table, or
  in the answer or the new table while a sync is at work. The first is what shows that
  `SucceededBy` lets the last word in and turns away no more than what it should.
- `SerialSyncKeepsSteadyMappings`, for the serial handler and for behaviours in which,
  while a sync fetches, no external port of the table is desired by another routing
  key (`PortsHaveOneOwner`; observation 6 is what happens otherwise. It also rules out
  two ports with the same sixteen bits). `SteadyInv` says that the desired LRPs fetched,
  and the table built from them, have every external port by which a mapping goes that
  has been wanted since the sync began, at the key where the old table has it. The new
  backends do not matter: at a key of the new table a swap unregisters by ports only.
  Requests may fail: what `Emit` takes down is among what it was asked to.
- `HandlerSyncKeepsSteadyMappings`, the same for a handler that gets events while it
  syncs, which the tests of the handler do and its watcher does not. Cached events are
  older than what was fetched, or newer, and nobody knows which. `SparedInv` says why
  none of them takes a steady port from the new table: it is of the epoch that the
  table has at its key, and if it is newer there it has the port, because the BBS has
  desired it ever since the fetch. Events on their way while the sync fetches count,
  for they may yet be cached. The condition `NoEarlierLives` is where epochs come in:
  while a sync fetches, no event is on its way about an earlier life of a process that
  is desired (see HandleDuringSync in section 2 for what happens otherwise).
  `OneLifeSyncKeepsSteadyMappings` proves that this is so where each process has one
  epoch: what `handler_events` checks, for every instance.

- `HandlerHeldMappingsAreRouted`, for behaviours that are `Undisturbed`. The inductive
  invariant is `RoutedInv`: what the table holds is at the routing API at every moment,
  caught up or not, mid-sync or after a loss. Its step needs the types alone, because it
  compares the table with what was announced of it and not with the BBS. For every
  operation of the table a lemma in `RoutingTableOpsProofs` says when its events are
  `Accurate`: every mapping that is new is registered, and what is unregistered is gone
  from its key. `Emit` carries out a batch with the deletes last, so what an accurate
  operation holds afterwards is routed unless a delete of another key names the same
  mapping. `Undisturbed` is about one table and the event or swap that is next, and its
  conditions are the cases where this argument fails; each has its counterexample:
  - requests succeed, nothing expires and ports have 16 bits (a failed request is
    repeated only by the next sync);
  - `TakesNoPortOnly`: no route update only takes ports away (finding 2);
  - `LeavesNoTwin`: no endpoint shares the address of one that is removed (finding 3,
    observation 7);
  - `Apart`: no address moves to another routing key by one change (observation 6).

  Everything else may happen: evacuation, any number of ports and epochs, events during a
  sync, failing fetches, losses and fail-overs.
- `HandlerRoutesOwnAddresses` says where those conditions come from. Take any desired LRPs
  none of which only takes ports away from one that it succeeds (`NoneOnlyTakesPorts`: a
  process may add or exchange ports within an epoch, and between epochs no set of ports of
  a container port is a proper part of another), and any containers no two endpoints of
  which have one address (`HaveOwnAddresses`: no address is used again, and no instance
  evacuates, since it and its evacuating record are two endpoints at one address). As long as the BBS keeps to them (`BBSKeepsTo`) every behaviour
  is `Undisturbed`, whatever the order in which events and answers come. `KnownInv`
  says that all that is in a table, an answer or an event was once in the BBS.

`SystemProofs`: `SystemRefinesSerialHandler` says that loops and handler together
implement `SerialSpec`: HandleEvent and Sync are called one after the other. `SerialSpec`
may lose events at any time, so the refinement does not say when they are lost. The step simulation needs that the handler is idle whenever the
loop is not in a sync (`SyncHasTheLoop`). With it the theorems about the handler become
theorems about the emitter at work: `SystemNoGhostEndpoints`,
`SystemDesiredRoutesArePresent`, `SystemSyncKeepsSteadyMappings` and
`SystemHeldMappingsAreRouted`.

Further assumptions of these proofs: there is an epoch (a process that is desired has
a tag), and `Nil` is no state of an LRP.

The inductive invariants were checked with TLC before they were proved, on instances of
up to four million states, with losses, fail-overs and failing fetches: `GhostInv` with
evacuation, `DatedInv` and `RoutesInv` with two epochs and two ports; `SteadyInv` with
two processes, failing requests and `PortsHaveOneOwner` as a constraint; `RoutedInv` with
`Undisturbed` as a constraint, on the first ten million states each of instances with
evacuation, with two processes and with two instances of one; `SparedInv` likewise, with
two epochs and two ports or two processes, and its two conditions as a constraint.

Only model-checked:

- everything under fairness (`EmitReturns`, `Converges`, `SyncsKeepHappening`,
  `Resubscribes`, `LoopsBringItUpToDate`, `LostEmittersStop`, `OneEmitterTakesOver`),
  which is out of reach of the provers;
- `HeldMappingsAreRouted` without the condition `Undisturbed`: findings 2 and 3 and
  observation 7 refute it in general, and it holds in `system`, whose bounds keep their
  cases out;
- `SyncKeepsSteadyMappings` without the conditions `PortsHaveOneOwner` and, for a handler
  that gets events during a sync, `NoEarlierLives`: observation 6 and HandleDuringSync in
  section 2 say how it fails; it holds in the runs, which have one process and, with such
  events, one epoch.

## 6. Not modelled

- Two emitters that are active at once, writing to one routing API: `Lifecycle` says
  when this can be, the handler's model has one emitter at a time.
- Ports above 65535. `Uint16` is in the model; a TCP port that needs it does not exist.
- A signal in `System`: `Syncer` and `Lifecycle` have the stop order.
- The contents of configuration and flags (`Lifecycle` has their refusal), the UAA
  client's internals (a token fetch succeeds or fails), TLS, logging, metrics, the debug
  server.
- Unrecognized event types in `handleEvent`: they are logged and ignored.
- Fakes, test runner and test certificates.

## 7. Plan

Done: the modules above, in the order table, emitter, handler, watcher and syncer,
system, refresh, lifecycle, and their proofs: every safety property that a passing run
checks is stated by a theorem, under the conditions given above where it is false in
general. What is left is to weaken one of these conditions: `HeldMappingsAreRouted` for a
BBS that gives the address of a stopped container to another one after a sync has come
between, or that evacuates, which `HaveOwnAddresses` leaves out.
