------------------------------ MODULE Refresh ------------------------------
(***************************************************************************)
(* The time to live of a mapping at the routing API against the interval   *)
(* of the bulk syncs, which upsert everything the table holds.             *)
(*                                                                         *)
(* One mapping is followed: while the BBS wants it, and after its backend  *)
(* has gone and the event that says so was lost.  A swap deletes no such   *)
(* mapping; it only stops being upserted.  Time is counted in units that   *)
(* divide both flags, routeTTL and syncInterval.                           *)
(***************************************************************************)
EXTENDS Naturals

CONSTANTS
  RouteTTL,       \* flag routeTTL
  SyncInterval,   \* flag syncInterval
  MaxSync,        \* the longest time Sync takes
  MaxMissed       \* bound on the ticks in a row that lead to no complete sync

\* main checks an upper bound on routeTTL only.  A mapping lasts for as many
\* lost syncs in a row as fit into its time to live together with the sync
\* that comes through: four with the default flags and syncs under 20 seconds.
ASSUME RefreshAssumption ==
  /\ RouteTTL \in Nat /\ SyncInterval \in Nat \ {0}
  /\ MaxSync \in Nat /\ MaxMissed \in Nat
  /\ RouteTTL > (MaxMissed + 1) * SyncInterval + MaxSync

VARIABLES
  wanted,      \* whether the BBS has the backend
  held,        \* whether the routing table has it
  fetched,     \* whether the answer of the BBS to the sync at work has it
  life,        \* how long the mapping has to live, 0 when it is gone
  since,       \* how long ago the backend went
  untilTick,   \* how long until the syncer's next tick
  job,         \* what the watcher is doing
  left,        \* how long the sync at work may still take
  missed       \* ticks without a complete sync since the last upsert

vars == <<wanted, held, fetched, life, since, untilTick, job, left, missed>>

\* How long a mapping may outlive its backend.
MaxStale == (MaxMissed + 1) * SyncInterval + MaxSync + RouteTTL

InSync == job \in {"fetching", "emitting"}

Init ==
  /\ wanted = TRUE /\ held = TRUE /\ fetched = FALSE
  /\ life = RouteTTL
  /\ since = 0
  /\ untilTick \in 1..SyncInterval
  /\ job = "idle" /\ left = 0
  /\ missed = 0

\* Time passes; what is due comes first.
Advance ==
  /\ untilTick > 0
  /\ InSync => left > 0
  /\ untilTick' = untilTick - 1
  /\ left' = IF InSync THEN left - 1 ELSE left
  /\ life' = IF life > 0 THEN life - 1 ELSE 0
  /\ since' = IF wanted \/ since = MaxStale THEN since ELSE since + 1
  /\ UNCHANGED <<wanted, held, fetched, job, missed>>

Miss == missed < MaxMissed /\ missed' = missed + 1

\* The backend goes, and the event about it is lost.
BackendGoes ==
  /\ wanted
  /\ wanted' = FALSE
  /\ UNCHANGED <<held, fetched, life, since, untilTick, job, left, missed>>

\* A tick of the syncer, whose request is dropped unless the watcher is idle.
Tick ==
  /\ untilTick = 0
  /\ untilTick' = SyncInterval
  /\ \/ /\ job = "idle"
        /\ job' = "fetching" /\ left' = MaxSync
        /\ UNCHANGED missed
     \/ /\ job # "idle"
        /\ Miss
        /\ UNCHANGED <<job, left>>
  /\ UNCHANGED <<wanted, held, fetched, life, since>>

BeginEvent ==
  /\ job = "idle" /\ job' = "event"
  /\ UNCHANGED <<wanted, held, fetched, life, since, untilTick, left, missed>>

\* An event about another backend of the entry registers the entry as a
\* whole; any other event leaves the mapping alone. The events that unregister a
\* mapping the table goes on to hold (mergeRoutes, routing_table.go:234, and
\* removeEndpoint, routing_table.go:329) are not here: this module is about what
\* the TTL takes; handler_readded_port and handler_evacuated_backend show them.
EndEvent ==
  /\ job = "event" /\ job' = "idle"
  /\ \/ held /\ life' = RouteTTL
     \/ UNCHANGED life
  /\ UNCHANGED <<wanted, held, fetched, since, untilTick, left, missed>>

Fetch ==
  /\ job = "fetching" /\ job' = "emitting"
  /\ fetched' = wanted
  /\ UNCHANGED <<wanted, held, life, since, untilTick, left, missed>>

\* A fetch fails, or its answer is empty: the table stays as it is.
FetchFails ==
  /\ job = "fetching" /\ job' = "idle"
  /\ Miss
  /\ UNCHANGED <<wanted, held, fetched, life, since, untilTick, left>>

\* Mutant: only what has changed is registered.
EmitChanges ==
  /\ job = "emitting" /\ job' = "idle"
  /\ held' = fetched
  /\ life' = IF fetched /\ ~held THEN RouteTTL ELSE life
  /\ missed' = 0
  /\ UNCHANGED <<wanted, fetched, since, untilTick, left>>

\* Mutant: the new table is merged into the old one.
EmitMerged ==
  /\ job = "emitting" /\ job' = "idle"
  /\ held' = (held \/ fetched)
  /\ life' = IF held' THEN RouteTTL ELSE life
  /\ missed' = 0
  /\ UNCHANGED <<wanted, fetched, since, untilTick, left>>

\* The new table is swapped in, and all of it is upserted.
Emit ==
  /\ job = "emitting" /\ job' = "idle"
  /\ held' = fetched
  /\ life' = IF fetched THEN RouteTTL ELSE life
  /\ missed' = 0
  /\ UNCHANGED <<wanted, fetched, since, untilTick, left>>

\* The table is swapped in, and some of it is upserted.
EmitFails ==
  /\ job = "emitting" /\ job' = "idle"
  /\ held' = fetched
  /\ \/ fetched /\ life' = RouteTTL
     \/ UNCHANGED life
  /\ Miss
  /\ UNCHANGED <<wanted, fetched, since, untilTick, left>>

Next ==
  \/ Advance
  \/ BackendGoes
  \/ Tick
  \/ BeginEvent
  \/ EndEvent
  \/ Fetch
  \/ FetchFails
  \/ Emit
  \/ EmitFails

Spec == Init /\ [][Next]_vars

-----------------------------------------------------------------------------
(* Properties *)

\* The timers stay in range.
TypeOK ==
  /\ wanted \in BOOLEAN /\ held \in BOOLEAN /\ fetched \in BOOLEAN
  /\ life \in 0..RouteTTL
  /\ since \in 0..MaxStale
  /\ untilTick \in 0..SyncInterval
  /\ job \in {"idle", "event", "fetching", "emitting"}
  /\ left \in 0..MaxSync
  /\ missed \in 0..MaxMissed

\* A mapping that stays wanted is never without its route, however syncs are
\* dropped by a busy watcher or fail, up to MaxMissed in a row.
WantedMappingsDoNotExpire == wanted => life > 0

\* The mapping of a backend whose end went unnoticed is gone MaxStale after
\* it: a sync that had already fetched it, and events that register its entry,
\* keep it alive for a while, but not for ever.
StaleMappingsExpire == since = MaxStale => life = 0
=============================================================================
