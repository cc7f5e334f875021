----------------------------- MODULE Lifecycle -----------------------------
(***************************************************************************)
(* Package cmd/tcp-emitter: emitters that start, check what they depend    *)
(* on, compete for the consul lock, run their watcher and syncer while     *)
(* they hold it, and stop their parts in reverse order.                    *)
(*                                                                         *)
(* main runs lock maintainer, watcher and syncer as an ordered group: each *)
(* starts when the one before it is ready; a signal, or the end of one of  *)
(* them, stops the others, last first.  The group, the lock and the        *)
(* process manager that starts an emitter again are external.  A consul    *)
(* session may end while its emitter runs (a pause, a partition), and the  *)
(* emitter learns of it later.                                             *)
(***************************************************************************)
EXTENDS FiniteSets

CONSTANTS
  Emitters,
  BadAddress,      \* emitters whose BBS address or TLS files main refuses
  BadConfig,       \* those whose config file, or UAA settings in it, it refuses
  BadTTL,          \* those whose routeTTL or consul cluster it refuses
  AuthDisabled,    \* routing_api.auth_disabled: there is no UAA to ask
  Nobody,          \* the lock is free
  Orphan           \* the lock belongs to the session of a dead process

ASSUME LifecycleAssumption ==
  /\ BadAddress \cup BadConfig \cup BadTTL \subseteq Emitters
  /\ AuthDisabled \in BOOLEAN
  /\ Nobody \notin Emitters /\ Orphan \notin Emitters /\ Nobody # Orphan

VARIABLES
  state,     \* what each emitter does next, or runs
  holder,    \* whose session has the lock
  expired,   \* emitters that run although their session has ended
  up,        \* the services that answer
  calm       \* whether nothing goes wrong or is stopped any more

vars == <<state, holder, expired, up, calm>>

Services == {"BBS", "UAA"}

Starting == {"address", "ping", "config", "fetchKey", "ttl"}

States ==
  {"down", "locking", "acquired", "watching", "running",
   "stopSyncer", "stopWatcher", "stopLock"} \cup Starting

\* The watcher reads events, syncs and tells the routing API.
Active(e) == state[e] \in {"watching", "running", "stopSyncer", "stopWatcher"}

Goto(e, s) == state' = [state EXCEPT ![e] = s]

Init ==
  /\ state = [e \in Emitters |-> "down"]
  /\ holder = Nobody
  /\ expired = {}
  /\ up \in SUBSET Services
  /\ calm = FALSE

-----------------------------------------------------------------------------
(* main *)

Start(e) ==
  /\ state[e] = "down"
  /\ Goto(e, "address")
  /\ UNCHANGED <<holder, expired, up, calm>>

\* A check passes on to the next step or ends the process.
Check(e, from, passes, to) ==
  /\ state[e] = from
  /\ Goto(e, IF passes THEN to ELSE "down")
  /\ UNCHANGED <<holder, expired, up, calm>>

CheckAddress(e) == Check(e, "address", e \notin BadAddress, "ping")

Ping(e) == Check(e, "ping", "BBS" \in up, "config")

ReadConfig(e) == Check(e, "config", e \notin BadConfig, "fetchKey")

\* Without authentication a client that never fails stands in for UAA's.
UaaAnswers == AuthDisabled \/ "UAA" \in up

FetchKey(e) == Check(e, "fetchKey", UaaAnswers, "ttl")

CheckTTL(e) == Check(e, "ttl", e \notin BadTTL, "locking")

-----------------------------------------------------------------------------
(* The ordered group: lock maintainer, watcher, syncer *)

AcquireLock(e) ==
  /\ state[e] = "locking"
  /\ holder = Nobody
  /\ holder' = e
  /\ Goto(e, "acquired")
  /\ UNCHANGED <<expired, up, calm>>

\* Mutant: the watcher does not wait for the lock maintainer.
StartWatcherFirst(e) ==
  /\ state[e] \in {"locking", "acquired"}
  /\ Goto(e, "watching")
  /\ UNCHANGED <<holder, expired, up, calm>>

StartWatcher(e) ==
  /\ state[e] = "acquired"
  /\ Goto(e, "watching")
  /\ UNCHANGED <<holder, expired, up, calm>>

StartSyncer(e) ==
  /\ state[e] = "watching"
  /\ Goto(e, "running")
  /\ UNCHANGED <<holder, expired, up, calm>>

\* Which part is stopped first.
StopFrom(s) ==
  CASE s \in {"locking", "acquired"} -> "stopLock"
    [] s = "watching"                -> "stopWatcher"
    [] s = "running"                 -> "stopSyncer"

\* A signal: by default before the group runs, and then through sigmon.
Signal(e) ==
  /\ ~calm
  /\ \/ state[e] \in Starting /\ Goto(e, "down")
     \/ /\ state[e] \in {"locking", "acquired", "watching", "running"}
        /\ Goto(e, StopFrom(state[e]))
  /\ UNCHANGED <<holder, expired, up, calm>>

\* Mutant: the group goes on without its lock maintainer.
IgnoreLoss(e) ==
  /\ state[e] \in {"acquired", "watching", "running"}
  /\ holder # e
  /\ UNCHANGED vars

\* The lock maintainer returns an error, and the group stops the others.
NoticeLoss(e) ==
  /\ state[e] \in {"acquired", "watching", "running"}
  /\ holder # e
  /\ Goto(e, StopFrom(state[e]))
  /\ UNCHANGED <<holder, expired, up, calm>>

StopSyncer(e) ==
  /\ state[e] = "stopSyncer"
  /\ Goto(e, "stopWatcher")
  /\ UNCHANGED <<holder, expired, up, calm>>

StopWatcher(e) ==
  /\ state[e] = "stopWatcher"
  /\ Goto(e, "stopLock")
  /\ UNCHANGED <<holder, expired, up, calm>>

\* Mutant: the session is left to end by itself.
ExitWithoutRelease(e) ==
  /\ state[e] = "stopLock"
  /\ Goto(e, "down")
  /\ expired' = expired \ {e}
  /\ UNCHANGED <<holder, up, calm>>

\* The lock maintainer releases the lock if it is still its own; the group
\* and the process end.
ReleaseLock(e) ==
  /\ state[e] = "stopLock"
  /\ Goto(e, "down")
  /\ holder' = IF holder = e THEN Nobody ELSE holder
  /\ expired' = expired \ {e}
  /\ UNCHANGED <<up, calm>>

-----------------------------------------------------------------------------
(* Environment *)

\* The process dies; its session outlives it.
Crash(e) ==
  /\ ~calm
  /\ state[e] # "down"
  /\ Goto(e, "down")
  /\ holder' = IF holder = e THEN Orphan ELSE holder
  /\ expired' = expired \ {e}
  /\ UNCHANGED <<up, calm>>

\* The lock TTL runs out on a process that cannot renew its session.
SessionExpires(e) ==
  /\ ~calm
  /\ holder = e
  /\ holder' = Nobody
  /\ expired' = expired \cup {e}
  /\ UNCHANGED <<state, up, calm>>

OrphanExpires ==
  /\ holder = Orphan
  /\ holder' = Nobody
  /\ UNCHANGED <<state, expired, up, calm>>

Outage(s) ==
  /\ ~calm
  /\ up' = (up \ {s}) \cup ({s} \ up)
  /\ UNCHANGED <<state, holder, expired, calm>>

\* From here on the services are up, sessions last, and nobody crashes or is
\* told to stop.
CalmDown ==
  /\ ~calm
  /\ calm' = TRUE
  /\ up' = Services
  /\ UNCHANGED <<state, holder, expired>>

\* What an emitter does by itself, once started.
Step(e) ==
  \/ CheckAddress(e)
  \/ Ping(e)
  \/ ReadConfig(e)
  \/ FetchKey(e)
  \/ CheckTTL(e)
  \/ AcquireLock(e)
  \/ StartWatcher(e)
  \/ StartSyncer(e)
  \/ NoticeLoss(e)
  \/ StopSyncer(e)
  \/ StopWatcher(e)
  \/ ReleaseLock(e)

Next ==
  \/ \E e \in Emitters : Start(e)
  \/ \E e \in Emitters : Step(e)
  \/ \E e \in Emitters : Signal(e)
  \/ \E e \in Emitters : Crash(e)
  \/ \E e \in Emitters : SessionExpires(e)
  \/ OrphanExpires
  \/ \E s \in Services : Outage(s)
  \/ CalmDown

\* Processes make progress, the process manager starts them again, the
\* session of a dead process ends.  StartSyncer competes with NoticeLoss.
Fairness ==
  /\ \A e \in Emitters : WF_vars(Step(e)) /\ WF_vars(Start(e)) /\ WF_vars(NoticeLoss(e))
  /\ WF_vars(OrphanExpires)

Spec == Init /\ [][Next]_vars /\ Fairness

-----------------------------------------------------------------------------
(* Properties *)

\* The group and the lock are where the code can be.
TypeOK ==
  /\ state \in [Emitters -> States]
  /\ holder \in Emitters \cup {Nobody, Orphan}
  /\ expired \subseteq Emitters
  /\ up \subseteq Services
  /\ calm \in BOOLEAN

\* Nobody talks to the routing API without the lock, unless consul has ended
\* its session and it has not stopped yet: neither before the lock is acquired
\* nor between its release and the end of the watcher.
OnlyTheHolderIsActive ==
  \A e \in Emitters : Active(e) => holder = e \/ e \in expired

\* An emitter that has lost its session stops.
LostEmittersStop == \A e \in Emitters : e \in expired ~> e \notin expired

\* However processes crashed, stopped and lost their sessions before, in the
\* end one emitter runs, and no other is active ("the second emitter becomes
\* active", main_test.go).
OneEmitterTakesOver ==
  calm ~> [](\E e \in Emitters :
               /\ state[e] = "running" /\ holder = e
               /\ \A f \in Emitters \ {e} : ~Active(f))
=============================================================================
