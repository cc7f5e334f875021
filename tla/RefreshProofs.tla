--------------------------- MODULE RefreshProofs ---------------------------
(***************************************************************************)
(* Proofs about Refresh, for every time to live, interval and duration of  *)
(* a sync.                                                                 *)
(*                                                                         *)
(* The inductive invariant measures time in missed ticks.  Outside of a    *)
(* sync, the time since the last upsert of a wanted mapping, and the time  *)
(* the table has held a stale one, is the missed ticks and the part of an  *)
(* interval that has passed.  A sync at work has used up one tick more,    *)
(* and has run for MaxSync - left.                                         *)
(***************************************************************************)
EXTENDS Refresh, TLAPS

\* The time n ticks take.
Span(n) == n * SyncInterval

\* How long ago a wanted mapping was upserted.
WantedIsFresh ==
  wanted =>
    /\ since = 0
    /\ job = "emitting" => fetched
    /\ ~InSync => RouteTTL + untilTick <= life + Span(missed + 1)
    /\ InSync  => /\ RouteTTL + untilTick <= life + Span(missed + 2)
                  /\ RouteTTL + left <= life + Span(missed + 1) + MaxSync

\* How long a stale mapping has been in the table, or in an answer of the BBS.
StaleIsBounded ==
  ~wanted =>
    /\ life + since <= MaxStale \/ life = 0
    /\ job = "emitting" /\ fetched => since + left <= MaxSync
    /\ held /\ ~InSync => since + untilTick <= Span(missed + 1) + MaxSync
    /\ held /\ InSync /\ ~(job = "emitting" /\ fetched) =>
         since + untilTick <= Span(missed + 2) + MaxSync

IInv == TypeOK /\ WantedIsFresh /\ StaleIsBounded

-----------------------------------------------------------------------------

\* Arithmetic of ticks, for the steps below to use in place of products.
LEMMA SpanFacts ==
  /\ RouteTTL \in Nat /\ SyncInterval \in Nat /\ SyncInterval > 0
  /\ MaxSync \in Nat /\ MaxMissed \in Nat
  /\ \A n \in Nat : Span(n) \in Nat
  /\ \A n \in Nat : Span(n + 2) = Span(n + 1) + SyncInterval
  /\ \A n \in Nat : Span(n + 1) >= SyncInterval
  /\ \A n \in 0..MaxMissed : Span(n + 1) <= Span(MaxMissed + 1)
  /\ RouteTTL > Span(MaxMissed + 1) + MaxSync
  /\ MaxStale = Span(MaxMissed + 1) + MaxSync + RouteTTL
<1>1. /\ RouteTTL \in Nat /\ SyncInterval \in Nat /\ SyncInterval > 0
      /\ MaxSync \in Nat /\ MaxMissed \in Nat
  BY RefreshAssumption
<1>2. \A n \in Nat : Span(n) \in Nat
  BY <1>1 DEF Span
<1>3. \A n \in Nat : Span(n + 2) = Span(n + 1) + SyncInterval
  BY <1>1 DEF Span
<1>4. \A n \in Nat : Span(n + 1) >= SyncInterval
  BY <1>1 DEF Span
<1>5. \A n \in 0..MaxMissed : Span(n + 1) <= Span(MaxMissed + 1)
  BY <1>1 DEF Span
<1>6. RouteTTL > Span(MaxMissed + 1) + MaxSync
  BY RefreshAssumption DEF Span
<1>7. MaxStale = Span(MaxMissed + 1) + MaxSync + RouteTTL
  BY DEF Span, MaxStale
<1> QED BY <1>1, <1>2, <1>3, <1>4, <1>5, <1>6, <1>7

\* The mapping has just been registered.
LEMMA InitIInv == Init => IInv
<1> SUFFICES ASSUME Init
             PROVE  IInv
  OBVIOUS
<1>1. missed \in Nat /\ Span(missed + 1) >= SyncInterval /\ Span(missed + 1) \in Nat
  BY SpanFacts DEF Init
<1>2. /\ RouteTTL \in Nat /\ SyncInterval \in Nat /\ MaxSync \in Nat
      /\ MaxMissed \in Nat /\ MaxStale \in Nat
  <2>1. Span(MaxMissed + 1) \in Nat
    BY SpanFacts
  <2> QED BY <2>1, SpanFacts
<1>3. TypeOK
  <2>1. wanted \in BOOLEAN /\ held \in BOOLEAN /\ fetched \in BOOLEAN
    BY Zenon DEF Init
  <2> QED BY <1>2, <2>1 DEF Init, TypeOK
<1>4. WantedIsFresh
  BY SpanFacts, <1>1 DEF Init, WantedIsFresh, InSync
<1>5. StaleIsBounded
  BY DEF Init, StaleIsBounded
<1> QED BY <1>3, <1>4, <1>5 DEF IInv

\* Every step of the watcher, of the syncer and of time keeps the measure.
LEMMA NextIInv == IInv /\ [Next]_vars => IInv'
<1> SUFFICES ASSUME IInv, [Next]_vars
             PROVE  IInv'
  OBVIOUS
<1> USE SpanFacts DEF IInv, TypeOK, WantedIsFresh, StaleIsBounded, InSync
<1>1. CASE Advance
  BY <1>1 DEF Advance
<1>2. CASE BackendGoes
  <2>1. /\ Span(missed + 1) >= SyncInterval /\ Span(missed + 2) >= SyncInterval
        /\ RouteTTL <= MaxStale
    OBVIOUS
  <2>2. TypeOK'
    BY <1>2 DEF BackendGoes
  <2>3. ~wanted' /\ since' = 0 /\ (job' = "emitting" => fetched')
    BY <1>2 DEF BackendGoes
  <2> QED BY <1>2, <2>1, <2>2, <2>3 DEF BackendGoes
<1>3. CASE Tick
  BY <1>3 DEF Tick, Miss
<1>4. CASE BeginEvent
  BY <1>4 DEF BeginEvent
<1>5. CASE EndEvent
  BY <1>5 DEF EndEvent
<1>6. CASE Fetch
  BY <1>6 DEF Fetch
<1>7. CASE FetchFails
  BY <1>7 DEF FetchFails, Miss
<1>8. CASE Emit
  <2>1. missed' \in Nat /\ Span(missed' + 1) >= SyncInterval /\ Span(missed' + 1) \in Nat
    BY <1>8 DEF Emit
  <2>2. TypeOK'
    BY <1>8 DEF Emit
  <2>3. WantedIsFresh'
    BY <1>8, <2>1 DEF Emit
  <2>4. ASSUME ~wanted', fetched'
        PROVE  since' <= MaxSync
    BY <1>8, <2>4 DEF Emit
  <2>5. StaleIsBounded'
    BY <1>8, <2>1, <2>2, <2>4 DEF Emit
  <2> QED BY <2>2, <2>3, <2>5
<1>9. CASE EmitFails
  BY <1>9 DEF EmitFails, Miss
<1>10. CASE UNCHANGED vars
  BY <1>10 DEF vars
<1> QED BY <1>1, <1>2, <1>3, <1>4, <1>5, <1>6, <1>7, <1>8, <1>9, <1>10 DEF Next

LEMMA Invariance == Spec => []IInv
BY InitIInv, NextIInv, PTL DEF Spec

\* No wanted mapping expires, for every time to live that is longer than
\* MaxMissed + 1 intervals and one sync.
THEOREM RefreshWantedMappingsDoNotExpire == Spec => []WantedMappingsDoNotExpire
<1>1. IInv => WantedMappingsDoNotExpire
  BY SpanFacts DEF IInv, TypeOK, WantedIsFresh, InSync, WantedMappingsDoNotExpire
<1> QED BY <1>1, Invariance, PTL

\* Every stale mapping is gone after MaxStale.
THEOREM RefreshStaleMappingsExpire == Spec => []StaleMappingsExpire
<1>1. IInv => StaleMappingsExpire
  BY SpanFacts DEF IInv, TypeOK, WantedIsFresh, StaleIsBounded, StaleMappingsExpire
<1> QED BY <1>1, Invariance, PTL
=============================================================================
