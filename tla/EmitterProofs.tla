--------------------------- MODULE EmitterProofs ---------------------------
(***************************************************************************)
(* Theorems about Emit, for any set of mappings and of batches.  The       *)
(* inductive invariant says how far a batch has got at each point of the   *)
(* loop: a second attempt starts with none or all of the upserts made, and *)
(* the deletes start with all of them made.                                *)
(***************************************************************************)
EXTENDS Emitter, TLAPS

\* No expired token survives a fetch that bypasses the cache.
Progress ==
  /\ pc = "idle" => batch = NoBatch /\ count = 0
  /\ pc # "idle" => batch \in Batches
  /\ pc \in {"fetchToken", "upsert"} =>
       api = before \/ api = before \cup batch.upserts
  /\ pc = "delete" => api = before \cup batch.upserts
  /\ pc = "upsert" /\ count = 1 => ~expired
  /\ pc = "delete" /\ count = 1 => ~expired

IInv == TypeOK /\ Progress

\* The two requests of the batch at hand concern mappings.
LEMMA BatchType ==
  ASSUME TypeOK
  PROVE  batch.upserts \subseteq Mappings /\ batch.deletes \subseteq Mappings
BY BatchesAssumption DEF TypeOK, NoBatch

\* The invariant holds when the emitter is created.
LEMMA IInvInit == Init => IInv
<1> SUFFICES ASSUME Init PROVE IInv
  OBVIOUS
<1>1. useCachedToken \in BOOLEAN /\ (useCachedToken <=> count = 0)
  BY Zenon DEF Init
<1>2. fault \in BOOLEAN /\ expired \in BOOLEAN
  BY Zenon DEF Init
<1> QED
  BY <1>1, <1>2 DEF Init, IInv, TypeOK, Progress, NoBatch

\* Every step of an Emit keeps it.
LEMMA IInvStep == IInv /\ [Next]_vars => IInv'
<1> SUFFICES ASSUME IInv, [Next]_vars PROVE IInv'
  OBVIOUS
<1> USE DEF IInv, TypeOK, Progress
<1>0. batch.upserts \subseteq Mappings /\ batch.deletes \subseteq Mappings
  BY BatchType
<1>1. ASSUME NEW b \in Batches, Emit(b) PROVE IInv'
  BY <1>1 DEF Emit
<1>2. CASE TokenExpires
  BY <1>2 DEF TokenExpires
<1>3. CASE FetchToken
  <2>0. count = 1 => count # 0
    OBVIOUS
  <2>1. /\ expired' \in BOOLEAN
        /\ count = 1 => ~expired'
    BY <1>3, <2>0, Zenon DEF FetchToken
  <2> QED
    BY <1>3, <2>1 DEF FetchToken
<1>4. CASE FetchTokenFails
  BY <1>4 DEF FetchTokenFails, Return, NoBatch
<1>5. CASE UpsertTcpRouteMappings
  BY <1>5, <1>0 DEF UpsertTcpRouteMappings
<1>6. CASE UpsertUnauthorized
  <2>1. fault' \in BOOLEAN
    BY <1>6, Zenon DEF UpsertUnauthorized, Unauthorized
  <2>2. CASE count = 0
    <3>1. /\ count' = 1 /\ pc' = "fetchToken"
          /\ UNCHANGED <<batch, api, before, expired>>
      BY <1>6, <2>2 DEF UpsertUnauthorized, Unauthorized, Retry
    <3>2. count + 1 < 2 /\ count' # 0
      BY <2>2, <3>1
    <3>3. useCachedToken' = FALSE
      BY <1>6, <3>2, Zenon DEF UpsertUnauthorized, Unauthorized, Retry
    <3>4. useCachedToken' \in BOOLEAN /\ (useCachedToken' <=> count' = 0)
      BY <3>2, <3>3, Zenon
    <3> QED
      BY <1>6, <2>1, <3>1, <3>4 DEF UpsertUnauthorized
  <2>3. CASE count = 1
    <3>1. Return
      BY <1>6, <2>3 DEF UpsertUnauthorized, Unauthorized, Retry
    <3> QED
      BY <1>6, <2>1, <3>1 DEF UpsertUnauthorized, Unauthorized, Return, NoBatch
  <2> QED
    BY <2>2, <2>3
<1>7. CASE UpsertFails
  BY <1>7, <1>0 DEF UpsertFails, FailedRequest, UpsertEffects, Return, NoBatch
<1>8. CASE DeleteTcpRouteMappings
  BY <1>8 DEF DeleteTcpRouteMappings, Return, NoBatch
<1>9. CASE DeleteUnauthorized
  <2>1. fault' \in BOOLEAN
    BY <1>9, Zenon DEF DeleteUnauthorized, Unauthorized
  <2>2. CASE count = 0
    <3>1. /\ count' = 1 /\ pc' = "fetchToken"
          /\ UNCHANGED <<batch, api, before, expired>>
      BY <1>9, <2>2 DEF DeleteUnauthorized, Unauthorized, Retry
    <3>2. count + 1 < 2 /\ count' # 0
      BY <2>2, <3>1
    <3>3. useCachedToken' = FALSE
      BY <1>9, <3>2, Zenon DEF DeleteUnauthorized, Unauthorized, Retry
    <3>4. useCachedToken' \in BOOLEAN /\ (useCachedToken' <=> count' = 0)
      BY <3>2, <3>3, Zenon
    <3> QED
      BY <1>9, <2>1, <3>1, <3>4 DEF DeleteUnauthorized
  <2>3. CASE count = 1
    <3>1. Return
      BY <1>9, <2>3 DEF DeleteUnauthorized, Unauthorized, Retry
    <3> QED
      BY <1>9, <2>1, <3>1 DEF DeleteUnauthorized, Unauthorized, Return, NoBatch
  <2> QED
    BY <2>2, <2>3
<1>10. CASE DeleteFails
  BY <1>10 DEF DeleteFails, FailedRequest, DeleteEffects, Return, NoBatch
<1>11. CASE UNCHANGED vars
  BY <1>11 DEF vars
<1> QED
  BY <1>1, <1>2, <1>3, <1>4, <1>5, <1>6, <1>7, <1>8, <1>9, <1>10, <1>11 DEF Next

\* The inductive invariant holds throughout.
LEMMA Invariance == Spec => []IInv
BY IInvInit, IInvStep, PTL DEF Spec

\* The locals of Emit have their types, and the loop makes at most two
\* attempts, the second one without the cached token (emitter.go:39-53).
THEOREM EmitterTypeOK == Spec => []TypeOK
<1>1. IInv => TypeOK
  BY DEF IInv
<1> QED
  BY Invariance, <1>1, PTL

\* A token found expired never costs a batch anything: the second attempt
\* has a fresh token and redoes the requests the first one made.
THEOREM EmitterExpiredTokenIsHarmless == Spec => ExpiredTokenIsHarmless
<1> DEFINE P == pc # "idle" /\ pc' = "idle" /\ ~fault' => api' = Applied(before, batch)
<1>1. ASSUME IInv, [Next]_vars PROVE [P]_vars
  <2> SUFFICES ASSUME Next, pc # "idle", pc' = "idle", ~fault'
               PROVE  api' = Applied(before, batch)
    BY <1>1
  <2> USE DEF IInv, TypeOK, Progress
  <2>1. CASE DeleteTcpRouteMappings
    BY <1>1, <2>1 DEF DeleteTcpRouteMappings, Applied
  <2>2. ASSUME Unauthorized, pc \in {"upsert", "delete"} PROVE FALSE
    <3>1. count = 1
      BY <1>1, <2>2 DEF Unauthorized, Retry
    <3>2. ~expired
      BY <1>1, <2>2, <3>1
    <3> QED
      BY <2>2, <3>2, Zenon DEF Unauthorized
  <2>3. ~FetchTokenFails /\ ~UpsertFails /\ ~DeleteFails
    BY Zenon DEF FetchTokenFails, UpsertFails, DeleteFails, FailedRequest
  <2>4. ~FetchToken /\ ~UpsertTcpRouteMappings /\ ~TokenExpires
        /\ \A b \in Batches : ~Emit(b)
    BY DEF FetchToken, UpsertTcpRouteMappings, TokenExpires, Emit
  <2> QED
    BY <1>1, <2>1, <2>2, <2>3, <2>4 DEF Next, UpsertUnauthorized, DeleteUnauthorized
<1> QED
  BY Invariance, <1>1, PTL DEF Spec, ExpiredTokenIsHarmless

\* Nothing is taken from the routing API before the whole of what the same
\* batch puts there is there (emitter.go:60-83).
THEOREM EmitterUpsertsComeFirst == Spec => UpsertsComeFirst
<1> DEFINE P == \A m \in api \ api' : m \in batch.deletes /\ batch.upserts \subseteq api
<1>1. ASSUME IInv, [Next]_vars PROVE [P]_vars
  <2> SUFFICES ASSUME Next, NEW m \in api \ api'
               PROVE  m \in batch.deletes /\ batch.upserts \subseteq api
    BY <1>1
  <2>1. CASE DeleteTcpRouteMappings
    BY <1>1, <2>1 DEF DeleteTcpRouteMappings, IInv, Progress
  <2>2. CASE DeleteFails
    BY <1>1, <2>2 DEF DeleteFails, FailedRequest, DeleteEffects, IInv, Progress
  <2>3. ~UpsertTcpRouteMappings /\ ~UpsertFails
    BY DEF UpsertTcpRouteMappings, UpsertFails, FailedRequest, UpsertEffects
  <2>4. /\ ~FetchToken /\ ~FetchTokenFails /\ ~TokenExpires
        /\ ~UpsertUnauthorized /\ ~DeleteUnauthorized
        /\ \A b \in Batches : ~Emit(b)
    BY DEF FetchToken, FetchTokenFails, TokenExpires, Emit,
           UpsertUnauthorized, DeleteUnauthorized, Unauthorized
  <2> QED
    BY <2>1, <2>2, <2>3, <2>4 DEF Next
<1> QED
  BY Invariance, <1>1, PTL DEF Spec, UpsertsComeFirst

-----------------------------------------------------------------------------
(* Emit implements AtomicEmit.  The abstract api keeps its value while a   *)
(* call is under way and changes when the call returns.                    *)

\* The values the abstract specification sees.
SeenAPI == IF pc = "idle" THEN api ELSE before
SeenPending == IF pc = "idle" THEN {} ELSE {batch}

\* Whatever ends the loop, the requests made leave one of the outcomes of
\* the batch in the API.
LEMMA ReturnIsAnOutcome ==
  ASSUME IInv, Next, pc # "idle", pc' = "idle"
  PROVE  batch \in Batches /\ api' \in Outcomes(before, batch)
<1> USE DEF IInv, TypeOK, Progress
<1>0. batch \in Batches
  OBVIOUS
<1>1. api \in UpsertEffects(before, batch.upserts)
  <2>1. CASE api = before
    <3>1. api = before \cup {} /\ {} \in SUBSET batch.upserts
      BY <2>1
    <3> QED
      BY <3>1 DEF UpsertEffects
  <2>2. CASE api = before \cup batch.upserts
    BY <2>2 DEF UpsertEffects
  <2> QED
    BY <2>1, <2>2
<1>2. CASE UNCHANGED api
  BY <1>0, <1>1, <1>2 DEF Outcomes
<1>3. CASE UpsertFails
  <2>1. PICK s \in SUBSET batch.upserts : api' = api \cup s
    BY <1>3 DEF UpsertFails, FailedRequest, UpsertEffects
  <2>2. api' = before \cup s \/ api' = before \cup batch.upserts
    BY <1>3, <2>1 DEF UpsertFails
  <2>3. api' \in UpsertEffects(before, batch.upserts)
    BY <2>2 DEF UpsertEffects
  <2> QED
    BY <1>0, <2>3 DEF Outcomes
<1>4. CASE DeleteTcpRouteMappings
  BY <1>0, <1>4 DEF DeleteTcpRouteMappings, Outcomes, DeleteEffects
<1>5. CASE DeleteFails
  BY <1>0, <1>5 DEF DeleteFails, FailedRequest, Outcomes
<1>6. CASE UpsertTcpRouteMappings
  BY <1>6 DEF UpsertTcpRouteMappings
<1>7. ASSUME NEW b \in Batches, Emit(b) PROVE FALSE
  BY <1>7 DEF Emit
<1> QED
  BY <1>2, <1>3, <1>4, <1>5, <1>6, <1>7
  DEF Next, TokenExpires, FetchToken, FetchTokenFails, UpsertUnauthorized,
      DeleteUnauthorized, Unauthorized

\* A call starts from what the API holds and keeps its batch to the end.
LEMMA CallKeepsBefore ==
  ASSUME IInv, [Next]_vars
  PROVE  /\ pc = "idle" /\ pc' # "idle" => before' = api /\ batch' \in Batches
         /\ pc # "idle" => before' = before
         /\ pc # "idle" /\ pc' # "idle" => batch' = batch
         /\ pc = "idle" /\ pc' = "idle" => api' = api
<1>1. ASSUME NEW b \in Batches, Emit(b)
      PROVE  before' = api /\ pc = "idle" /\ pc' = "fetchToken" /\ batch' = b
  BY <1>1 DEF Emit
<1>2. CASE ~\E b \in Batches : Emit(b)
  <2>1. UNCHANGED before
    BY <1>2 DEF Next, vars, TokenExpires, FetchToken, FetchTokenFails,
      UpsertTcpRouteMappings, UpsertUnauthorized, UpsertFails, FailedRequest,
      DeleteTcpRouteMappings, DeleteUnauthorized, DeleteFails, Unauthorized
  <2>2. pc = "idle" => TokenExpires \/ UNCHANGED vars
    BY <1>2 DEF Next, FetchToken, FetchTokenFails,
      UpsertTcpRouteMappings, UpsertUnauthorized, UpsertFails,
      DeleteTcpRouteMappings, DeleteUnauthorized, DeleteFails
  <2>3. pc' # "idle" => ~Return
    BY DEF Return
  <2>4. pc' # "idle" => UNCHANGED batch
    BY <1>2, <2>3 DEF Next, vars, TokenExpires, FetchToken, FetchTokenFails,
      UpsertTcpRouteMappings, UpsertUnauthorized, UpsertFails, FailedRequest,
      DeleteTcpRouteMappings, DeleteUnauthorized, DeleteFails, Unauthorized, Retry
  <2> QED
    BY <2>1, <2>2, <2>4 DEF TokenExpires, vars
<1> QED
  BY <1>1, <1>2

\* The detailed Emit, with its token, its retry and its partial failures,
\* implements the one-step AtomicEmit the handler's model is built on.
THEOREM EmitterRefinesAtomicEmit == Spec => RefinesAtomicEmit
<1>1. Init => Atomic!Init
  BY DEF Init, Atomic!Init
<1>2. ASSUME IInv, [Next]_vars PROVE [Atomic!Next]_<<SeenAPI, SeenPending>>
  <2>1. CASE pc # "idle" /\ pc' = "idle" /\ Next
    <3>1. batch \in Batches /\ api' \in Outcomes(before, batch)
      BY <1>2, <2>1, ReturnIsAnOutcome
    <3>2. Atomic!Return(batch)
      BY <2>1, <3>1 DEF Atomic!Return, Atomic!Outcomes,
        Atomic!UpsertEffects, Atomic!DeleteEffects,
        Outcomes, UpsertEffects, DeleteEffects
    <3> QED
      BY <3>1, <3>2 DEF Atomic!Next
  <2>2. CASE pc # "idle" /\ pc' = "idle" /\ UNCHANGED vars
    BY <2>2 DEF vars
  <2>3. CASE pc = "idle" /\ pc' # "idle"
    <3>1. Atomic!Call(batch') /\ batch' \in Batches
      BY <1>2, <2>3, CallKeepsBefore DEF Atomic!Call
    <3> QED
      BY <3>1 DEF Atomic!Next
  <2>4. CASE (pc = "idle" /\ pc' = "idle") \/ (pc # "idle" /\ pc' # "idle")
    BY <1>2, <2>4, CallKeepsBefore DEF SeenAPI, SeenPending
  <2> QED
    BY <1>2, <2>1, <2>2, <2>3, <2>4
<1> QED
  BY Invariance, <1>1, <1>2, PTL
  DEF Spec, RefinesAtomicEmit, Atomic!Spec, Atomic!vars, SeenAPI, SeenPending
=============================================================================
