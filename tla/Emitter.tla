------------------------------ MODULE Emitter ------------------------------
(***************************************************************************)
(* Package emitter: Emit fetches a token, upserts the registrations of a   *)
(* batch and deletes its unregistrations, and starts over once, with a     *)
(* token fetched anew, when the routing API answers "unauthorized".        *)
(*                                                                         *)
(* UAA and the routing API are external: a token fetch may fail, a cached  *)
(* token may have expired, and a request may be refused or end in another  *)
(* error, after having been carried out in part.  Calls of Emit do not     *)
(* overlap: the handler makes them under its mutex.                        *)
(***************************************************************************)
EXTENDS RoutingAPI, Naturals

CONSTANTS
  Mappings,   \* TCP route mappings
  Batches     \* batches of mapping requests

ASSUME BatchesAssumption ==
  Batches \subseteq [upserts : SUBSET Mappings, deletes : SUBSET Mappings]

NoBatch == [upserts |-> {}, deletes |-> {}]

VARIABLES
  api,             \* what the routing API holds
  expired,         \* whether the token in the UAA client's cache has expired
  pc,              \* "idle", "fetchToken", "upsert", "delete"
  batch,           \* the two lists of mapping requests
  count,           \* attempts made before this one
  useCachedToken,
  before,          \* api when Emit was called (for the properties)
  fault            \* a request went wrong for another reason than an expired token

vars == <<api, expired, pc, batch, count, useCachedToken, before, fault>>

Init ==
  /\ api = {}
  /\ expired \in BOOLEAN
  /\ pc = "idle"
  /\ batch = NoBatch
  /\ count = 0
  /\ useCachedToken = TRUE
  /\ before = {}
  /\ fault = FALSE

Return ==
  /\ pc' = "idle"
  /\ batch' = NoBatch
  /\ count' = 0
  /\ useCachedToken' = TRUE

Emit(b) ==
  /\ pc = "idle"
  /\ pc' = "fetchToken"
  /\ batch' = b
  /\ before' = api
  /\ fault' = FALSE
  /\ UNCHANGED <<api, expired, count, useCachedToken>>

\* The cached token expires between two calls.  (A token that expires during
\* one shows as a refusal of a good token, which is a fault below.)
TokenExpires ==
  /\ pc = "idle"
  /\ expired' = TRUE
  /\ UNCHANGED <<api, pc, batch, count, useCachedToken, before, fault>>

\* Mutant: the cached token is used on every attempt.
FetchTokenFromCache ==
  /\ pc = "fetchToken"
  /\ pc' = "upsert"
  /\ UNCHANGED <<api, expired, batch, count, useCachedToken, before, fault>>

FetchToken ==
  /\ pc = "fetchToken"
  /\ \/ useCachedToken /\ UNCHANGED expired
     \/ ~useCachedToken /\ expired' = FALSE
  /\ pc' = "upsert"
  /\ UNCHANGED <<api, batch, count, useCachedToken, before, fault>>

FetchTokenFails ==
  /\ pc = "fetchToken"
  /\ Return
  /\ fault' = TRUE
  /\ UNCHANGED <<api, expired, before>>

\* Mutant: one attempt too many.
RetryOnceMore ==
  IF count + 1 < 3
    THEN /\ count' = count + 1
         /\ useCachedToken' = FALSE
         /\ pc' = "fetchToken"
         /\ UNCHANGED batch
    ELSE Return

\* Mutant: the loop has no bound.
RetryForever == pc' = "fetchToken" /\ UNCHANGED <<batch, count, useCachedToken>>

\* for count := 0; count < 2; count++
Retry ==
  IF count + 1 < 2
    THEN /\ count' = count + 1
         /\ useCachedToken' = FALSE
         /\ pc' = "fetchToken"
         /\ UNCHANGED batch
    ELSE Return

\* A refusal is no fault of the API when the token has expired.
Unauthorized ==
  /\ Retry
  /\ \/ expired /\ UNCHANGED fault
     \/ ~expired /\ fault' = TRUE
  /\ UNCHANGED <<api, expired, before>>

\* Any other error ends the loop.
FailedRequest(effects) ==
  /\ api' \in effects
  /\ Return
  /\ fault' = TRUE
  /\ UNCHANGED <<expired, before>>

\* Mutant: both lists are upserted.
UpsertBothLists ==
  /\ pc = "upsert"
  /\ ~expired \/ batch.upserts = {}
  /\ api' = api \cup batch.upserts \cup batch.deletes
  /\ pc' = "delete"
  /\ UNCHANGED <<expired, batch, count, useCachedToken, before, fault>>

UpsertTcpRouteMappings ==
  /\ pc = "upsert"
  /\ ~expired \/ batch.upserts = {}
  /\ api' = api \cup batch.upserts
  /\ pc' = "delete"
  /\ UNCHANGED <<expired, batch, count, useCachedToken, before, fault>>

UpsertUnauthorized == pc = "upsert" /\ batch.upserts # {} /\ Unauthorized

\* Mutant: the error is logged and the deletes are made all the same.
UpsertFailsAndGoesOn ==
  /\ pc = "upsert" /\ batch.upserts # {}
  /\ api' \in UpsertEffects(api, batch.upserts)
  /\ pc' = "delete"
  /\ fault' = TRUE
  /\ UNCHANGED <<expired, batch, count, useCachedToken, before>>

UpsertFails ==
  /\ pc = "upsert" /\ batch.upserts # {}
  /\ FailedRequest(UpsertEffects(api, batch.upserts))

DeleteTcpRouteMappings ==
  /\ pc = "delete"
  /\ ~expired \/ batch.deletes = {}
  /\ api' = api \ batch.deletes
  /\ Return
  /\ UNCHANGED <<expired, before, fault>>

DeleteUnauthorized == pc = "delete" /\ batch.deletes # {} /\ Unauthorized

DeleteFails ==
  /\ pc = "delete" /\ batch.deletes # {}
  /\ FailedRequest(DeleteEffects(api, batch.deletes))

Next ==
  \/ \E b \in Batches : Emit(b)
  \/ TokenExpires
  \/ FetchToken
  \/ FetchTokenFails
  \/ UpsertTcpRouteMappings
  \/ UpsertUnauthorized
  \/ UpsertFails
  \/ DeleteTcpRouteMappings
  \/ DeleteUnauthorized
  \/ DeleteFails

\* Every request is answered.
Fairness ==
  WF_vars(FetchToken \/ FetchTokenFails
          \/ UpsertTcpRouteMappings \/ UpsertUnauthorized \/ UpsertFails
          \/ DeleteTcpRouteMappings \/ DeleteUnauthorized \/ DeleteFails)

Spec == Init /\ [][Next]_vars /\ Fairness

-----------------------------------------------------------------------------
(* Properties *)

\* The locals of Emit have their types and a call makes two attempts at most.
TypeOK ==
  /\ api \subseteq Mappings
  /\ before \subseteq Mappings
  /\ batch \in Batches \cup {NoBatch}
  /\ pc \in {"idle", "fetchToken", "upsert", "delete"}
  /\ count \in 0..1
  /\ useCachedToken \in BOOLEAN
  /\ useCachedToken <=> count = 0
  /\ expired \in BOOLEAN
  /\ fault \in BOOLEAN

\* An expired token costs nothing: an Emit that meets no other trouble has
\* carried out its whole batch when it returns, in spite of the refusals on
\* the way (the retry with a token fetched anew).
ExpiredTokenIsHarmless ==
  [][pc # "idle" /\ pc' = "idle" /\ ~fault' => api' = Applied(before, batch)]_vars

\* Nothing is taken from the routing API before all that the same batch puts
\* there has been put there.
UpsertsComeFirst ==
  [][\A m \in api \ api' : m \in batch.deletes /\ batch.upserts \subseteq api]_vars

\* Seen from outside an Emit changes the routing API in one step, to one of
\* the outcomes of its own batch, although it makes two requests and a retry
\* repeats the ones already carried out.
Atomic == INSTANCE AtomicEmit WITH
            api     <- IF pc = "idle" THEN api ELSE before,
            pending <- IF pc = "idle" THEN {} ELSE {batch}

RefinesAtomicEmit == Atomic!Spec

\* Emit always returns.
EmitReturns == pc # "idle" ~> pc = "idle"
=============================================================================
