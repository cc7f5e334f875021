----------------------------- MODULE RoutingAPI -----------------------------
(***************************************************************************)
(* The routing API (external): a set of TCP route mappings that requests   *)
(* add to and remove from.  A batch is the pair of requests one Emit makes *)
(* out of its routing events.                                              *)
(***************************************************************************)

\* A request that is answered with an error may have been carried out for
\* some of its mappings.
UpsertEffects(api, mappings) == {api \cup s : s \in SUBSET mappings}

DeleteEffects(api, mappings) == {api \ s : s \in SUBSET mappings}

\* What a batch does when all goes well: deletes come last and win.
Applied(api, batch) == (api \cup batch.upserts) \ batch.deletes

\* What it may do at all: nothing is deleted unless every upsert was made.
Outcomes(api, batch) ==
  UpsertEffects(api, batch.upserts)
    \cup DeleteEffects(api \cup batch.upserts, batch.deletes)
=============================================================================
