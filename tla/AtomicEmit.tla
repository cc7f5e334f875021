----------------------------- MODULE AtomicEmit -----------------------------
(***************************************************************************)
(* What an Emit promises its caller: when the call returns, the routing    *)
(* API has changed in one step to one of the outcomes of the batch of that *)
(* call.  The routing table handler is modelled on top of this             *)
(* specification.                                                          *)
(***************************************************************************)
EXTENDS RoutingAPI

CONSTANT Batches

VARIABLES
  api,      \* the mappings the routing API holds
  pending   \* the batch of the call under way, as a set of one or none

vars == <<api, pending>>

Init == api = {} /\ pending = {}

Call(batch) ==
  /\ pending = {}
  /\ pending' = {batch}
  /\ UNCHANGED api

Return(batch) ==
  /\ pending = {batch}
  /\ pending' = {}
  /\ api' \in Outcomes(api, batch)

Next == \E batch \in Batches : Call(batch) \/ Return(batch)

Spec == Init /\ [][Next]_vars
=============================================================================
