------------------------------ MODULE BBSModels ------------------------------
(***************************************************************************)
(* The values the emitter receives from the BBS (the packages bbs/models   *)
(* and routing-info/tcp_routes, which are not part of this repository) and *)
(* the three functions of theirs it calls: ModificationTag.SucceededBy,    *)
(* ModificationTag.Equal and ActualLRPGroup.Resolve.                       *)
(*                                                                         *)
(* An absent value (a nil pointer, a key missing from a map) is Nil.  A    *)
(* tag with an empty epoch behaves like a nil tag and is Nil too.          *)
(***************************************************************************)
EXTENDS Integers, FiniteSets

CONSTANTS
  ProcessGuids,          \* names of desired LRPs
  ContainerPorts,        \* ports inside a container
  InstanceGuids,         \* names of actual LRPs
  Addresses,             \* (host, host port) pairs a container port is bound to
  Epochs,                \* epochs of modification tags
  RouterGroupGuids,      \* names of router groups
  ExternalEndpointInfos, \* (router group, external port) pairs routes may use
  Nil                    \* the absent value

(***************************************************************************)
(* Modification tags order the revisions of one record.  Within an epoch   *)
(* the index grows; a different epoch always succeeds.                     *)
(***************************************************************************)
ModificationTags == [epoch : Epochs, index : Nat]

SucceededBy(t, other) ==
  \/ t = Nil
  \/ other = Nil
  \/ t.epoch # other.epoch
  \/ t.index < other.index

Equal(t, other) == t = other

(***************************************************************************)
(* A desired LRP as the routing table sees it (DesiredLRPSchedulingInfo).  *)
(* Its TCP routes are a set: neither the order nor a repetition of a route *)
(* changes what the table does with them.                                  *)
(***************************************************************************)
TCPRoutes == [external : ExternalEndpointInfos, containerPort : ContainerPorts]

DesiredLRPs ==
  [processGuid     : ProcessGuids,
   routes          : SUBSET TCPRoutes,
   modificationTag : ModificationTags]

(***************************************************************************)
(* An actual LRP; ports[c] is the address container port c is bound to.    *)
(***************************************************************************)
ActualLRPStates == {"UNCLAIMED", "CLAIMED", "RUNNING", "CRASHED"}

ActualLRPs ==
  [processGuid     : ProcessGuids,
   instanceGuid    : InstanceGuids,
   ports           : [ContainerPorts -> Addresses \cup {Nil}],
   state           : ActualLRPStates,
   modificationTag : ModificationTags]

\* Resolve panics on a group with neither side: no such group is sent.
ActualLRPGroups ==
  {g \in [instance : ActualLRPs \cup {Nil}, evacuating : ActualLRPs \cup {Nil}] :
     g.instance # Nil \/ g.evacuating # Nil}

\* The evacuating side counts only while the instance side is absent or is
\* neither running nor crashed.
ResolvesToEvacuating(g) ==
  \/ g.instance = Nil
  \/ g.evacuating # Nil /\ g.instance.state \notin {"RUNNING", "CRASHED"}

Resolve(g) == IF ResolvesToEvacuating(g) THEN g.evacuating ELSE g.instance

ASSUME ExternalEndpointInfosAssumption ==
  ExternalEndpointInfos \subseteq [routerGroupGuid : RouterGroupGuids, port : Nat]

ASSUME NilAssumption ==
  /\ Nil \notin Addresses
  /\ Nil \notin ModificationTags
  /\ Nil \notin ActualLRPs
  /\ Nil \notin ActualLRPStates
=============================================================================
