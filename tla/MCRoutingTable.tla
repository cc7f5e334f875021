--------------------------- MODULE MCRoutingTable ---------------------------
(***************************************************************************)
(* Bounded arguments for RoutingTable.  The sets below are every desired   *)
(* LRP, change and running actual LRP over the constants of the cfg, with  *)
(* tag indices up to MaxIndex; the tables to swap in are the ones a bulk   *)
(* sync builds from at most one desired LRP and one actual LRP.            *)
(***************************************************************************)
EXTENDS RoutingTable

CONSTANTS MaxIndex, MaxRoutes, Ports

\* Bound on the revisions of a record.
Tags == [epoch : Epochs, index : 1..MaxIndex]

MCExternalEndpointInfos == [routerGroupGuid : RouterGroupGuids, port : Ports]

\* Bound on the routes of one desired LRP.
MCDesiredInputs ==
  {d \in [processGuid : ProcessGuids, routes : SUBSET TCPRoutes, modificationTag : Tags] :
     Cardinality(d.routes) <= MaxRoutes}

\* A change keeps the process guid and advances the tag.
MCDesiredChanges ==
  {c \in [before : MCDesiredInputs, after : MCDesiredInputs] :
     /\ c.before.processGuid = c.after.processGuid
     /\ c.before.modificationTag # c.after.modificationTag
     /\ SucceededBy(c.before.modificationTag, c.after.modificationTag)}

RunningLRPs ==
  [processGuid     : ProcessGuids,
   instanceGuid    : InstanceGuids,
   ports           : [ContainerPorts -> Addresses \cup {Nil}],
   state           : {"RUNNING"},
   modificationTag : Tags]

\* Two container ports of an instance never share a host port, and every
\* group here has one side, as in the events of the BBS.
MCActualInputs ==
  LET distinct == {lrp \in RunningLRPs :
                     \A c1, c2 \in ContainerPorts :
                       lrp.ports[c1] # Nil /\ lrp.ports[c1] = lrp.ports[c2] => c1 = c2}
  IN  {[instance |-> lrp, evacuating |-> Nil] : lrp \in distinct}
        \cup {[instance |-> Nil, evacuating |-> lrp] : lrp \in distinct}

MCSwapTables ==
  LET routed == {NewTable} \cup {AddRoutes(NewTable, d).entries : d \in MCDesiredInputs}
  IN  routed \cup {AddEndpoint(t, g).entries : t \in routed, g \in MCActualInputs}
=============================================================================
