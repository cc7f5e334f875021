SPECIFICATION Spec
CONSTANTS
  ProcessGuids = {p1}
  ContainerPorts = {c1}
  InstanceGuids = {i1}
  Addresses = {a1, a2}
  Epochs = {e1}
  RouterGroupGuids = {rg1}
  Indexes = {0}
  Nil = Nil
  Failed = Failed
  Ports = {1, 2}
  MaxRoutes = 2
  MaxChanges = 2
  Evacuation = FALSE
  HandleDuringSync = FALSE
  EmitMayFail = FALSE
  FetchMayFail = TRUE
  MayLoseEvents = FALSE
  MayFailOver = FALSE
  MayExpire = FALSE
  MayStabilize = FALSE
  ExternalEndpointInfos <- MCExternalEndpointInfos
  RouteSets <- MCRouteSets
INVARIANT HeldMappingsAreRouted
