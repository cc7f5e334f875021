SPECIFICATION Spec
CONSTANTS
  ProcessGuids = {p1}
  ContainerPorts = {c1}
  InstanceGuids = {i1}
  Addresses = {a1}
  Epochs = {e1}
  RouterGroupGuids = {rg1}
  Indexes = {0}
  Nil = Nil
  Failed = Failed
  Ports = {1}
  MaxRoutes = 1
  MaxChanges = 2
  Evacuation = FALSE
  HandleDuringSync = FALSE
  EmitMayFail = FALSE
  FetchMayFail = FALSE
  MayLoseEvents = FALSE
  MayFailOver = FALSE
  MayExpire = FALSE
  MayStabilize = FALSE
  ExternalEndpointInfos <- MCExternalEndpointInfos
  RouteSets <- MCRouteSets
INVARIANT WantedMappingsAreRouted
