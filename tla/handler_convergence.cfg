SPECIFICATION FairSpec
CONSTANTS
  ProcessGuids = {p1}
  ContainerPorts = {c1}
  InstanceGuids = {i1}
  Addresses = {a1}
  Epochs = {e1}
  RouterGroupGuids = {rg1}
  Indexes = {0}
  Nil = Nil
  Failed = Failed
  Ports = {0, 1, 2}
  MaxRoutes = 2
  MaxChanges = 2
  Evacuation = FALSE
  HandleDuringSync = TRUE
  EmitMayFail = TRUE
  FetchMayFail = TRUE
  MayLoseEvents = TRUE
  MayFailOver = TRUE
  MayExpire = TRUE
  MayStabilize = TRUE
  ExternalEndpointInfos <- MCExternalEndpointInfos
  RouteSets <- MCPort1RouteSets
INVARIANT DesiredRoutesArePresent
PROPERTY
  Converges
