SPECIFICATION Spec
CONSTANTS
  ProcessGuids = {p1}
  ContainerPorts = {c1}
  InstanceGuids = {i1, i2}
  Addresses = {a1, a2}
  Epochs = {e1}
  RouterGroupGuids = {rg1}
  Indexes = {0}
  Nil = Nil
  Failed = Failed
  Ports = {1}
  MaxRoutes = 1
  MaxChanges = 4
  Evacuation = TRUE
  HandleDuringSync = TRUE
  EmitMayFail = FALSE
  FetchMayFail = TRUE
  MayLoseEvents = FALSE
  MayFailOver = FALSE
  MayExpire = FALSE
  MayStabilize = FALSE
  ExternalEndpointInfos <- MCExternalEndpointInfos
  RouteSets <- MCRouteSets
INVARIANTS
  TypeOK
  NoGhostEndpoints
  DesiredRoutesArePresent
PROPERTY
  SyncKeepsSteadyMappings
SYMMETRY Symmetry
