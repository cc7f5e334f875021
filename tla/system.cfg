SPECIFICATION SystemSpec
CONSTANTS
  ProcessGuids = {p1}
  ContainerPorts = {c1}
  InstanceGuids = {i1}
  Addresses = {a1}
  Epochs = {e1, e2}
  RouterGroupGuids = {rg1}
  Indexes = {0}
  Nil = Nil
  Failed = Failed
  Ports = {1}
  MaxRoutes = 1
  MaxChanges = 2
  MaxSubscriptions = 2
  MaxEvents = 2
  Evacuation = FALSE
  HandleDuringSync = TRUE
  EmitMayFail = FALSE
  FetchMayFail = TRUE
  MayLoseEvents = TRUE
  MayFailOver = FALSE
  MayExpire = FALSE
  MayStabilize = FALSE
  ExternalEndpointInfos <- MCExternalEndpointInfos
  RouteSets <- MCPort1RouteSets
INVARIANTS
  NoGhostEndpoints
  HeldMappingsAreRouted
PROPERTIES
  SyncKeepsSteadyMappings
  RefinesSerialHandler
  LoopsBringItUpToDate
