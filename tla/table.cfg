SPECIFICATION Spec
CONSTANTS
  ProcessGuids = {p1}
  ContainerPorts = {c1}
  InstanceGuids = {i1}
  Addresses = {a1, a2}
  Epochs = {e1}
  RouterGroupGuids = {rg1}
  Nil = Nil
  MaxIndex = 2
  MaxRoutes = 2
  Ports = {1, 2}
  ExternalEndpointInfos <- MCExternalEndpointInfos
  DesiredInputs <- MCDesiredInputs
  DesiredChanges <- MCDesiredChanges
  ActualInputs <- MCActualInputs
  SwapTables <- MCSwapTables
INVARIANT TypeOK
PROPERTIES
  NewMappingsAreRegistered
  EventsDescribeTheTable
  DroppedExternalEndpointsAreUnregistered
  RemovedEndpointsAreUnregistered
  LiveMappingsStayRegistered
  TagsNeverRegress
  SwapRegistersTheNewTable
