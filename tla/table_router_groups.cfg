SPECIFICATION Spec
CONSTANTS
  ProcessGuids = {p1}
  ContainerPorts = {c1}
  InstanceGuids = {i1}
  Addresses = {a1}
  Epochs = {e1}
  RouterGroupGuids = {rg1, rg2}
  Nil = Nil
  MaxIndex = 2
  MaxRoutes = 1
  Ports = {1}
  ExternalEndpointInfos <- MCExternalEndpointInfos
  DesiredInputs <- MCDesiredInputs
  DesiredChanges <- MCDesiredChanges
  ActualInputs <- MCActualInputs
  SwapTables <- MCSwapTables
PROPERTY DroppedExternalEndpointsAreUnregistered
