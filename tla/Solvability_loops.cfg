SPECIFICATION MCSpec
CONSTANTS
  subA = subA
  subB = subB
  sub = sub
  missing = missing
  n1 = n1
  n2 = n2
  n3 = n3
  n4 = n4
  Nodes <- MCNodes
  Nobody = Nobody
  Zero <- zero
  None = None
  Top = Top
  GroundNets <- MCGroundNets
  PowerNets <- MCPowerNets
  RequiredPorts <- MCRequiredPorts
  OutputPorts <- MCOutputPorts
  InputPorts = {}
  OtherFindings <- MCOtherFindings
  Policies <- NoOverride
  MaxDevices = 10
  Netlists <- SourceMeshes
INVARIANT EveryLoopReported
CHECK_DEADLOCK FALSE
