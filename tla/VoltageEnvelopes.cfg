SPECIFICATION Spec
CONSTANTS
  None = None
  gnd = gnd
  netA = netA
  netB = netB
  dev1 = dev1
  dev2 = dev2
  dev3 = dev3
  diode = diode
  mos = mos
  Ground = gnd
  Nodes = {gnd, netA, netB}
  MaxVolts = 4
  Inputs <- MCInputs
INVARIANTS PassIsSound VerdictIsReal
CHECK_DEADLOCK FALSE
