SPECIFICATION Spec
CONSTANTS
  w1 = w1
  w2 = w2
  w3 = w3
  out = out
  outUpper = outUpper
  in = in
  inUpper = inUpper
  outEntry = outEntry
  inEntry = inEntry
  Writers = {w1, w2, w3}
  Files = {f1, f2, f3}
  Names <- MCNames
  Paths <- MCPaths
  None = None
  Outsider = Outsider
  Unused = Unused
  Size = 2
  Entry <- MCEntry
  Identity <- MCIdentity
  Target <- MCTarget
  Protected <- MCProtected
  Forced <- MCForced
  MaxMeddling = 1
SYMMETRY FileSymmetry
INVARIANTS WholeReports
PROPERTIES NothingOverwritten NoTemporaryLeft ImplementsAtomicPublish
CHECK_DEADLOCK FALSE
