SPECIFICATION ParametersSpec
CONSTANTS
  deckA = deckA
  deckB = deckB
  deckC = deckC
  man = man
  p = p
  q = q
  r = r
  s = s
  Names <- AllNames
  Texts <- AllTexts
  Disks <- AllDisks
  Settled <- GraphDisks
  Replacements <- OddReplacements
  Gone = Gone
  Outside = Outside
  Broken = Broken
  Param = Param
  Unsafe = Unsafe
  None = None
  Manifest = man
  MaxFiles = 3
  MaxFileBytes = 2
  MaxTotalBytes = 4
  MaxDepth = 2
  MaxEdits = 1
  Cards <- AllCards
  Cells <- AllCells
  Overrides <- AllOverrides
  MaxNames = 3
  MaxWork = 7
  MaxCalls = 1
  Assessed <- AcyclicDisks
INVARIANTS CompleteWhenClean CyclesReported ParamsInOrder BoundedWork EverythingDigested ParametersAreLexical
CHECK_DEADLOCK FALSE
