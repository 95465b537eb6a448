SPECIFICATION Spec
CONSTANTS
  ruleA = ruleA
  ruleB = ruleB
  cellA = cellA
  cellB = cellB
  path = path
  None = None
  Names = {ruleA, ruleB, cellA, cellB, path}
  Reports <- MCReports
  MaxFindings = 3
INVARIANTS EveryViolationFound CleanOnlyWhenSaid OneFindingPerLine
CHECK_DEADLOCK FALSE
