SPECIFICATION FairSpec
CONSTANTS
  None = None
  Exceeded = Exceeded
  Unknown = Unknown
  Nodes <- MCNodes
  Queries <- MCQueries
  Systems <- MCSystems
  Fitting <- MCFitting
  MaxVolts = 2
  MaxVisits = 14
  MaxQueries = 2
INVARIANTS AcceptedIsFeasible ConflictIsReal AnswersAreTight
PROPERTIES NothingAfterBudget WorkEnds
CHECK_DEADLOCK FALSE
