SPECIFICATION FairSpec
CONSTANTS
  c1 = c1
  Controllers = {c1}
  MaxVersions = 3
  MaxQueue = 1
  MaxFaults = 0
  Env = {"overlap", "cancel"}
INVARIANTS ReportsWhatRuns
PROPERTIES EveryPromoteEnds PromotedIsApplied
