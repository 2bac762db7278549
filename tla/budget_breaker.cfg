SPECIFICATION BudgetSpec
CONSTANTS
  t1 = t1
  t2 = t2
  p1 = p1
  Ticks = {t1, t2}
  Pods = {p1}
  Caps = {1, 2}
  Actions = {"alert-only", "block-new-deploys"}
  MonthLength = 2
  MaxTime = 3
  Retries = 2
  MaxCalls = 2
  MaxFaults = 1
SYMMETRY Alike
INVARIANTS TypeOK BlockedOnlyOverCap BlockedIsAlerted 
PROPERTY ActsAsLedger
CHECK_DEADLOCK FALSE
