SPECIFICATION Spec
CONSTANTS
  p1 = p1
  r1 = r1
  w1 = w1
  w2 = w2
  Pods = {p1}
  Releases = {r1}
  Watchers = {w1, w2}
  MaxPromotes = 1
  MaxRestarts = 1
  MaxReports = 1
  Env = {"mirror", "informer"}
SYMMETRY Interchangeable
INVARIANT CompletedHasRun
CHECK_DEADLOCK FALSE
