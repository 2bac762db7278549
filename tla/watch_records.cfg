SPECIFICATION Spec
CONSTANTS
  p1 = p1
  p2 = p2
  r1 = r1
  r2 = r2
  w1 = w1
  Pods = {p1, p2}
  Releases = {r1, r2}
  Watchers = {w1}
  MaxPromotes = 2
  MaxRestarts = 1
  MaxReports = 1
  Env = {"overlap", "apierror"}
SYMMETRY Interchangeable
INVARIANT TypeOK
PROPERTY RecordOutlivesReport
CHECK_DEADLOCK FALSE
