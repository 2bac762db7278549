SPECIFICATION FairSpec
CONSTANTS
  p1 = p1
  r1 = r1
  r2 = r2
  w1 = w1
  Pods = {p1}
  Releases = {r1, r2}
  Watchers = {w1}
  MaxPromotes = 2
  MaxRestarts = 0
  MaxReports = 1
  Env = {"expiry", "again", "created"}
PROPERTY EveryRecordIsClosed
CHECK_DEADLOCK FALSE
