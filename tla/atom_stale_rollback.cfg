SPECIFICATION Spec
CONSTANTS
  c1 = c1
  Controllers = {c1}
  MaxVersions = 2
  MaxQueue = 1
  MaxFaults = 0
  Env = {"cancel"}
PROPERTIES RollsBackWhatItReads
