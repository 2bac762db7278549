SPECIFICATION FairSpec
CONSTANTS
  c1 = c1
  Controllers = {c1}
  MaxVersions = 2
  MaxQueue = 1
  MaxFaults = 1
  Env = {"readers", "deps", "crash", "handover", "relist", "apierror", "kubectl"}
 
PROPERTIES NoRolloutHangs
