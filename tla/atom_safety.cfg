SPECIFICATION Spec
CONSTANTS
  c1 = c1
  c2 = c2
  Controllers = {c1, c2}
  MaxVersions = 2
  MaxQueue = 1
  MaxFaults = 1
  Env = {"overlap", "cancel", "handover"}
SYMMETRY Replicas
INVARIANTS TypeOK OneStepBack
PROPERTIES VersionHistory
