SPECIFICATION ShutdownSpec
CONSTANTS
  t1 = t1
  p1 = p1
  s1 = s1
  Ticks = {t1}
  Pods = {p1}
  Leader = p1
  Services = {s1}
  MaxScale = 1
  Modes = {"auto-on-reset", "manual"}
  Notice = 1
  Cooldown = 2
  Caps = {1, 9}
  Actions = {"auto-shutdown"}
  MonthLength = 9
  MaxTime = 4
  MaxCalls = 2
  MaxEdits = 0
  MaxFaults = 0
  Env = {"set"}
PROPERTY ShutsOnlyOverCap
CHECK_DEADLOCK FALSE
