SPECIFICATION ShutdownSpec
CONSTANTS
  t1 = t1
  t2 = t2
  p1 = p1
  s1 = s1
  s2 = s2
  Ticks = {t1, t2}
  Pods = {p1}
  Leader = p1
  Services = {s1, s2}
  MaxScale = 2
  Modes = {"auto-on-reset", "manual"}
  Notice = 1
  Cooldown = 2
  Caps = {1, 9}
  Actions = {"auto-shutdown", "block-new-deploys"}
  MonthLength = 3
  MaxTime = 4
  MaxCalls = 3
  MaxEdits = 0
  MaxFaults = 1
  Env = {"overlap", "set", "clear", "period"}
INVARIANT TypeOK
PROPERTIES  ArmsOnce
SYMMETRY Alike
CHECK_DEADLOCK FALSE
