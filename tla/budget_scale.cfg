SPECIFICATION FairShutdownSpec
CONSTANTS
  t1 = t1
  t2 = t2
  p1 = p1
  s1 = s1
  s2 = s2
  Ticks = {t1, t2}
  Pods = {p1}
  Leader = p1
  Services = {s1, s2}
  MaxScale = 1
  Modes = {"auto-on-reset", "manual"}
  Notice = 1
  Cooldown = 2
  Caps = {1}
  Actions = {"auto-shutdown"}
  MonthLength = 9
  MaxTime = 4
  MaxCalls = 2
  MaxEdits = 2
  MaxFaults = 0
  Env = {"overlap"}
 
PROPERTY NoticeEnds
CHECK_DEADLOCK FALSE
