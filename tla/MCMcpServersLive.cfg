SPECIFICATION FairSpec
CONSTANTS
  s1 = s1
  s2 = s2
  a1 = a1
  a2 = a2
  None = None
  Addresses = {a1, a2}
  Servers = {s1, s2}
  Networked = {s1}
  MaxRestartAttempts = 3
  MaxCrashes = 1
  MaxContainers = 3
PROPERTIES StartupEnds CrashNoticed
CHECK_DEADLOCK FALSE
