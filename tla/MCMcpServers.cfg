SPECIFICATION Spec
CONSTANTS
  s1 = s1
  s2 = s2
  a1 = a1
  a2 = a2
  None = None
  Addresses = {a1, a2}
  Servers = {s1, s2}
  Networked = {s1, s2}
  MaxRestartAttempts = 3
  MaxCrashes = 2
  MaxContainers = 4
INVARIANTS TypeOK Watched NoStaleRegistration StopsListed
PROPERTIES Supervised
SYMMETRY Symmetry
CHECK_DEADLOCK FALSE
