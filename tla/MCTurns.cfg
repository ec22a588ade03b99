SPECIFICATION Spec
CONSTANTS
  t1 = t1
  t2 = t2
  t3 = t3
  u1 = u1
  web = web
  Turns = {t1, t2, t3}
  Users = {u1, web}
  WebUser = web
  Sizes = {2}
  MaxMessages = 3
  MaxIterations = 2
  MaxRestarts = 1
SYMMETRY Symmetry
INVARIANTS TypeOK BusyTracked WebKeepsRecent RecordTracksLoop
PROPERTIES TasksBounded
