SPECIFICATION FairSpec
CONSTANTS
  t1 = t1
  t2 = t2
  t3 = t3
  u1 = u1
  web = web
  Turns = {t1, t2}
  Users = {u1, web}
  WebUser = web
  Sizes = {2}
  MaxMessages = 3
  MaxIterations = 3
  MaxRestarts = 1
PROPERTIES TurnsEnd
