SPECIFICATION FairSpec
CONSTANTS
  a1 = a1
  r1 = r1
  r2 = r2
  Approvals = {a1}
  Requests = {r1, r2}
  Platform = "here"
  MaxNotices = 2
  FirstDelay = 500
  MaxDelay = 2000
  MaxDowns = 1
  MaxExits = 1
INVARIANTS TypeOK
PROPERTIES DecisionsKept DeskConsents RequestsAnswered Reconnects ExpiryTold TurnsAnswered
CHECK_DEADLOCK FALSE
