SPECIFICATION Spec
CONSTANTS
  c1 = c1
  c2 = c2
  u1 = u1
  u2 = u2
  site = site
  sub = sub
  other = other
  star = star
  web = web
  soul = soul
  domain = domain
  shell = shell
  mcp = mcp
  Calls = {c1, c2}
  Users = {u1, u2}
  Tools <- MCTools
  Keys <- MCKeys
  AnyKey = star
  Web = web
  Soul = soul
  DomainTool = domain
  Requests <- WideRequests
  DomainTier = "require-approval"
  BaseAllowed = {other}
  BaseTrusted = {}
  Subdomain <- MCSubdomain
  MaxRestarts = 1
SYMMETRY Symmetry
INVARIANTS TypeOK PendingTracked ExecutionAccounted GrantsConsented CapabilityTraced NoticesJustified RecordAgrees
PROPERTIES SettledFinal
