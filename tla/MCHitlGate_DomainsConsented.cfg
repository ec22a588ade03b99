SPECIFICATION Spec
CONSTANTS
  c1 = c1
  c2 = c2
  u1 = u1
  u2 = u2
  site = site
  sub = sub
  other = other
  star = star
  web = web
  soul = soul
  domain = domain
  shell = shell
  mcp = mcp
  Calls = {c1, c2}
  Users = {u1}
  Tools <- MCTools
  Keys <- MCKeys
  AnyKey = star
  Web = web
  Soul = soul
  DomainTool = domain
  Requests <- WebRequests
  DomainTier = "require-approval"
  BaseAllowed = {other}
  BaseTrusted = {}
  Subdomain <- MCSubdomain
  MaxRestarts = 0
SYMMETRY Symmetry
INVARIANT DomainsConsented
