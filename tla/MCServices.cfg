SPECIFICATION FairSpec
CONSTANTS
  Users = {u1, u2}
  MaxLogins = 3
  FewLogins = 2
  Callers = {t1, t2}
  MaxTokens = 3
  Heartbeats = {h1, h2, h3}
  Unparsable = {h3}
  MaxHops = 1
  MaxRuns = 2
  MaxToggles = 2
  Contents = {a, b}
  Skills = {s1, s2}
  Invalid = {b}
  AlwaysLoad = {s1}
  Off = {}
  Linked = {}
  NoFile = NoFile
  MaxUpdates = 2
  Calls = {c1}
  MaxLines = 2
INVARIANTS TypeOK RedirectsServed ServicesTogether OneRefresh OneTimer PromptVerified CallsAccounted
PROPERTIES LinksUsedOnce FiresAgain
CHECK_DEADLOCK FALSE
