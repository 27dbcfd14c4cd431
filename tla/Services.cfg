SPECIFICATION MCSpec
CONSTANTS
  s1 = s1
  s2 = s2
  None = None
  Shell <- Shells
  Ttl = 1
  MaxVersion = 3
  a1 = a1
  a2 = a2
  q1 = q1
  p1 = p1
  p2 = p2
  Nothing = Nothing
  Asker <- Askers
  Query <- Queries
  Page <- Pages
  Plain <- PlainPages
  LeadsTo <- Redirects
  Setting <- Settings
  MaxDelay = 1
  WebTtl = 0
  Room = 1
  MaxResults = 2
  MaxPages = 1
  MaxAsks = 2
  MaxReloads = 1
  t1 = t1
  t2 = t2
  r1 = r1
  r2 = r2
  r3 = r3
  Nobody = Nobody
  Task <- Tasks
  Request <- Requests
  MaxTokens = 1
  MaxCancels = 1
  Absent = Absent
  Zsh <- Shells
  MaxEntries = 1
  MaxCommands = 2
  MaxRegistrations = 2
  MaxDeaths = 1
  MaxEdits = 1
INVARIANTS
  OutputsMatchRing
  ServicesTypeOK
  ServedIsTrue
  PagesWithinPolicy
  CancelledOnPurpose
PROPERTY
  WebAnswered
  RequestsEnd
CHECK_DEADLOCK FALSE
