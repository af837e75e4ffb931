SPECIFICATION Spec
CONSTANTS
  Users = {u1, u2, u3}
  Acting = {u1}
  Registering = {u3}
  Soloists = {u1, u2}
  Barrable = {u1}
  Wished = {m3}
  Mails = {m1, m2, m3}
  u1 = u1  u2 = u2  u3 = u3  m1 = m1  m2 = m2  m3 = m3
  Browsers = {b1}
  NoOne = NoOne
  MaxGrants = 1  MaxEra = 1  MaxPassword = 1  MaxFails = 1  MaxTries = 1  MaxIssued = 1
  MaxClans = 2  MaxRequests = 2
  MaxTeams = 2  MaxWaiting = 1  MaxEmptied = 1
  e1 = e1  e2 = e2  duo = duo  one = one
  Cups <- MCCups  Size <- MCSize  SwissCups <- MCSwiss  Rule <- MCRule  Places <- MCPlaces
  Retention = 1  Grace = 2  MaxTime = 3  MaxFiles = 3
  Editors = {u1, u2}
  MaxPages = 3
  MaxDepth = 2  MaxRevisions = 2
  Posts = {r1, r2}
  MaxTokens = 3
  Senders = {s1, s2}
  Ips = {i1}
  HourLimit = 2  IpLimit = 2  Window = 2  Hour = 3
CHECK_DEADLOCK FALSE
INVARIANTS AccountsClosed StaleFormsRefused TeamsSound
PROPERTIES ClansAdministered PhotosKept RostersLocked
