SPECIFICATION SupportSpec
CONSTANTS
  t1 = t1
  t2 = t2
  m1 = m1
  m2 = m2
  m3 = m3
  Tags = {t1, t2}
  Media = {m1, m2, m3}
  NoMedia = NoMedia
  FirstMedia <- MCFirstMedia
  TagLists <- MCTagLists
  Editors = {e1, e2}
  NoEditor = NoEditor
  MaxEdits = 3
  Callers = {c1, c2}
  NoList = NoList
  MaxTableChanges = 2
  MaxListErrors = 1
  Servers = {s1, s2}
  LimitedKeys = {k1}
  NoLimitedKey = NoLimitedKey
  Calls = {r1, r2, r3}
  Limit = 2
  MaxCalls = 5
  MaxLimitFaults = 1
  LoggedTables = {"articles"}
  Writers = {w1}
  NoBatch = NoBatch
  NoWriter = NoWriter
  MaxTransactions = 4
  MaxRows = 2
  Jobs = {j1, j2}
  MaxJobs = 2
  MaxJobFaults = 1
  MaxFailovers = 1
INVARIANTS
  TagsOfLastUpdate
  OneCover
  WindowHoldsLimit
  WindowsEndUnlessFault
  BatchTellsItsItems
  BatchIsOneTransaction
  SucceededRunHoldsItsPast
PROPERTIES
  ListsCatchUp
CHECK_DEADLOCK FALSE
