SPECIFICATION PartsSpec
CONSTANTS
  r1 = r1
  r2 = r2
  x = x
  v1 = v1
  v2 = v2
  t1 = t1
  t2 = t2
  c1 = c1
  c2 = c2
  Runs = {r1, r2}
  Rows = {x}
  Values = {v1, v2}
  MaxGroups = 2
  MaxEntries = 2
  MaxManagers = 2
  Tasks = {t1, t2}
  Dialects = {"sqlite", "mysql"}
  MaxRows = 2
  Batches = 2
  Calls = {c1, c2}
  MaxTexts = 1
  MaxRetries = 1
  MaxReloads = 1
  MaxLag = 2
CHECK_DEADLOCK FALSE
INVARIANT HistoryTellsTruth
