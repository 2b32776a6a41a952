SPECIFICATION Spec
CONSTANTS
  N = 1
  Engines <- MCEngines
  EngineOf <- MCEngineOf
  Keys = {1}
  Table = {1}
  Columns = {c1}
  Caching = {TRUE}
  Tasks = {t1, t2}
  MaxRequests = 2
  MaxOps = 2
  Absent = Absent
INVARIANTS StrictReadYourWrites
CHECK_DEADLOCK FALSE
