SPECIFICATION Spec
CONSTANTS
  N = 2
  Engines <- MCEngines
  EngineOf <- MCEngineOf
  Keys = {1, 2}
  Table = {1, 2}
  Columns = {c1, c2}
  Caching = {TRUE, FALSE}
  Tasks = {t1, t2}
  MaxRequests = 3
  MaxOps = 3
  Absent = Absent
SYMMETRY Symmetry
CONSTRAINT Telling
INVARIANTS TypeOK ReadYourWrites UpdateMerges CacheCoherent
CHECK_DEADLOCK FALSE
