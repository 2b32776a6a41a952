SPECIFICATION Spec
CONSTANTS
  e1 = e1
  Engines = {e1}
  Keys = {a1, b1}
  Vals = {v1, v2}
  Absent = Absent
  EngineOf <- OnFirst
  Ranges = {{a1}}
  MaxBatchOps = 2
  WriteSync = TRUE
  MayFail = TRUE
  MaxOps = 2
INVARIANTS CompletedIsCommitted
CHECK_DEADLOCK FALSE
