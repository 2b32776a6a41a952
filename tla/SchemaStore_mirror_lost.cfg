SPECIFICATION Spec
CONSTANTS
  Tables = {T1}
  Cols = {c1}
  Engines = {e0, e1}
  MirrorEngine = e0
  RowEngine = e0
  DdlTasks = {t1}
  DmlTasks = {t1}
  None = None
  MaxDefs = 1
INVARIANTS TablesMirrored
CHECK_DEADLOCK FALSE
