SPECIFICATION Spec
CONSTANTS
  Tables = {T1, T2}
  Cols = {c1, c2}
  Engines = {e0, e1}
  MirrorEngine = e0
  RowEngine = e1
  DdlTasks = {t1, t2}
  DmlTasks = {t2}
  None = None
  MaxDefs = 1
INVARIANTS TypeOK SchemaCacheCoherent ColumnsMirrored RowsHaveTheirTable
CHECK_DEADLOCK FALSE
CONSTRAINT NoClash
SYMMETRY Symmetry
