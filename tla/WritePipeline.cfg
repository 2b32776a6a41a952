SPECIFICATION FairSpec
CONSTANTS
  e1 = e1
  Engines = {e1}
  Keys = {a1, b1}
  Vals = {v1}
  Absent = Absent
  EngineOf <- OnFirst
  Ranges = {{a1}}
  MaxBatchOps = 2
  WriteSync = TRUE
  MayFail = TRUE
  MaxOps = 4
INVARIANTS
  TypeOK
  PipelineOrder
  EngineReflectsLog
  CompletedIsVisible
  ClosedIsDrained
PROPERTIES
  NeverBackwards
  ImplementsOpLog
  TicketsComplete
  DropReturns
CHECK_DEADLOCK FALSE
