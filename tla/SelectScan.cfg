SPECIFICATION Spec
CONSTANTS
  PartitionKeys <- MCPartitionKeys
  ClusteringKeys <- MCClusteringKeys
  Regular = {"v"}
  Values <- MCValues
  Radix = 8
  Tables <- MCTables
  Engine <- MCEngine
  Engines = 2
  Wheres <- MCWheres
  Limits = {None, 1}
  PageSizes = {None, 0, 3}
  HardCap = 5
  None = None
INVARIANTS AnswersQuery ClusteringOrder
CHECK_DEADLOCK FALSE
