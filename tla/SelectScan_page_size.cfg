SPECIFICATION Spec
CONSTANTS
  PartitionKeys <- MCPartitionKeys
  ClusteringKeys <- MCClusteringKeys
  Regular = {"v"}
  Values <- MCValues
  Radix = 8
  Tables <- MCFullTable
  Engine <- MCEngine
  Engines = 2
  Wheres <- MCWheres
  Limits = {None, 1}
  PageSizes = {None, 3}
  HardCap = 5
  None = None
INVARIANTS FullResult
CHECK_DEADLOCK FALSE
