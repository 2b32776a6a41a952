SPECIFICATION Spec
CONSTANTS
  Syncs = {TRUE, FALSE}
  Unset = Unset
  EnvShards = {Unset, 0, 1, 3}
  DefaultShards = 2
  MaxShards = 2
  UserRows = {"r1"}
  Hash <- MCHash
  Crashes = {"process", "power"}
  MaxStarts = 3
  MaxTables = 2
INVARIANTS TypeOK NeverMisrouted AckedSurvives RowsOfThisTable MirrorMatches SystemSeeded
CONSTRAINT MCDamage
CHECK_DEADLOCK FALSE
