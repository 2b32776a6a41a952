SPECIFICATION KeySpec
CONSTANTS
  MaxByte = 4
  Bang = 2
  Table <- MCTable
  Others <- MCOthers
  Parts <- MCParts
  LengthSpace = 5
  MaxParts = 2
INVARIANTS RoundTrip PrefixIsPartition KeysSort RangeIsTable
CHECK_DEADLOCK FALSE
