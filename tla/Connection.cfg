SPECIFICATION FairSpec
CONSTANTS
  Runtimes = {"tokio", "monoio"}
  FrameSize = 2
  Threshold = 3
  Kinds = {"startup", "use", "padded_use", "query", "compressed", "prepare", "execute", "fatal", "panicking"}
  Permits = 2
  Capacity = 1
  IdSpace = 3
  MaxFrames = 3
INVARIANTS TypeOK OneResponseEach UseBeforeLater ExecutesPrepared WholeFrames
PROPERTIES EveryRequestAnswered ConnectionEnds
CHECK_DEADLOCK FALSE
