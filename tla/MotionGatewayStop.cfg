SPECIFICATION ObservedFairSpec
CONSTANTS
  nan = nan
  NonFinite = nan
  NoCmd = NoCmd
  Commands <- Forward
  MaxVx = 1
  MaxWz = 1
  FirstMaxVx = 1
  FirstMaxWz = 1
  DvPerUnit = 1
  DwPerUnit = 1
  DtCap = 1
  CmdTimeout = 2
  ArmSettle = 4
  FirstMotion = 2
  QueueTimeout = 1
  SdkDuration = 1
  RpcTimeout = 1
  InitLimit = 5
  JoinTimeout = 8
  MaxGap = 2
  Horizon = 4
INVARIANTS
  StopsInTime
  MotionNeedsArming
  ShutdownSendsZeros
PROPERTIES
  ShutdownEnds
