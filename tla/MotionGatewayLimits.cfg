SPECIFICATION Spec
CONSTANTS
  nan = nan
  NonFinite = nan
  NoCmd = NoCmd
  Commands <- Wild
  MaxVx = 2
  MaxWz = 1
  FirstMaxVx = 2
  FirstMaxWz = 1
  DvPerUnit = 1
  DwPerUnit = 1
  DtCap = 1
  CmdTimeout = 1
  ArmSettle = 1
  FirstMotion = 1
  QueueTimeout = 1
  SdkDuration = 1
  RpcTimeout = 1
  InitLimit = 1
  JoinTimeout = 2
  MaxGap = 2
INVARIANTS
  Limited
PROPERTIES
  BridgeRamp
