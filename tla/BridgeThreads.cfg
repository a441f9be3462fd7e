SPECIFICATION ThreadsSpec
CONSTANTS
  Clients = {c1, c2}
  AdvIds = {a1}
  MaxPubs = 2
  MaxTimers = 3
  MaxRequests = 4
  Sids = {s1, s2}
  NotThere = NotThere
  MaxMsgs = 3
  Params <- Wishes
CHECK_DEADLOCK FALSE
INVARIANTS
  KeptWhileAdvertised
  FinishCompletes
  NoMissedMessage
PROPERTIES
  TakenDown
  InOrder
  JoinEnds
