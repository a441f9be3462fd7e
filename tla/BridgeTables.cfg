SPECIFICATION TablesSpec
CONSTANTS
  Clients = {c1, c2}
  Topics = {t1, t2}
  Sids = {s1, s2}
  NoEntry = NoEntry
  NoSub = NoSub
  NoList = NoList
  Ids <- ThreeIds
  Scripts <- ThreeScripts
  CallIds = {1, 2}
  MaxMessages = 3
  MaxPublished = 2
  FragmentSize = 2
  MaxMsgs = 2
  MaxRequests = 4
CHECK_DEADLOCK FALSE
SYMMETRY Interchangeable
INVARIANTS
  NoLeakedClient
  FinishCompletes
  SettledMissNothing
  DeliveredIntact
  HandledInOrder
  AnswersTellApart
