SPECIFICATION MCSpec
CONSTANTS
  MaxAttempts = 3
  MinCandidateScore = 1
  MaxWalkCandidates = 2
  RequestDebounce = 1
  MinSpacing = 2
  QueryTimeout = 2
  SettleTimeout = 3
  ConfirmationSamples = 2
  CrossCheck = TRUE
  Scores <- StrongOrWeak
  NoReply = NoReply
  NoReset = NoReset
  Replies <- ShortLists
  Delays = {1, 2}
  MaxInFlight = 2
  AnswersInTime = FALSE
INVARIANTS
  AliasEndsWithEpisode
  StandDownNeedsEvidence
PROPERTIES
  EpisodeEnds
  ImplementsBudget
