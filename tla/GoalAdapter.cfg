SPECIFICATION MCSpec
CONSTANTS
  Places = {near, far}
  Stamps <- TwoStamps
  Nothing = Nothing
  Dedup = 2
  Grace = 1
  FinalSpin = FALSE
  MaxGoals = 3
  MaxCancels = 2
  Waits = FALSE
INVARIANTS
  HandlesAreOpen
  SingleGoalPatient
  TracksRunningPatient
PROPERTIES
  PendingIsSentImpatient
