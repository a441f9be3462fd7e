CONSTANTS
    NoFile = NoFile
    Reference <- Trajectory
    Radius = 1
    Spacing = 1
    MaxRoute = 2
    Cells <- MapCells
    YawCount = 2
    MaxCandidates = 4
    Searched <- Found
    MaxPerAttempt = 2
    ScanStamps = {1, 3}
    MaxScanDiff = 0
    Fields <- SomeFields
    MaxScore = 6
    MaxDelta = 2
    MinMargin = 1
    Window = 3
    StableRows = 2
    MaxRows = 4
    MaxOverwrites = 1
    Steps <- MCSteps
    Samples <- MCSamples
    Poses <- MCPoses
    Threshold = 60
    MaxSteps = 6
    Recordings <- MCRecordings
    Selections <- MCSelections
    Inputs <- MCInputs
    MaxInvocations = 2
    Arguments <- MCArguments
    Clouds <- MCClouds
    Statuses <- MCStatuses
SPECIFICATION OfflineSpec
INVARIANTS IdsDenoteWindows  AcceptedSawStreak
    VetoNeedsRefresh ZeroVouches PassMeansUsable
CHECK_DEADLOCK FALSE
