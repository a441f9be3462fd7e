SPECIFICATION LocalizationSpec
CONSTANTS
    Positions = {0, 2}
    MaxTime = 3
    MaxQueries = 2
    MaxScanAge = 1
    EnableSeedMotion = TRUE
    WallFallback = TRUE
    MaxSpeed = 1
    MaxLatency = 1
    MaxAge = 2
    MinPairDt = 1
    MinSimDt = 1
    MaxSimDt = 2
    Replies <- SomeReplies
    Unset = Unset
    Width = 11
    Height = 11
    Depth = 2
    Yaws = {0, 1}
    MaxCandidates = 3
    Radii = {0, 1}
    Tasks <- SomeTasks
    Factor = 2
    DilateCells = 1
    MinScore = 1
    ScoreGate = 6
    Fitness = {2, 9}
    RefineCount = 2
    Configs <- SomeConfigs
    Corridor = {0, 1, 2, 3, 4, 5}
    RobotSpeed = 1
    Hint = 2
    MaxFit = 2
    MinFitness = 1
    MinFitnessReloc = 1
    ConfidenceTh = 2
    JumpFitnessMargin = 1
    MaxDposePerTick = 2
    MapDriftRate = 0
    SpeedGain = 3
    MaxInitDist = 1
    MaxRecoveryDrift = 3
    RelocalizeAfter = 2
    SettleTicks = 1
    DisUpdateMap = 2
    Sparse = {5}
    Nowhere = Nowhere
    InitialPoses <- SomePlaces
    Twists <- SomeVelocities
    Commands <- SomeVelocities
    PoseFixes <- SomeFixes
    MaxDt = 1
    Timeout = 2
    MaxGap = 2
    MaxSteps = 4
    AgeHorizon = 4
    BurstPoses = {"here", "there"}
    Counts = {0, 2, 3}
    Intervals = {1, 2}
    Cooldowns = {0, 3}
INVARIANT
    ImplausibleUnmoved
CHECK_DEADLOCK FALSE
