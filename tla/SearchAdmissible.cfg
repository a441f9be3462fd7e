CONSTANTS
    Unset = Unset
    Width = 6
    Height = 5
    Depth = 2
    Yaws = {0, 1}
    MaxCandidates = 3
    Radii = {0, 1}
    Tasks <- SomeTasks
    Factor = 2
    DilateCells = 1
    MinScore = 1
    ScoreGate = 6
    Fitness = {2, 9}
    RefineCount = 2
    Configs <- SomeConfigs
SPECIFICATION Spec
INVARIANT Admissible
CHECK_DEADLOCK FALSE
