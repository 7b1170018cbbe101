SPECIFICATION Spec
CONSTANTS
    Branches = {b1}
    MaxTip = 3
    MaxJanOps = 3
    MaxJanFaults = 1
    TriggerStacks = {s1, s2}
    MaxAttempt = 2
    WindowRuns = 3
    MaxTrigFaults = 1
    Commits = {1, 2, 3}
    Days = {1, 2}
    MaxReruns = 2
    MaxSnapFaults = 1
    HeadsOfPR = {h1}
    Merges = {1, 2}
    MaxPipelines = 2
    MaxReports = 1
    MaxTurns = 1
    WindowSyncs = 3
    MaxPostFaults = 1
    Nodes = {n1, n2}
    MaxNodeOps = 2
INVARIANTS PipelineTypeOK
PROPERTIES SecondOnlyIfDisturbed OpenGetsTested OnlyEmptyRetried EmptyRetried
    LatestFollows StatusSettles NodeOthersKept NodeJoinsService
CHECK_DEADLOCK FALSE
