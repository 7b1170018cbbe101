SPECIFICATION FairSpec
CONSTANTS
    PRs = {p}
    Conflicts = {}
    MayBeUrgent = {}
    MaySkip = {}
    MaxMain = 1
    MaxRev = 0
    PageSize = 20
    FirstStatus = {"created"}
    Kinds = {"cancel"}
    MaxOps = 1
    NoBranch = NoBranch
PROPERTIES MainReachesGitLab
