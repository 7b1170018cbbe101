SPECIFICATION FairSpec
CONSTANTS
    PRs = {p}
    Conflicts = {}
    MayBeUrgent = {}
    MaySkip = {}
    MaxMain = 1
    MaxRev = 1
    PageSize = 2
    FirstStatus = {"running"}
    Kinds = {"abort", "pushfail", "retry", "delete", "rerun"}
    MaxOps = 1
    NoBranch = NoBranch
INVARIANTS TypeOK
PROPERTIES MainReachesGitLab DeferralEnds LoneNotInterrupted
