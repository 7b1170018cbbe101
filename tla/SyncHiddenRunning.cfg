SPECIFICATION Spec
CONSTANTS
    PRs = {p}
    Conflicts = {}
    MayBeUrgent = {}
    MaySkip = {}
    MaxMain = 2
    MaxRev = 0
    PageSize = 20
    FirstStatus = {"success"}
    Kinds = {"rerun"}
    MaxOps = 1
    NoBranch = NoBranch
PROPERTIES RunningNotInterrupted
