SPECIFICATION Spec
CONSTANTS
    PRs = {p, q}
    Conflicts = {}
    MayBeUrgent = {q}
    MaySkip = {}
    MaxMain = 1
    MaxRev = 1
    PageSize = 20
    FirstStatus = {"success"}
    Kinds = {"pushfail", "cancel"}
    MaxOps = 1
    NoBranch = NoBranch
INVARIANTS PushedOntoTested PushedWasChecked
PROPERTIES NoSecondMerge
