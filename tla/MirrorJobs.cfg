SPECIFICATION Spec
CONSTANTS
    s1 = s1  s2 = s2  a = a  b = b
    KStacks = {s1, s2}
    KSpecs = {a, b}
    Generated <- MCGenerated
    Top = top
    MaxDeaths = 1
    Numbers = {1, 2, 3}
    PullPage = 1
    MaxPullOps = 6
    MSpecs = {h1, h2, h3, h4}
    Paired = {h1, h2, h4}
    Signed = {h1, h3, h4}
    Nested = {h4}
    MKeys = {k1}
    Sharing = {FALSE, TRUE}
    MaxMFaults = 2
    GitRefs = {"develop", "release", "pr"}
    Protected = {"develop", "release"}
    Unclonable = {"release"}
    PHashes = {a, b}
    RefStacks = {1, 2}
    Built <- MCBuilt
    Rebuilt <- MCRebuilt
    MaxRefBuilds = 2
    MaxRefFaults = 1
INVARIANTS MirrorTypeOK MigratedWhole TopDescribesArchive
PROPERTIES KeepsWanted TopIndexFollows ActiveMirrorKept ClosedMirrorGone AllMigrated RefsGetPublished
CHECK_DEADLOCK FALSE
