SPECIFICATION Spec
CONSTANTS
    Lines = {l1, l2}
    Reasons = {"system", "script"}
    Configs <- MCConfigs
    MaxAttempts = 4
    Pods = {p1, p2, p3}
    JobPod = p1
    Horizon = 3
    PodSteps = {1, 2}
    FailedJobs = {j1, j2, j3}
    Missing = "missing"
    Taxonomy <- MCTaxonomy
    DeconflictOrder <- MCDeconflictOrder
    ProcessorOrder <- MCProcessorOrder
    PipelineIds = {1, 2, 3}
    Tags = {a, b}
    BatchSize = 1
    MaxStops = 1
INVARIANTS RetryInfoExact ShareInRange ClassedAlike ParentsRight
CHECK_DEADLOCK FALSE
