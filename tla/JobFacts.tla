------------------------------ MODULE JobFacts ------------------------------
(***************************************************************************)
(* How the analytics database describes a job: the parts that work out     *)
(* its attempt, its pod, its class of error and its parent pipeline.  They *)
(* share no state, so a behaviour is about one of them.                    *)
(***************************************************************************)
EXTENDS RetryInfo, PodUsage, ErrorClass, ParentPipelines

VARIABLE subject    \* the part the behaviour is about

factVars == <<subject, retryVars, podVars, errorVars, parentVars>>

(* A part the behaviour is not about stays in one of its initial states.   *)
RetryIdle ==
    config = [l \in Lines |-> CHOOSE c \in Configs : TRUE] /\ attempts = <<>> /\ info = <<>>
PodIdle ==
    /\ scrapes = <<>> /\ span = <<0, 0>> /\ jobInfo = NotRetrieved
    /\ job = [build |-> TRUE, failed |-> FALSE, artifacts |-> TRUE]
ErrorIdle ==
    /\ logs = [j \in FailedJobs |-> NoLog] /\ reason = [j \in FailedJobs |-> "script"]
    /\ columns = Unmarked /\ stage = "get-logs" /\ done = 0
ParentIdle ==
    /\ source = [p \in PipelineIds |-> NoParent] /\ rows = {}
    /\ stops = 0 /\ phase = "idle" /\ queue = {}

Init ==
    \/ subject = "retry"  /\ RetryInit  /\ PodIdle   /\ ErrorIdle /\ ParentIdle
    \/ subject = "pod"    /\ PodInit    /\ RetryIdle /\ ErrorIdle /\ ParentIdle
    \/ subject = "error"  /\ ErrorInit  /\ RetryIdle /\ PodIdle   /\ ParentIdle
    \/ subject = "parent" /\ ParentInit /\ RetryIdle /\ PodIdle   /\ ErrorIdle

Next ==
    \/ subject = "retry"  /\ RetryNext  /\ UNCHANGED <<subject, podVars, errorVars, parentVars>>
    \/ subject = "pod"    /\ PodNext    /\ UNCHANGED <<subject, retryVars, errorVars, parentVars>>
    \/ subject = "error"  /\ ErrorNext  /\ UNCHANGED <<subject, retryVars, podVars, parentVars>>
    \/ subject = "parent" /\ ParentNext /\ UNCHANGED <<subject, retryVars, podVars, errorVars>>

Spec == Init /\ [][Next]_factVars
=============================================================================
