------------------------------ MODULE PodUsage ------------------------------
(***************************************************************************)
(* What the job processor learns of a job that ran in the cluster:         *)
(* job_processor/prometheus.py and retrieve_job_info of metadata.py.       *)
(* Prometheus scrapes the build containers of a node; the task of the job  *)
(* asks for the scrapes between its start and its end, in steps.  A second *)
(* of the job is one scrape here.                                          *)
(***************************************************************************)
EXTENDS Integers, Sequences, FiniteSets

CONSTANTS
    Pods,           \* pods on the node
    JobPod,         \* the pod of the job
    Horizon,        \* bound: scrapes
    PodSteps        \* steps of the range query

ASSUME PodAssumption ==
    /\ JobPod \in Pods /\ IsFiniteSet(Pods) /\ Horizon \in Nat
    /\ PodSteps \subseteq Nat \ {0}

(* What goes wrong: a request is answered with an error, a query does not  *)
(* have the single result it must have, or a label is not on the node or   *)
(* on the pod.                                                             *)
Failures == {"nothing", "http", "annotations", "node", "nodekey", "price", "memory",
             "labels", "labelkey"}

NotRetrieved == [from |-> "no"]

VARIABLES
    scrapes,        \* scrapes[t]: the pods whose build container was scraped at t
    span,           \* <<first, last>> scrape of the job; 0 when not known yet
    job,            \* [build, failed, artifacts]: of the job that ended
    jobInfo         \* what retrieve_job_info returned or raised

podVars == <<scrapes, span, job, jobInfo>>

JobKinds == [build : BOOLEAN, failed : BOOLEAN, artifacts : BOOLEAN]

PodInit ==
    /\ scrapes = <<>> /\ span = <<0, 0>>
    /\ job \in JobKinds /\ jobInfo = NotRetrieved

-----------------------------------------------------------------------------
(* The container of a job starts after the job, and a scrape can fail.     *)
Scrape ==
    /\ Len(scrapes) < Horizon
    /\ \E pods \in SUBSET Pods : scrapes' = Append(scrapes, pods)
    /\ UNCHANGED <<span, job, jobInfo>>

JobStarts ==
    /\ span[1] = 0 /\ span' = <<Len(scrapes) + 1, 0>>
    /\ UNCHANGED <<scrapes, job, jobInfo>>

JobEnds ==
    /\ span[1] # 0 /\ span[2] = 0 /\ span[1] <= Len(scrapes)
    /\ span' = <<span[1], Len(scrapes)>>
    /\ UNCHANGED <<scrapes, job, jobInfo>>

-----------------------------------------------------------------------------
(***************************************************************************)
(* get_pod_usage_and_occupancy.                                            *)
(***************************************************************************)
Asked(step)  == {t \in span[1] .. span[2] : (t - span[1]) % step = 0}
Series(step) == {p \in Pods : \E t \in Asked(step) : p \in scrapes[t]}

(* The points in time with a pod, and the pods at each.                    *)
Timeline(step) == {t \in Asked(step) : scrapes[t] # {}}
Present(t)     == Cardinality(scrapes[t])

FirstOf(T) == CHOOSE t \in T : \A u \in T : t <= u
LastOf(T)  == CHOOSE t \in T : \A u \in T : u <= t

(* calculate_node_occupancy, as a fraction: a common multiple of all       *)
(* numbers of pods is the unit of the sum.                                 *)
Unit == LET mult[n \in 0 .. Cardinality(Pods)] == IF n = 0 THEN 1 ELSE n * mult[n - 1]
        IN  mult[Cardinality(Pods)]

SumShares(T) ==
    LET sum[t \in 0 .. Horizon] ==
            IF t = 0 THEN 0
            ELSE sum[t - 1] + (IF t \in T THEN Unit \div Present(t) ELSE 0)
    IN  sum[Horizon]

CountedAll(T) == T   \* faulty variant: the first point is counted too
Counted(T)    == T \ {FirstOf(T)}

Occupancy(step) ==
    LET T == Timeline(step)
    IN  IF FirstOf(T) = LastOf(T) THEN <<Unit \div Present(FirstOf(T)), Unit>>
        ELSE <<step * SumShares(Counted(T)), Unit * (LastOf(T) - FirstOf(T))>>

(* One series is taken for one point in time.                              *)
UsageFound(step) == Cardinality(Series(step)) # 1 /\ JobPod \in Series(step)

-----------------------------------------------------------------------------
(***************************************************************************)
(* retrieve_job_info.                                                      *)
(***************************************************************************)
(* retrieve_job_prometheus_info: the labels are read for builds only.      *)
FromPrometheus(failure, step) ==
    /\ failure \notin {"http", "annotations", "node", "nodekey", "price", "memory"}
    /\ UsageFound(step)
    /\ job.build => failure \notin {"labels", "labelkey"}

(* Neither the error of a request nor that of a missing label is caught:   *)
(* the task of the job fails.                                              *)
Raised(failure, step) ==
    failure \in {"http", "nodekey"} \/ (failure = "labelkey" /\ job.build /\ UsageFound(step))

Fallback ==
    IF ~job.build THEN "nothing"
    ELSE IF job.artifacts THEN "artifacts"
    ELSE IF job.failed THEN "name"
    ELSE "raised"

RetrieveJobInfo ==
    /\ span[2] # 0 /\ jobInfo.from \in {"no", "raised"}
    /\ \E failure \in Failures, step \in PodSteps :
          jobInfo' = IF FromPrometheus(failure, step)
                     THEN [from |-> "prometheus", occupancy |-> Occupancy(step), step |-> step]
                     ELSE [from |-> IF Raised(failure, step) THEN "raised" ELSE Fallback,
                           failure |-> failure, step |-> step]
    /\ UNCHANGED <<scrapes, span, job>>

PodNext == Scrape \/ JobStarts \/ JobEnds \/ RetrieveJobInfo

PodSpec == PodInit /\ [][PodNext]_podVars

-----------------------------------------------------------------------------
(* The cost of a job is its share of the node times the price of the node: *)
(* whatever pods come and go beside it, however late its container starts  *)
(* and whatever scrapes are missing, the share is more than nothing and    *)
(* never more than the whole node.                                         *)
ShareInRange ==
    jobInfo.from = "prometheus" =>
        /\ 0 < jobInfo.occupancy[1] /\ jobInfo.occupancy[1] <= jobInfo.occupancy[2]

(* prometheus.py:263 "Require more than one timeline value for the node,   *)
(* as we need a range of values": when every query has answered and the    *)
(* job's own pod was seen at several points in time, its usage is found.   *)
RangeIsEnough ==
    jobInfo.from \in {"nothing", "artifacts", "name", "raised"} /\ jobInfo.failure = "nothing" =>
        ~\E t, u \in Asked(jobInfo.step) : t # u /\ JobPod \in scrapes[t] /\ JobPod \in scrapes[u]
=============================================================================
