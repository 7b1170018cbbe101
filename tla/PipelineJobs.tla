---------------------------- MODULE PipelineJobs ----------------------------
(***************************************************************************)
(* The cron jobs that keep pipelines, tags, statuses and runner nodes in   *)
(* order.  Each has its own part of GitLab, GitHub or Kubernetes, so a     *)
(* behaviour is about one of them; inside a part the job runs interleaved  *)
(* with everything else that changes it.                                   *)
(***************************************************************************)
EXTENDS Janitors, TriggerRetry, SnapshotTags, SyncStatus, NodeCert

VARIABLE subject    \* the job the behaviour is about

Subjects == {"janitors", "triggers", "tags", "status", "nodes"}

pipelineVars == <<subject, janVars, trigVars, snapVars, statusVars, nodeVars>>

Init ==
    /\ subject \in Subjects
    /\ JanitorInit /\ TriggerInit /\ SnapshotInit /\ StatusInit /\ NodeInit

JanitorsNext ==
    /\ subject = "janitors" /\ JanitorNext
    /\ UNCHANGED <<subject, trigVars, snapVars, statusVars, nodeVars>>
TriggersNext ==
    /\ subject = "triggers" /\ TriggerNext
    /\ UNCHANGED <<subject, janVars, snapVars, statusVars, nodeVars>>
TagsNext ==
    /\ subject = "tags" /\ SnapshotNext
    /\ UNCHANGED <<subject, janVars, trigVars, statusVars, nodeVars>>
StatusesNext ==
    /\ subject = "status" /\ StatusNext
    /\ UNCHANGED <<subject, janVars, trigVars, snapVars, nodeVars>>
NodesNext ==
    /\ subject = "nodes" /\ NodeNext
    /\ UNCHANGED <<subject, janVars, trigVars, snapVars, statusVars>>

Next == JanitorsNext \/ TriggersNext \/ TagsNext \/ StatusesNext \/ NodesNext

(* Every job is started again by its schedule and goes on while it runs;   *)
(* the synchronisation pushes what is missing, and hours pass.             *)
Fairness ==
    /\ WF_janVars(subject = "janitors" /\ SkipStep)
    /\ \A b \in Branches : /\ WF_janVars(subject = "janitors" /\ SyncRestore(b))
                           /\ WF_janVars(subject = "janitors" /\ HourPasses(b))
    /\ WF_trigVars(subject = "triggers" /\ TriggerStep)
    /\ WF_snapVars(subject = "tags" /\ SnapshotStep)
    /\ WF_statusVars(subject = "status" /\ StatusStep)
    /\ WF_nodeVars(subject = "nodes" /\ NodeController)

Spec == Init /\ [][Next]_pipelineVars /\ Fairness

-----------------------------------------------------------------------------
(* Every part keeps to its types, whichever runs die: a branch has at most *)
(* the commits that were pushed, a trigger the attempts that were made, a  *)
(* patch only taints that were read.                                       *)
PipelineTypeOK ==
    JanitorTypeOK /\ TriggerTypeOK /\ SnapshotTypeOK /\ StatusTypeOK /\ NodeTypeOK
=============================================================================
