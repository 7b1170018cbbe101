----------------------------- MODULE MirrorJobs -----------------------------
(***************************************************************************)
(* The jobs that prune, migrate and publish the mirrors of layout 2.  Each *)
(* works on mirrors of its own, so a behaviour is about one of them;       *)
(* inside a part the job runs interleaved with the pipelines that push     *)
(* and with its own threads.                                               *)
(***************************************************************************)
EXTENDS KeepList, PRMirrors, Migrate, PublishRefs

VARIABLE subject    \* the job the behaviour is about

Subjects == {"keep", "pulls", "migrate", "refs"}

mirrorVars == <<subject, kVars, pVars, mVars, refVars>>

Init ==
    /\ subject \in Subjects
    /\ KeepInit /\ PullInit /\ MigrateInit /\ RefsInit

PruneNext   == subject = "keep" /\ KeepNext /\ UNCHANGED <<subject, pVars, mVars, refVars>>
PullsNext   == subject = "pulls" /\ PullNext /\ UNCHANGED <<subject, kVars, mVars, refVars>>
MigrationNext == subject = "migrate" /\ MigrateNext /\ UNCHANGED <<subject, kVars, pVars, refVars>>
PublishNext == subject = "refs" /\ RefsNext /\ UNCHANGED <<subject, kVars, pVars, mVars>>

Next == PruneNext \/ PullsNext \/ MigrationNext \/ PublishNext

(* Every job is started again, by its schedule or its operator, and goes   *)
(* on while it runs.                                                       *)
Fairness ==
    /\ WF_kVars(subject = "keep" /\ KeepStep)
    /\ WF_pVars(subject = "pulls" /\ PullStep)
    /\ WF_mVars(subject = "migrate" /\ MigrateStep)
    /\ WF_refVars(subject = "refs" /\ (RefsStep \/ RefRaises))

Spec == Init /\ [][Next]_mirrorVars /\ Fairness

-----------------------------------------------------------------------------
(* Every part keeps to its types, whichever runs die: keep lists and       *)
(* mirrors hold known hashes, tasks are at a step, pages are pages.        *)
MirrorTypeOK == KeepTypeOK /\ PullTypeOK /\ MigrateTypeOK /\ RefsTypeOK
=============================================================================
