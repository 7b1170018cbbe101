-------------------------- MODULE MirrorJobsProofs --------------------------
(***************************************************************************)
(* Proofs about MirrorJobs: what is proved of its four parts holds of the  *)
(* jobs together, each of which works on mirrors of its own.               *)
(***************************************************************************)
EXTENDS MirrorJobs, PruneProofs, LayoutProofs

LEMMA PartsInit == Init => KeepInit /\ PullInit /\ MigrateInit /\ RefsInit
BY DEF Init

LEMMA PartsStep ==
    [Next]_mirrorVars =>
        [KeepNext]_kVars /\ [PullNext]_pVars /\ [MigrateNext]_mVars /\ [RefsNext]_refVars
BY DEF Next, mirrorVars, PruneNext, PullsNext, MigrationNext, PublishNext

(* Every behaviour of the jobs together is one of each of them.            *)
THEOREM PartsOfMirrorJobs == Spec => KeepSpec /\ PullSpec /\ Migration /\ RefsSpec
BY PartsInit, PartsStep, PTL DEF Spec, KeepSpec, PullSpec, Migration, RefsSpec

(* Whichever runs die and whatever is pushed, created or closed meanwhile, *)
(* every part keeps to its types.                                          *)
THEOREM MirrorTypeCorrect == Spec => []MirrorTypeOK
<1>1. KeepTypeOK /\ PullTypeOK /\ MigrateTypeOK /\ RefsTypeOK => MirrorTypeOK
  BY DEF MirrorTypeOK
<1> QED
  BY <1>1, PartsOfMirrorJobs, KeepTypeCorrect, PullTypeCorrect, MigrateTypeCorrect,
     RefsTypeCorrect, PTL

(* What layout 3 describes is there, however often a migration dies; and   *)
(* it was signed, unless migrations share a working directory.             *)
THEOREM MigratedWholeHolds == Spec => []MigratedWhole
BY PartsOfMirrorJobs, Whole, PTL

(* The top level describes no binary it does not hold, and only signed     *)
(* ones of those hashes that CI does not build again meanwhile.            *)
THEOREM TopDescribesArchiveHolds == Spec => []TopDescribesArchive
BY PartsOfMirrorJobs, DescribesArchive, PTL

(* Pruning spares what a pipeline of the window had generated when the     *)
(* lists were made, whatever is pushed, generated or pruned meanwhile.     *)
THEOREM KeepsWantedHolds == Spec => KeepsWanted
BY PartsOfMirrorJobs, WantedStays, PTL

(* The mirror of a pull request that stays active is spared, whatever      *)
(* happens to the list between two of its pages.                           *)
THEOREM ActiveMirrorKeptHolds == Spec => ActiveMirrorKept
BY PartsOfMirrorJobs, ActiveSpared, PTL
=============================================================================
