---------------------------- MODULE LayoutProofs ----------------------------
(***************************************************************************)
(* Proofs about the two parts of protected-publish that know layout 2:     *)
(* Migrate and PublishRefs, for any specs, keys, refs and hashes, any      *)
(* number of failures.  What is found first in a mirror (a manifest,       *)
(* metadata) is never there without what it names.  That it was signed     *)
(* holds of migrations in directories of their own, and of hashes that CI  *)
(* does not build again while they are published.                          *)
(***************************************************************************)
EXTENDS Migrate, PublishRefs, TLAPS

-----------------------------------------------------------------------------
(***************************************************************************)
(* Migrate.                                                                *)
(***************************************************************************)
(* What a worker has done; and what the plain text in the working          *)
(* directory proves, when its task still runs, unless runs share it.       *)
WorkerInv(h) ==
    /\ mstep[h] \in {"verified", "rewritten", "copied", "described"} => h \in Signed \/ shared
    /\ mstep[h] \in {"copied", "described"} => h \in archives
    /\ mstep[h] = "described" => h \in metas
    /\ mstep[h] # "done" /\ file[h] \in {"plain", "gzip"} => h \in Signed \/ shared
    /\ mgpc = "idle" /\ ~shared => file[h] = "none"

MigrateInv ==
    /\ MigrateTypeOK
    /\ \A h \in MSpecs : WorkerInv(h)
    /\ keyNow \subseteq keyBlobs
    /\ MigratedWhole

(***************************************************************************)
(* Type correctness.                                                       *)
(***************************************************************************)
LEMMA MFaultTyped == MFault /\ MigrateTypeOK => mfaults' \in 0 .. MaxMFaults
BY MigrateAssumption DEF MFault, MigrateTypeOK

LEMMA EndMigrateTyped ==
    ASSUME EndMigrate, MigrateTypeOK
    PROVE  /\ mgpc' = "idle" /\ mstep' \in [MSpecs -> MSteps] /\ anyMigrated' = FALSE
           /\ keysTodo' = {} /\ keyNow' = {}
           /\ file' \in [MSpecs -> Files] /\ listing' \subseteq MSpecs /\ haveListing' \in BOOLEAN
           /\ shared' = shared /\ \A h \in MSpecs : mstep'[h] = "done"
           /\ ~shared => \A h \in MSpecs : file'[h] = "none"
<1>1. CASE shared
  BY <1>1 DEF EndMigrate, MigrateTypeOK, workdir, MSteps
<1>2. CASE ~shared
  BY <1>2 DEF EndMigrate, MigrateTypeOK, MSteps, Files
<1> QED
  BY <1>1, <1>2

LEMMA MigrateInitTyped == MigrateInit => MigrateTypeOK
<1> SUFFICES ASSUME MigrateInit PROVE MigrateTypeOK
  OBVIOUS
<1>1. file \in [MSpecs -> Files] /\ mstep \in [MSpecs -> MSteps]
  BY DEF MigrateInit, Files, MSteps
<1>2. mfaults \in 0 .. MaxMFaults
  BY MigrateAssumption DEF MigrateInit
<1> QED
  BY <1>1, <1>2 DEF MigrateInit, MigrateTypeOK

LEMMA MigrateSpecTyped ==
    ASSUME NEW h \in MSpecs, MigrateSpec(h), MigrateTypeOK
    PROVE  MigrateTypeOK'
<1> USE DEF MigrateTypeOK, Go, Save, RestSame, keyObjects, keyRun, MSteps, Files
<1>1. CASE FetchMeta(h)
  BY <1>1 DEF FetchMeta
<1>2. CASE VerifyMeta(h)
  BY <1>2 DEF VerifyMeta, Left
<1>3. CASE RewriteMeta(h)
  BY <1>3 DEF RewriteMeta
<1>4. CASE MigrateArchive(h)
  BY <1>4 DEF MigrateArchive
<1>5. CASE UploadMeta(h)
  BY <1>5 DEF UploadMeta
<1>6. CASE UploadManifest(h)
  BY <1>6 DEF UploadManifest
<1> QED
  BY <1>1, <1>2, <1>3, <1>4, <1>5, <1>6 DEF MigrateSpec

LEMMA MigrateNextTyped == MigrateTypeOK /\ [MigrateNext]_mVars => MigrateTypeOK'
<1> SUFFICES ASSUME MigrateTypeOK, [MigrateNext]_mVars PROVE MigrateTypeOK'
  OBVIOUS
<1> USE DEF specObjects, keyObjects, newLayout, keyRun
<1>1. CASE StartMigrate
  <2>1. mstep' \in [MSpecs -> MSteps]
    BY <1>1 DEF StartMigrate, MSteps
  <2> QED
    BY <1>1, <2>1, MigrateAssumption DEF StartMigrate, MigrateTypeOK
<1>2. CASE JoinMigrate
  <2>1. CASE EndMigrate
    BY <1>2, <2>1, EndMigrateTyped DEF JoinMigrate, MigrateTypeOK
  <2>2. CASE ~EndMigrate
    BY <1>2, <2>2 DEF JoinMigrate, MigrateTypeOK, workdir
  <2> QED
    BY <2>1, <2>2
<1>3. CASE KeysDone
  BY <1>3 DEF KeysDone, KeysSame, MigrateTypeOK, workdir
<1>4. CASE IndexMigrated
  BY <1>4, EndMigrateTyped, MFaultTyped DEF IndexMigrated, MigrateTypeOK
<1>5. ASSUME NEW k \in MKeys, PushKey(k) \/ PushKeyManifest(k) PROVE MigrateTypeOK'
  BY <1>5 DEF PushKey, PushKeyManifest, KeysSame, MigrateTypeOK, workdir
<1>6. CASE MigrateDies
  BY <1>6, EndMigrateTyped, MFaultTyped DEF MigrateDies, MigrateTypeOK
<1>7. ASSUME NEW h \in MSpecs, TransferFails(h) PROVE MigrateTypeOK'
  BY <1>7, MFaultTyped DEF TransferFails, AfterFailure, Go, Save, MigrateTypeOK, MSteps, Files
<1>8. ASSUME NEW k \in MKeys, KeyFails(k) PROVE MigrateTypeOK'
  BY <1>8, MFaultTyped DEF KeyFails, KeysSame, MigrateTypeOK, workdir
<1>9. CASE UNCHANGED mVars
  BY <1>9 DEF mVars, workdir, MigrateTypeOK
<1> QED
  BY <1>1, <1>2, <1>3, <1>4, <1>5, <1>6, <1>7, <1>8, <1>9, MigrateSpecTyped
  DEF MigrateNext, MigrateStep

(***************************************************************************)
(* The inductive invariant.                                                *)
(***************************************************************************)
LEMMA MigrateInitInv == MigrateInit => MigrateInv
<1> SUFFICES ASSUME MigrateInit PROVE MigrateInv
  OBVIOUS
<1>1. \A h \in MSpecs : mstep[h] = "done" /\ file[h] = "none"
  BY DEF MigrateInit
<1> QED
  BY <1>1, MigrateInitTyped DEF MigrateInit, MigrateInv, WorkerInv, MigratedWhole

(* A step of no task: objects are only added, tasks end or are queued.     *)
LEMMA NoTaskInv ==
    ASSUME MigrateInv, MigrateTypeOK', UNCHANGED <<archives, metas, manifests, keyManifests, shared>>,
           keyBlobs \subseteq keyBlobs', keyNow' \subseteq keyBlobs',
           \A h \in MSpecs : WorkerInv(h)'
    PROVE  MigrateInv'
BY DEF MigrateInv, MigratedWhole

LEMMA WorkersStay ==
    ASSUME MigrateInv, UNCHANGED <<archives, metas, shared, file, mstep>>, mgpc # "idle", mgpc' # "idle"
    PROVE  \A h \in MSpecs : WorkerInv(h)'
BY DEF MigrateInv, WorkerInv

LEMMA EndMigrateInv ==
    ASSUME MigrateInv, MigrateTypeOK', EndMigrate,
           UNCHANGED <<archives, metas, manifests, keyObjects>>
    PROVE  MigrateInv'
<1>1. \A h \in MSpecs : WorkerInv(h)'
  BY EndMigrateTyped DEF MigrateInv, WorkerInv
<1> QED
  BY <1>1, NoTaskInv, EndMigrateTyped DEF MigrateInv, keyObjects

LEMMA MigrateSpecInv ==
    ASSUME NEW h \in MSpecs, MigrateSpec(h), MigrateInv
    PROVE  MigrateInv'
<1>1. MigrateTypeOK'
  BY MigrateSpecTyped DEF MigrateInv
<1>2. UNCHANGED <<keyObjects, keyRun>>
  BY DEF MigrateSpec, FetchMeta, VerifyMeta, RewriteMeta, MigrateArchive, UploadMeta,
         UploadManifest, RestSame
<1>2a. UNCHANGED <<shared, mgpc>> /\ mgpc = "work"
  BY DEF MigrateSpec, FetchMeta, VerifyMeta, RewriteMeta, MigrateArchive, UploadMeta,
         UploadManifest, RestSame, AtM
<1>3. ASSUME NEW g \in MSpecs, g # h PROVE WorkerInv(g)'
  <2>1. mstep'[g] = mstep[g] /\ file'[g] = file[g]
    BY <1>3 DEF MigrateSpec, FetchMeta, VerifyMeta, RewriteMeta, MigrateArchive, UploadMeta,
           UploadManifest, Go, Save, MigrateInv, MigrateTypeOK
  <2>2. archives \subseteq archives' /\ metas \subseteq metas'
    BY DEF MigrateSpec, FetchMeta, VerifyMeta, RewriteMeta, MigrateArchive, UploadMeta, UploadManifest
  <2>3. WorkerInv(g)
    BY DEF MigrateInv
  <2> QED
    BY <1>2a, <2>1, <2>2, <2>3 DEF WorkerInv
<1>4. WorkerInv(h) /\ h \in DOMAIN mstep /\ h \in DOMAIN file
  BY DEF MigrateInv, MigrateTypeOK
<1>5. WorkerInv(h)'
  <2> USE <1>2a, <1>4 DEF Go, Save, WorkerInv, AtM
  <2>1. CASE FetchMeta(h)
    BY <2>1 DEF FetchMeta
  <2>2. CASE VerifyMeta(h)
    BY <2>2 DEF VerifyMeta, Verified, Left
  <2>3. CASE RewriteMeta(h)
    BY <2>3 DEF RewriteMeta
  <2>4. CASE MigrateArchive(h)
    BY <2>4 DEF MigrateArchive
  <2>5. CASE UploadMeta(h)
    BY <2>5 DEF UploadMeta
  <2>6. CASE UploadManifest(h)
    BY <2>6 DEF UploadManifest
  <2> QED
    BY <2>1, <2>2, <2>3, <2>4, <2>5, <2>6 DEF MigrateSpec
<1>6. MigratedWhole'
  <2>1. archives \subseteq archives' /\ metas \subseteq metas'
    BY DEF MigrateSpec, FetchMeta, VerifyMeta, RewriteMeta, MigrateArchive, UploadMeta, UploadManifest
  <2>2. manifests' \subseteq manifests \union {h}
    BY DEF MigrateSpec, FetchMeta, VerifyMeta, RewriteMeta, MigrateArchive, UploadMeta, UploadManifest
  <2>3. CASE UploadManifest(h)
    <3>1. h \in archives /\ h \in metas /\ (h \in Signed \/ shared)
      BY <1>4, <2>3 DEF UploadManifest, AtM, WorkerInv
    <3> QED
      BY <1>2, <1>2a, <2>1, <2>2, <3>1 DEF MigrateInv, MigratedWhole, keyObjects
  <2>4. CASE ~UploadManifest(h)
    <3>1. manifests' = manifests
      BY <2>4 DEF MigrateSpec, FetchMeta, VerifyMeta, RewriteMeta, MigrateArchive, UploadMeta
    <3> QED
      BY <1>2, <1>2a, <2>1, <3>1 DEF MigrateInv, MigratedWhole, keyObjects
  <2> QED
    BY <2>3, <2>4
<1> QED
  BY <1>1, <1>2, <1>3, <1>5, <1>6 DEF MigrateInv, keyObjects, keyRun

LEMMA MigrateNextInv == MigrateInv /\ [MigrateNext]_mVars => MigrateInv'
<1> SUFFICES ASSUME MigrateInv, [MigrateNext]_mVars PROVE MigrateInv'
  OBVIOUS
<1>1. MigrateTypeOK /\ MigrateTypeOK' /\ keyNow \subseteq keyBlobs
  BY MigrateNextTyped DEF MigrateInv
<1> USE DEF specObjects, keyObjects, newLayout, keyRun
<1>2. CASE StartMigrate
  <2>1. \A h \in MSpecs : mstep'[h] = "queued" /\ file'[h] = file[h]
    BY <1>2 DEF StartMigrate
  <2>2. \A h \in MSpecs : WorkerInv(h)'
    BY <1>2, <2>1 DEF StartMigrate, MigrateInv, WorkerInv
  <2> QED
    BY <1>1, <1>2, <2>2, NoTaskInv DEF StartMigrate
<1>3. CASE EndMigrate /\ UNCHANGED <<archives, metas, manifests, keyObjects>>
  BY <1>1, <1>3, EndMigrateInv
<1>4. CASE JoinMigrate /\ ~EndMigrate
  BY <1>1, <1>4, WorkersStay, NoTaskInv DEF JoinMigrate, workdir
<1>5. CASE KeysDone
  BY <1>1, <1>5, WorkersStay, NoTaskInv DEF KeysDone, KeysSame, workdir
<1>6. ASSUME NEW k \in MKeys, PushKey(k) PROVE MigrateInv'
  BY <1>1, <1>6, WorkersStay, NoTaskInv DEF PushKey, KeysSame, workdir
<1>7. ASSUME NEW k \in MKeys, PushKeyManifest(k) PROVE MigrateInv'
  <2>1. \A h \in MSpecs : WorkerInv(h)'
    BY <1>7, WorkersStay DEF PushKeyManifest, KeysSame, workdir
  <2> QED
    BY <1>1, <1>7, <2>1 DEF PushKeyManifest, KeysSame, workdir, MigrateInv, MigratedWhole
<1>8. ASSUME NEW k \in MKeys, KeyFails(k) PROVE MigrateInv'
  BY <1>1, <1>8, WorkersStay, NoTaskInv DEF KeyFails, KeysSame, workdir
<1>9. ASSUME NEW h \in MSpecs, TransferFails(h) PROVE MigrateInv'
  <2>1. \A g \in MSpecs : /\ mstep'[g] \in {mstep[g], "done"}
                          /\ file'[g] = file[g] \/ (file'[g] = "part" /\ mstep'[g] = "done")
    BY <1>1, <1>9 DEF TransferFails, AfterFailure, Go, Save, MigrateTypeOK
  <2>2. \A g \in MSpecs : WorkerInv(g)'
    BY <1>9, <2>1 DEF TransferFails, MigrateInv, WorkerInv
  <2> QED
    BY <1>1, <1>9, <2>2, NoTaskInv DEF TransferFails
<1>10. CASE UNCHANGED mVars
  <2>1. \A h \in MSpecs : WorkerInv(h)'
    BY <1>10 DEF mVars, workdir, MigrateInv, WorkerInv
  <2> QED
    BY <1>1, <1>10, <2>1, NoTaskInv DEF mVars
<1> QED
  BY <1>2, <1>3, <1>4, <1>5, <1>6, <1>7, <1>8, <1>9, <1>10, MigrateSpecInv
  DEF MigrateNext, MigrateStep, JoinMigrate, IndexMigrated, MigrateDies

(* What a worker has verified and uploaded when it gets to the manifest.   *)
THEOREM MigrateInvariance == Migration => []MigrateInv
BY MigrateInitInv, MigrateNextInv, PTL DEF Migration

(* Objects are of specs of the mirror, and a worker is at a step.          *)
THEOREM MigrateTypeCorrect == Migration => []MigrateTypeOK
BY MigrateInvariance, PTL DEF MigrateInv

(* A reader of the new layout finds what a manifest names, wherever        *)
(* threads and runs stop; and only specs whose old signature was good,     *)
(* unless runs share a working directory.                                  *)
THEOREM Whole == Migration => []MigratedWhole
BY MigrateInvariance, PTL DEF MigrateInv

-----------------------------------------------------------------------------
(***************************************************************************)
(* PublishRefs.                                                            *)
(***************************************************************************)
(* The objects of a stack: metadata follows an archive; only what CI       *)
(* builds again is ever replaced by another build.                         *)
PlaceInv(w) ==
    /\ stackMeta[w].build <= stackArchive[w]
    /\ w \notin Rebuilt => stackArchive[w] <= 1

(* What a thread has done for its hash, which the top did not have.        *)
Signs(w)     == w \notin Rebuilt => stackMeta[w].signed
TaskAt(r, h) ==
    LET w == <<r, from[h], h>>  t == <<r, h>>
    IN  tasks[h] # "none" =>
           /\ w \in Specs /\ stackArchive[w] # 0 /\ stackMeta[w].build # 0
           /\ topMeta[t].build = 0
           /\ tasks[h] \in {"verified", "archived"} => Signs(w)
           /\ tasks[h] = "archived" =>
                 /\ topArchive[t].build # 0 /\ topArchive[t].stack = from[h]
                 /\ w \notin Rebuilt => topArchive[t].build = stackMeta[w].build
TaskInv == \A r \in ref, h \in PHashes : TaskAt(r, h)

TopAt(t) == topMeta[t].build # 0 =>
    /\ topArchive[t].build # 0 /\ topArchive[t].stack = topMeta[t].stack
    /\ <<t[1], topMeta[t].stack, t[2]>> \notin Rebuilt =>
          topMeta[t].signed /\ topMeta[t].build = topArchive[t].build

RefsInv ==
    /\ RefsTypeOK
    /\ \A w \in Specs : PlaceInv(w)
    /\ TaskInv
    /\ TopDescribesArchive

LEMMA TopsDescribed == TopDescribesArchive <=> \A t \in Tops : TopAt(t)
BY DEF TopDescribesArchive, TopAt

LEMMA RefFaultTyped == RefFault /\ RefsTypeOK => refFaults' \in 0 .. MaxRefFaults
BY RefsAssumption DEF RefFault, RefsTypeOK

LEMMA EndRefsTyped ==
    EndRefs => /\ refpc' = "idle" /\ refsTodo' = {} /\ ref' = {}
               /\ tasks' \in [PHashes -> TaskSteps] /\ from' \in [PHashes -> RefStacks \union {0}]
BY DEF EndRefs, NoTasks, NoStack, TaskSteps

(***************************************************************************)
(* Type correctness.                                                       *)
(***************************************************************************)
LEMMA RefsInitTyped == RefsInit => RefsTypeOK
<1> SUFFICES ASSUME RefsInit PROVE RefsTypeOK
  OBVIOUS
<1>1. tasks \in [PHashes -> TaskSteps] /\ from \in [PHashes -> RefStacks \union {0}]
  BY DEF RefsInit, NoTasks, NoStack, TaskSteps
<1>2. refFaults \in 0 .. MaxRefFaults /\ 0 \in Builds
  BY RefsAssumption DEF RefsInit, Builds
<1>3. stackArchive \in [Specs -> Builds] /\ stackMeta \in [Specs -> Metas]
  BY <1>2 DEF RefsInit, Metas
<1>4. topArchive \in [Tops -> TopObjects] /\ topMeta \in [Tops -> TopMetas]
  BY <1>2 DEF RefsInit, TopObjects, TopMetas
<1> QED
  BY <1>1, <1>2, <1>3, <1>4 DEF RefsInit, RefsTypeOK

LEMMA CIRefsTyped == CIRefs /\ RefsTypeOK => RefsTypeOK' /\ RefRunSame
<1> SUFFICES ASSUME CIRefs, RefsTypeOK PROVE RefsTypeOK' /\ RefRunSame
  OBVIOUS
<1>1. ASSUME NEW r \in GitRefs, RefActive(r) \/ RefQuiet(r) PROVE RefsTypeOK' /\ RefRunSame
  BY <1>1 DEF RefActive, RefQuiet, RefRunSame, RefsTypeOK
<1>2. ASSUME NEW w \in Built, UploadArchive(w) PROVE RefsTypeOK' /\ RefRunSame
  <2>1. w \in Specs /\ stackArchive[w] + 1 \in Builds
    BY <1>2, RefsAssumption DEF UploadArchive, RefsTypeOK, Builds
  <2> QED
    BY <1>2, <2>1 DEF UploadArchive, RefRunSame, RefsTypeOK
<1>3. ASSUME NEW w \in Built, UploadMetadata(w) \/ SignMetadata(w) PROVE RefsTypeOK' /\ RefRunSame
  <2>1. w \in Specs /\ stackArchive[w] \in Builds /\ stackMeta[w] \in Metas
    BY RefsAssumption DEF RefsTypeOK
  <2>2. PICK m \in Metas : stackMeta' = [stackMeta EXCEPT ![w] = m]
    BY <1>3, <2>1 DEF UploadMetadata, SignMetadata, Metas
  <2> QED
    BY <1>3, <2>1, <2>2 DEF UploadMetadata, SignMetadata, RefRunSame, RefsTypeOK
<1> QED
  BY <1>1, <1>2, <1>3 DEF CIRefs

LEMMA TaskTyped ==
    ASSUME RefsTypeOK, TaskInv, NEW h \in PHashes,
           VerifySpec(h) \/ CopyFirst(h) \/ CopySecond(h) \/ TaskFails2(h)
    PROVE  RefsTypeOK'
<1>1. PICK s \in TaskSteps : SetTask(h, s)
  BY DEF VerifySpec, CopyFirst, CopySecond, TaskFails2, AfterFailedCopy, TaskSteps
<1>2. tasks' \in [PHashes -> TaskSteps]
  BY <1>1 DEF SetTask, RefsTypeOK
<1>3. topArchive' \in [Tops -> TopObjects]
  <2>1. CASE CopyFirst(h)
    <3>1. PICK r \in ref : topArchive' = [topArchive EXCEPT ![<<r, h>>] =
                            [stack |-> from[h], build |-> stackArchive[<<r, from[h], h>>]]]
      BY <2>1 DEF CopyFirst
    <3>2. <<r, from[h], h>> \in Specs
      BY <2>1 DEF CopyFirst, AtTask, TaskInv, TaskAt
    <3>3. [stack |-> from[h], build |-> stackArchive[<<r, from[h], h>>]] \in TopObjects
      BY <3>2 DEF RefsTypeOK, TopObjects
    <3> QED
      BY <3>1, <3>3 DEF RefsTypeOK
  <2> QED
    BY <2>1 DEF VerifySpec, CopySecond, TaskFails2, RefsTypeOK
<1>4. topMeta' \in [Tops -> TopMetas]
  <2>1. CASE CopySecond(h)
    <3>1. PICK r \in ref : topMeta' = [topMeta EXCEPT ![<<r, h>>] =
                            [stack |-> from[h], build |-> stackMeta[<<r, from[h], h>>].build,
                             signed |-> stackMeta[<<r, from[h], h>>].signed]]
      BY <2>1 DEF CopySecond
    <3>2. <<r, from[h], h>> \in Specs
      BY <2>1 DEF CopySecond, AtTask, TaskInv, TaskAt
    <3>3. stackMeta[<<r, from[h], h>>] \in Metas /\ from[h] \in RefStacks \union {0}
      BY <3>2 DEF RefsTypeOK
    <3> QED
      BY <3>1, <3>3 DEF RefsTypeOK, Metas, TopMetas
  <2> QED
    BY <2>1 DEF VerifySpec, CopyFirst, TaskFails2, RefsTypeOK
<1>5. refFaults' \in 0 .. MaxRefFaults
  BY RefFaultTyped DEF VerifySpec, CopyFirst, CopySecond, TaskFails2, RefsTypeOK
<1> QED
  BY <1>1, <1>2, <1>3, <1>4, <1>5 DEF SetTask, stackObjects, RefsTypeOK

LEMMA RefsNextTyped == RefsTypeOK /\ TaskInv /\ [RefsNext]_refVars => RefsTypeOK'
<1> SUFFICES ASSUME RefsTypeOK, TaskInv, [RefsNext]_refVars PROVE RefsTypeOK'
  OBVIOUS
<1> USE DEF refMirrors, stackObjects
<1>1. CASE FindRefs
  BY <1>1 DEF FindRefs, RefsToPublish, RefsTypeOK
<1>2. CASE JoinTasks
  BY <1>2 DEF JoinTasks, NoStack, RefsTypeOK
<1>3. CASE IndexRef
  BY <1>3 DEF IndexRef, RefsTypeOK
<1>4. CASE FinishRefs \/ RefsDie
  BY <1>4, EndRefsTyped, RefFaultTyped DEF FinishRefs, RefsDie, RefsTypeOK
<1>5. ASSUME NEW r \in Protected, StartRef(r) PROVE RefsTypeOK'
  <2>1. tasks' \in [PHashes -> TaskSteps] /\ from' \in [PHashes -> RefStacks \union {0}]
    BY <1>5 DEF StartRef, RefsTypeOK, TaskSteps
  <2> QED
    BY <1>5, <2>1 DEF StartRef, RefsTypeOK
<1>6. CASE RefRaises
  <2>1. tasks' \in [PHashes -> TaskSteps] /\ from' \in [PHashes -> RefStacks \union {0}]
    BY <1>6 DEF RefRaises, NoTasks, NoStack, TaskSteps
  <2> QED
    BY <1>6, <2>1, RefFaultTyped DEF RefRaises, TodoAfterError, RefsTypeOK
<1>7. CASE UNCHANGED refVars
  BY <1>7 DEF refVars, RefsTypeOK
<1> QED
  BY <1>1, <1>2, <1>3, <1>4, <1>5, <1>6, <1>7, CIRefsTyped, TaskTyped DEF RefsNext, RefsStep

(***************************************************************************)
(* The inductive invariant.                                                *)
(***************************************************************************)
LEMMA RefsInitInv == RefsInit => RefsInv
<1> SUFFICES ASSUME RefsInit PROVE RefsInv
  OBVIOUS
<1>1. \A w \in Specs : stackArchive[w] = 0 /\ stackMeta[w].build = 0
  BY DEF RefsInit
<1>2. ref = {} /\ \A t \in Tops : topMeta[t].build = 0
  BY DEF RefsInit
<1> QED
  BY <1>1, <1>2, RefsInitTyped DEF RefsInv, PlaceInv, TaskInv, TopDescribesArchive

(* The environment: CI never replaces what it does not build again, and it *)
(* takes no object and no signature away from a task.                      *)
LEMMA CIPlaces ==
    ASSUME RefsInv, CIRefs, NEW w \in Specs
    PROVE  /\ PlaceInv(w)'
           /\ stackArchive[w] # 0 => stackArchive'[w] # 0
           /\ stackMeta[w].build # 0 => stackMeta'[w].build # 0
           /\ w \notin Rebuilt /\ stackMeta[w].build # 0 =>
                 /\ stackMeta'[w].build = stackMeta[w].build
                 /\ stackMeta[w].signed => stackMeta'[w].signed
<1>1. PlaceInv(w) /\ stackArchive[w] \in Nat /\ stackMeta[w] \in Metas /\ stackMeta[w].build \in Nat
  BY DEF RefsInv, RefsTypeOK, Builds, Metas
<1>2. ASSUME NEW r \in GitRefs, RefActive(r) \/ RefQuiet(r)
      PROVE  stackArchive'[w] = stackArchive[w] /\ stackMeta'[w] = stackMeta[w]
  BY <1>2 DEF RefActive, RefQuiet
<1>3. ASSUME NEW v \in Built, UploadArchive(v)
      PROVE  /\ stackMeta'[w] = stackMeta[w]
             /\ stackArchive'[w] = IF v = w THEN stackArchive[w] + 1 ELSE stackArchive[w]
             /\ v = w /\ w \notin Rebuilt => stackArchive[w] < 1
  BY <1>3 DEF UploadArchive, RefsInv, RefsTypeOK
<1>4. ASSUME NEW v \in Built, UploadMetadata(v)
      PROVE  /\ stackArchive'[w] = stackArchive[w]
             /\ IF v = w THEN /\ stackMeta'[w].build = stackArchive[w]
                              /\ stackMeta[w].build < stackArchive[w]
                ELSE stackMeta'[w] = stackMeta[w]
  BY <1>4 DEF UploadMetadata, RefsInv, RefsTypeOK
<1>5. ASSUME NEW v \in Built, SignMetadata(v)
      PROVE  /\ stackArchive'[w] = stackArchive[w]
             /\ stackMeta'[w].build = stackMeta[w].build
             /\ stackMeta[w].signed => stackMeta'[w].signed
  BY <1>5 DEF SignMetadata, RefsInv, RefsTypeOK
<1> QED
  BY <1>1, <1>2, <1>3, <1>4, <1>5 DEF CIRefs, PlaceInv

LEMMA CIRefsInv == RefsInv /\ CIRefs => RefsInv'
<1> SUFFICES ASSUME RefsInv, CIRefs PROVE RefsInv'
  OBVIOUS
<1>1. RefsTypeOK' /\ RefRunSame
  BY CIRefsTyped DEF RefsInv
<1>2. TaskInv'
  <2> SUFFICES ASSUME NEW r \in ref, NEW h \in PHashes PROVE TaskAt(r, h)'
    BY <1>1 DEF TaskInv, RefRunSame
  <2>1. TaskAt(r, h)
    BY DEF RefsInv, TaskInv
  <2> QED
    BY <1>1, <2>1, CIPlaces DEF TaskAt, Signs, RefRunSame
<1>3. TopDescribesArchive'
  BY <1>1 DEF RefsInv, TopDescribesArchive, RefRunSame
<1> QED
  BY <1>1, <1>2, <1>3, CIPlaces DEF RefsInv

(* A step that leaves the mirrors alone.                                   *)
LEMMA MirrorsSame ==
    ASSUME RefsInv, RefsTypeOK', TaskInv', UNCHANGED <<stackMeta, stackArchive, topMeta, topArchive>>
    PROVE  RefsInv'
BY DEF RefsInv, PlaceInv, TopDescribesArchive

LEMMA TaskStepInv ==
    ASSUME RefsInv, NEW h \in PHashes,
           VerifySpec(h) \/ CopyFirst(h) \/ CopySecond(h) \/ TaskFails2(h)
    PROVE  RefsInv'
<1>1. RefsTypeOK' /\ RefsTypeOK
  BY TaskTyped DEF RefsInv
<1>2. UNCHANGED <<stackMeta, stackArchive, ref, from>>
  BY DEF VerifySpec, CopyFirst, CopySecond, TaskFails2, SetTask, stackObjects
<1>3. \A g \in PHashes : g # h => tasks'[g] = tasks[g]
  BY <1>1 DEF VerifySpec, CopyFirst, CopySecond, TaskFails2, SetTask, RefsTypeOK
<1>4. ASSUME NEW r \in ref, NEW g \in PHashes, g # h,
             topArchive'[<<r, g>>] = topArchive[<<r, g>>], topMeta'[<<r, g>>] = topMeta[<<r, g>>]
      PROVE  TaskAt(r, g)'
  BY <1>2, <1>3, <1>4 DEF RefsInv, TaskInv, TaskAt, Signs
<1>5. CASE UNCHANGED <<topMeta, topArchive>> /\ tasks'[h] = "none"
  <2>1. TaskInv'
    BY <1>2, <1>4, <1>5 DEF TaskInv, TaskAt
  <2> QED
    BY <1>1, <1>2, <1>5, <2>1, MirrorsSame
<1>6. CASE VerifySpec(h) /\ tasks'[h] # "none"
  <2>1. PICK r \in ref : SetTask(h, IF stackMeta[<<r, from[h], h>>].signed THEN "verified" ELSE "none")
    BY <1>6 DEF VerifySpec
  <2>2. ref = {r} /\ tasks'[h] = "verified" /\ stackMeta[<<r, from[h], h>>].signed
    BY <1>1, <1>6, <2>1 DEF RefsTypeOK, SetTask
  <2>3. UNCHANGED <<topMeta, topArchive>> /\ tasks[h] = "queued"
    BY <1>6 DEF VerifySpec, AtTask
  <2>4. TaskAt(r, h)'
    BY <1>2, <2>2, <2>3 DEF RefsInv, TaskInv, TaskAt, Signs
  <2>5. TaskInv'
    BY <1>2, <1>4, <2>2, <2>3, <2>4 DEF TaskInv
  <2> QED
    BY <1>1, <1>2, <2>3, <2>5, MirrorsSame
<1>7. CASE CopyFirst(h)
  <2>1. PICK r \in ref : topArchive' = [topArchive EXCEPT ![<<r, h>>] =
                            [stack |-> from[h], build |-> stackArchive[<<r, from[h], h>>]]]
    BY <1>7 DEF CopyFirst
  <2> DEFINE w == <<r, from[h], h>>  t == <<r, h>>
  <2>2. ref = {r} /\ t \in Tops /\ tasks[h] = "verified" /\ tasks'[h] = "archived" /\ topMeta' = topMeta
    BY <1>1, <1>7, <2>1 DEF CopyFirst, AtTask, SetTask, RefsTypeOK, Tops
  <2>3. TaskAt(r, h)
    BY DEF RefsInv, TaskInv
  <2>4. w \in Specs /\ stackArchive[w] # 0 /\ stackMeta[w].build # 0 /\ topMeta[t].build = 0 /\ Signs(w)
    BY <2>2, <2>3 DEF TaskAt
  <2>5. topArchive'[t].build = stackArchive[w] /\ topArchive'[t].stack = from[h]
    BY <1>1, <2>1, <2>2 DEF RefsTypeOK
  <2>6. w \notin Rebuilt => stackMeta[w].build = stackArchive[w]
    <3>1. PlaceInv(w) /\ stackArchive[w] \in Nat /\ stackMeta[w].build \in Nat
      BY <1>1, <2>4 DEF RefsInv, RefsTypeOK, Builds, Metas
    <3> QED
      BY <2>4, <3>1 DEF PlaceInv
  <2>7. TaskAt(r, h)'
    BY <1>2, <2>2, <2>4, <2>5, <2>6 DEF TaskAt, Signs
  <2>8. \A u \in Tops : u # t => topArchive'[u] = topArchive[u]
    BY <1>1, <2>1 DEF RefsTypeOK
  <2>9. TaskInv'
    <3>1. ASSUME NEW g \in PHashes, g # h PROVE TaskAt(r, g)'
      <4>1. <<r, g>> \in Tops /\ <<r, g>> # t
        BY <1>1, <3>1 DEF RefsTypeOK, Tops
      <4> QED
        BY <1>4, <2>2, <2>8, <3>1, <4>1
    <3> QED
      BY <1>2, <2>2, <2>7, <3>1 DEF TaskInv
  <2>10. TopDescribesArchive'
    <3>1. ASSUME NEW u \in Tops PROVE TopAt(u)'
      BY <2>2, <2>4, <2>8, <3>1, TopsDescribed DEF RefsInv, TopAt
    <3> QED
      BY <3>1 DEF TopDescribesArchive, TopAt
  <2> QED
    BY <1>1, <1>2, <2>9, <2>10 DEF RefsInv, PlaceInv
<1>8. CASE CopySecond(h)
  <2>1. PICK r \in ref : topMeta' = [topMeta EXCEPT ![<<r, h>>] =
                            [stack |-> from[h], build |-> stackMeta[<<r, from[h], h>>].build,
                             signed |-> stackMeta[<<r, from[h], h>>].signed]]
    BY <1>8 DEF CopySecond
  <2> DEFINE w == <<r, from[h], h>>  t == <<r, h>>
  <2>2. /\ ref = {r} /\ t \in Tops /\ tasks[h] = "archived" /\ tasks'[h] = "none"
        /\ topArchive' = topArchive
    BY <1>1, <1>8, <2>1 DEF CopySecond, AtTask, SetTask, RefsTypeOK, Tops
  <2>3. TaskAt(r, h)
    BY DEF RefsInv, TaskInv
  <2>4. /\ Signs(w) /\ topArchive[t].build # 0 /\ topArchive[t].stack = from[h]
        /\ w \notin Rebuilt => topArchive[t].build = stackMeta[w].build
    BY <2>2, <2>3 DEF TaskAt
  <2>5. /\ topMeta'[t].build = stackMeta[w].build /\ topMeta'[t].stack = from[h]
        /\ topMeta'[t].signed = stackMeta[w].signed
    BY <1>1, <2>1, <2>2 DEF RefsTypeOK
  <2>6. TopAt(t)'
    BY <2>2, <2>4, <2>5 DEF TopAt, Signs
  <2>7. \A u \in Tops : u # t => topMeta'[u] = topMeta[u]
    BY <1>1, <2>1 DEF RefsTypeOK
  <2>8. TaskInv'
    <3>1. ASSUME NEW g \in PHashes, g # h PROVE TaskAt(r, g)'
      <4>1. <<r, g>> \in Tops /\ <<r, g>> # t
        BY <1>1, <3>1 DEF RefsTypeOK, Tops
      <4> QED
        BY <1>4, <2>2, <2>7, <3>1, <4>1
    <3>2. TaskAt(r, h)'
      BY <2>2 DEF TaskAt
    <3> QED
      BY <1>2, <2>2, <3>1, <3>2 DEF TaskInv
  <2>9. TopDescribesArchive'
    <3>1. ASSUME NEW u \in Tops, u # t PROVE TopAt(u)'
      BY <2>2, <2>7, <3>1, TopsDescribed DEF RefsInv, TopAt
    <3> QED
      BY <2>6, <3>1 DEF TopDescribesArchive, TopAt
  <2> QED
    BY <1>1, <1>2, <2>8, <2>9 DEF RefsInv, PlaceInv
<1>9. TaskFails2(h) => UNCHANGED <<topMeta, topArchive>> /\ tasks'[h] = "none"
  BY <1>1 DEF TaskFails2, AfterFailedCopy, SetTask, RefsTypeOK
<1>10. VerifySpec(h) => UNCHANGED <<topMeta, topArchive>>
  BY DEF VerifySpec
<1> QED
  BY <1>5, <1>6, <1>7, <1>8, <1>9, <1>10

LEMMA RefsNextInv == RefsInv /\ [RefsNext]_refVars => RefsInv'
<1> SUFFICES ASSUME RefsInv, [RefsNext]_refVars PROVE RefsInv'
  OBVIOUS
<1>1. RefsTypeOK'
  BY RefsNextTyped DEF RefsInv
<1> USE DEF refMirrors, stackObjects
<1>2. CASE FindRefs \/ UNCHANGED refVars
  <2>1. TaskInv'
    BY <1>2 DEF FindRefs, refVars, RefsInv, TaskInv, TaskAt, Signs
  <2> QED
    BY <1>1, <1>2, <2>1, MirrorsSame DEF FindRefs, refVars
<1>3. CASE JoinTasks
  <2>1. \A h \in PHashes : tasks'[h] = "none"
    BY <1>3 DEF JoinTasks, NoTasks
  <2>2. TaskInv'
    BY <2>1 DEF TaskInv, TaskAt
  <2> QED
    BY <1>1, <1>3, <2>2, MirrorsSame DEF JoinTasks
<1>4. CASE IndexRef \/ FinishRefs \/ RefsDie \/ RefRaises
  <2>1. ref' = {} /\ UNCHANGED <<stackMeta, stackArchive, topMeta, topArchive>>
    BY <1>4 DEF IndexRef, FinishRefs, RefsDie, RefRaises, EndRefs
  <2>2. TaskInv'
    BY <2>1 DEF TaskInv
  <2> QED
    BY <1>1, <2>1, <2>2, MirrorsSame
<1>5. ASSUME NEW r \in Protected, StartRef(r) PROVE RefsInv'
  <2>1. UNCHANGED <<stackMeta, stackArchive, topMeta, topArchive>>
    BY <1>5 DEF StartRef
  <2>2. CASE UNCHANGED <<ref, tasks, from>>
    <3>1. TaskInv'
      BY <2>1, <2>2 DEF RefsInv, TaskInv, TaskAt, Signs
    <3> QED
      BY <1>1, <2>1, <3>1, MirrorsSame
  <2>3. CASE ~UNCHANGED <<ref, tasks, from>>
    <3>1. /\ ref' = {r}
          /\ tasks' = [h \in PHashes |->
                           IF h \in Complete(r) \ Present(r) THEN "queued" ELSE "none"]
          /\ \A h \in PHashes : h \in Complete(r) \ Present(r) => IsFirst(r, h, from'[h])
      BY <1>5, <2>3 DEF StartRef
    <3>2. ASSUME NEW h \in PHashes, tasks'[h] # "none" PROVE TaskAt(r, h)'
      <4>1. h \notin Present(r) /\ from'[h] \in Viable(r, h) /\ tasks'[h] = "queued"
        BY <3>1, <3>2 DEF IsFirst
      <4>2. <<r, from'[h], h>> \in Specs
        BY <4>1 DEF Viable, Specs
      <4> QED
        BY <2>1, <4>1, <4>2 DEF TaskAt, Present, Viable
    <3>3. TaskInv'
      BY <3>1, <3>2 DEF TaskInv, TaskAt
    <3> QED
      BY <1>1, <2>1, <3>3, MirrorsSame
  <2> QED
    BY <2>2, <2>3
<1> QED
  BY <1>2, <1>3, <1>4, <1>5, CIRefsInv, TaskStepInv DEF RefsNext, RefsStep

(* What a thread has verified and copied at each of its steps, from which  *)
(* stack, and what CI may do to those objects meanwhile.                   *)
THEOREM RefsInvariance == RefsSpec => []RefsInv
BY RefsInitInv, RefsNextInv, PTL DEF RefsSpec

(* Only protected refs are published, one at a time.                       *)
THEOREM RefsTypeCorrect == RefsSpec => []RefsTypeOK
BY RefsInvariance, PTL DEF RefsInv

(* A reader who finds metadata at the top finds the archive of the same    *)
(* stack, wherever a thread or a run stops; signed, and of the same build, *)
(* unless CI builds the hash again there.                                  *)
THEOREM DescribesArchive == RefsSpec => []TopDescribesArchive
BY RefsInvariance, PTL DEF RefsInv
=============================================================================
