----------------------------- MODULE PublishRefs ----------------------------
(***************************************************************************)
(* main() of images/protected-publish/pkg/publish.py with --ref recent,    *)
(* and publish() for layout 2, where a spec is two objects: its metadata,  *)
(* signed, and its archive.  Each protected ref that had a pipeline within *)
(* the last day is published; what goes wrong with one ref is raised after *)
(* the others had their turn.  Stacks are built, and built again, and      *)
(* signed meanwhile, a thread for each missing hash copies whatever the    *)
(* key of one stack then holds, and requests fail.                         *)
(***************************************************************************)
EXTENDS Integers

CONSTANTS
    GitRefs,        \* refs that have pipelines
    Protected,      \* those is_ref_protected accepts
    Unclonable,     \* those for which clone_spack fails every time
    RefStacks,      \* stacks, numbered in the order the listing has them
    PHashes,        \* hashes of specs
    Built,          \* the <<ref, stack, hash>> that CI builds
    Rebuilt,        \* those it builds more than once
    MaxRefBuilds,   \* bound: builds of one of them
    MaxRefFaults    \* bound: failed requests and runs that die

(* The places of the objects of the stacks, and of the top of each ref.    *)
Specs == Protected \X RefStacks \X PHashes
Tops  == Protected \X PHashes

ASSUME RefsAssumption ==
    /\ Protected \subseteq GitRefs /\ Unclonable \subseteq GitRefs /\ RefStacks \subseteq Nat \ {0}
    /\ Built \subseteq Specs /\ Rebuilt \subseteq Built
    /\ MaxRefBuilds \in Nat \ {0} /\ MaxRefFaults \in Nat

(* What a thread has done for its hash.                                    *)
TaskSteps == {"none", "queued", "verified", "archived"}

(* Metadata is of a build and signed with the reputational key or not; at  *)
(* the top an object is of a build by a stack.  Build 0: there is none.    *)
Builds     == 0 .. MaxRefBuilds
Metas      == [build : Builds, signed : BOOLEAN]
TopObjects == [stack : RefStacks \union {0}, build : Builds]
TopMetas   == [stack : RefStacks \union {0}, build : Builds, signed : BOOLEAN]

VARIABLES
    active,         \* refs with a pipeline updated within the last day
    stackMeta, stackArchive,   \* the objects of the stacks
    topMeta, topArchive,       \* ... and of the top-level mirrors
    indexed,        \* what the indices of those list
    refFaults,
    (* one run *)
    refpc, refsTodo, ref,
    tasks, from     \* what the thread of a hash has done, of which stack

stackObjects == <<active, stackMeta, stackArchive>>
refMirrors == <<stackObjects, topMeta, topArchive, indexed>>
refVars    == <<refMirrors, refFaults, refpc, refsTodo, ref, tasks, from>>

RefsTypeOK ==
    /\ active \subseteq GitRefs
    /\ stackArchive \in [Specs -> Builds] /\ stackMeta \in [Specs -> Metas]
    /\ topArchive \in [Tops -> TopObjects] /\ topMeta \in [Tops -> TopMetas]
    /\ indexed \subseteq Tops /\ refFaults \in 0 .. MaxRefFaults
    /\ refpc \in {"idle", "next", "publish", "index"}
    /\ refsTodo \subseteq Protected /\ ref \in {{}} \union {{r} : r \in Protected}
    /\ tasks \in [PHashes -> TaskSteps] /\ from \in [PHashes -> RefStacks \union {0}]

NoTasks == [h \in PHashes |-> "none"]
NoStack == [h \in PHashes |-> 0]

RefsInit ==
    /\ active = {} /\ indexed = {} /\ refFaults = 0
    /\ stackArchive = [w \in Specs |-> 0]
    /\ stackMeta = [w \in Specs |-> [build |-> 0, signed |-> FALSE]]
    /\ topArchive = [t \in Tops |-> [stack |-> 0, build |-> 0]]
    /\ topMeta = [t \in Tops |-> [stack |-> 0, build |-> 0, signed |-> FALSE]]
    /\ refpc = "idle" /\ refsTodo = {} /\ ref = {}
    /\ tasks = NoTasks /\ from = NoStack

-----------------------------------------------------------------------------
(***************************************************************************)
(* CI: a pipeline of a ref runs and uploads; a ref gets quiet.             *)
(***************************************************************************)
RefRunSame == UNCHANGED <<topMeta, topArchive, indexed, refFaults, refpc, refsTodo, ref,
                          tasks, from>>

RefActive(r) ==
    /\ r \notin active /\ active' = active \union {r}
    /\ UNCHANGED <<stackMeta, stackArchive>> /\ RefRunSame

RefQuiet(r) ==
    /\ r \in active /\ active' = active \ {r}
    /\ UNCHANGED <<stackMeta, stackArchive>> /\ RefRunSame

(* A job uploads the archive, then the metadata, with the key of CI; the   *)
(* signing job replaces that by metadata with the reputational key.        *)
UploadArchive(w) ==
    /\ w[1] \in active
    /\ stackArchive[w] < (IF w \in Rebuilt THEN MaxRefBuilds ELSE 1)
    /\ stackArchive' = [stackArchive EXCEPT ![w] = @ + 1]
    /\ UNCHANGED <<active, stackMeta>> /\ RefRunSame

UploadMetadata(w) ==
    /\ stackMeta[w].build < stackArchive[w]
    /\ stackMeta' = [stackMeta EXCEPT ![w] = [build |-> stackArchive[w], signed |-> FALSE]]
    /\ UNCHANGED <<active, stackArchive>> /\ RefRunSame

SignMetadata(w) ==
    /\ stackMeta[w].build # 0 /\ ~stackMeta[w].signed
    /\ stackMeta' = [stackMeta EXCEPT ![w] = [build |-> @.build, signed |-> TRUE]]
    /\ UNCHANGED <<active, stackArchive>> /\ RefRunSame

-----------------------------------------------------------------------------
(***************************************************************************)
(* One run of main().                                                      *)
(***************************************************************************)
RefFault == refFaults < MaxRefFaults /\ refFaults' = refFaults + 1

EndRefs ==
    /\ refpc' = "idle" /\ refsTodo' = {} /\ ref' = {}
    /\ tasks' = NoTasks /\ from' = NoStack

(* get_recently_run_protected_refs.                                        *)
RefsToPublishAll == active   \* faulty variant: without is_ref_protected
RefsToPublish == active \intersect Protected

FindRefs ==
    /\ refpc = "idle" /\ RefsToPublish # {}
    /\ refsTodo' = RefsToPublish /\ refpc' = "next"
    /\ UNCHANGED <<refMirrors, refFaults, ref, tasks, from>>

(* publish() begins: what the listing shows of stacks and top decides; a   *)
(* hash with either of its objects at the top is not missing.  Of the      *)
(* stacks that have both objects of a hash the first one listed is taken.  *)
Present(r) == {h \in PHashes : topMeta[<<r, h>>].build # 0 \/ topArchive[<<r, h>>].build # 0}
Viable(r, h) ==
    {s \in RefStacks : stackArchive[<<r, s, h>>] # 0 /\ stackMeta[<<r, s, h>>].build # 0}
IsFirst(r, h, s) == s \in Viable(r, h) /\ \A t \in Viable(r, h) : s <= t
Complete(r) == {h \in PHashes : Viable(r, h) # {}}

StartRef(r) ==
    /\ refpc = "next" /\ r \in refsTodo /\ refsTodo' = refsTodo \ {r}
    /\ IF Complete(r) \subseteq Present(r) THEN UNCHANGED <<refpc, ref, tasks, from>>
       ELSE /\ refpc' = "publish" /\ ref' = {r}
            /\ tasks' = [h \in PHashes |->
                            IF h \in Complete(r) \ Present(r) THEN "queued" ELSE "none"]
            /\ from' \in [PHashes -> RefStacks \union {0}]
            /\ \A h \in PHashes : IF h \in Complete(r) \ Present(r) THEN IsFirst(r, h, from'[h])
                                  ELSE from'[h] = 0
    /\ UNCHANGED <<refMirrors, refFaults>>

(* publish_missing_spec_v2: the metadata is downloaded and the copy        *)
(* verified; then what the keys hold is copied, the archive first.         *)
AtTask(h, s) == refpc = "publish" /\ tasks[h] = s
SetTask(h, s) ==
    /\ tasks' = [tasks EXCEPT ![h] = s]
    /\ UNCHANGED <<stackObjects, indexed, refpc, refsTodo, ref, from>>

VerifySpec(h) ==
    /\ AtTask(h, "queued")
    /\ \E r \in ref :
          SetTask(h, IF stackMeta[<<r, from[h], h>>].signed THEN "verified" ELSE "none")
    /\ UNCHANGED <<topMeta, topArchive, refFaults>>

CopyFirst(h) ==
    /\ AtTask(h, "verified") /\ SetTask(h, "archived")
    /\ \E r \in ref :
          topArchive' = [topArchive EXCEPT ![<<r, h>>] =
                            [stack |-> from[h], build |-> stackArchive[<<r, from[h], h>>]]]
    /\ UNCHANGED <<topMeta, refFaults>>

CopySecond(h) ==
    /\ AtTask(h, "archived") /\ SetTask(h, "none")
    /\ \E r \in ref :
          LET m == stackMeta[<<r, from[h], h>>]
          IN  topMeta' = [topMeta EXCEPT ![<<r, h>>] =
                            [stack |-> from[h], build |-> m.build, signed |-> m.signed]]
    /\ UNCHANGED <<topArchive, refFaults>>

(* A download or a copy fails: the other object is not copied.             *)
AfterFailedCopyOn(h) ==   \* faulty variant: the failed copy is passed over
    IF tasks[h] = "verified" THEN "archived" ELSE "none"
AfterFailedCopy(h) == "none"

TaskFails2(h) ==
    /\ refpc = "publish" /\ tasks[h] # "none" /\ RefFault
    /\ SetTask(h, AfterFailedCopy(h))
    /\ UNCHANGED <<topMeta, topArchive>>

JoinTasks ==
    /\ refpc = "publish" /\ tasks = NoTasks
    /\ refpc' = "index" /\ from' = NoStack
    /\ UNCHANGED <<refMirrors, refFaults, refsTodo, ref, tasks>>

(* clone_spack, the keys, the index.                                       *)
IndexRef ==
    /\ refpc = "index" /\ ref \intersect Unclonable = {}
    /\ indexed' = indexed \union {t \in Tops : t[1] \in ref /\ topMeta[t].build # 0}
    /\ refpc' = "next" /\ ref' = {}
    /\ UNCHANGED <<stackObjects, topMeta, topArchive, refFaults, refsTodo, tasks, from>>

(* An exception of publish(): the key, the clone, the index.               *)
TodoAfterErrorNone == {}   \* faulty variant: the exception is not kept for later
TodoAfterError == refsTodo

RefRaises ==
    /\ refpc \in {"publish", "index"}
    /\ \/ refpc = "index" /\ ref \subseteq Unclonable /\ UNCHANGED refFaults
       \/ RefFault
    /\ \A h \in PHashes : tasks[h] \in {"none", "queued"}
    /\ refpc' = "next" /\ ref' = {}
    /\ tasks' = NoTasks /\ from' = NoStack
    /\ refsTodo' = TodoAfterError
    /\ UNCHANGED refMirrors

(* raise exceptions[0], or not: this run is over.                          *)
FinishRefs ==
    /\ refpc = "next" /\ refsTodo = {}
    /\ EndRefs
    /\ UNCHANGED <<refMirrors, refFaults>>

RefsDie ==
    /\ refpc # "idle" /\ RefFault
    /\ EndRefs
    /\ UNCHANGED refMirrors

-----------------------------------------------------------------------------
CIRefs ==
    \/ \E r \in GitRefs : RefActive(r) \/ RefQuiet(r)
    \/ \E w \in Built : UploadArchive(w) \/ UploadMetadata(w) \/ SignMetadata(w)

RefsStep ==
    \/ FindRefs \/ JoinTasks \/ IndexRef \/ FinishRefs
    \/ \E r \in Protected : StartRef(r)
    \/ \E h \in PHashes : VerifySpec(h) \/ CopyFirst(h) \/ CopySecond(h)

RefsNext == RefsStep \/ RefRaises \/ RefsDie \/ CIRefs \/ \E h \in PHashes : TaskFails2(h)

RefsSpec == RefsInit /\ [][RefsNext]_refVars

-----------------------------------------------------------------------------
(* Whoever finds metadata at the top of a mirror finds the archive, of the *)
(* same stack, wherever a thread or a run stops, and also when a hash was  *)
(* left half copied by another run.  The metadata is signed and of the     *)
(* build of the archive when CI has not built the hash again there: what   *)
(* replaces an object after the verification is copied unverified.         *)
TopDescribesArchive ==
    \A t \in Tops : topMeta[t].build # 0 =>
        /\ topArchive[t].build # 0 /\ topArchive[t].stack = topMeta[t].stack
        /\ <<t[1], topMeta[t].stack, t[2]>> \notin Rebuilt =>
              topMeta[t].signed /\ topMeta[t].build = topArchive[t].build

(* A ref that keeps being active gets what its first complete stack has    *)
(* signed to the top, at least the archive, also when another ref fails    *)
(* every time; the metadata too unless a copy was broken off between the   *)
(* two.  A later stack's signed copy does not help an unsigned first one.  *)
FirstSigned(r, h) == \E s \in RefStacks : IsFirst(r, h, s) /\ stackMeta[<<r, s, h>>].signed
RefsGetPublished ==
    \A t \in {<<w[1], w[3]>> : w \in Built} :
        <>[](t[1] \in active /\ FirstSigned(t[1], t[2])) => <>(topArchive[t].build # 0)
=============================================================================
