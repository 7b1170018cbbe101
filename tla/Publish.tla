------------------------------- MODULE Publish -------------------------------
(***************************************************************************)
(* The cron job of images/protected-publish (pkg/publish.py, layout 3): it *)
(* copies to the top-level mirror of a protected ref the binaries that     *)
(* exist in the mirror of some stack and are missing at the top.  CI       *)
(* pipelines push to the stack mirrors, and the signing job re-signs what  *)
(* they pushed, while a run is in flight.  One run at a time               *)
(* (concurrencyPolicy: Forbid); it may fail anywhere.                      *)
(*                                                                         *)
(* Data: a stack is its position in the order of the bucket listing.  The  *)
(* n-th build of a hash in a stack has blobs of its own, because blobs are *)
(* addressed by their contents; CI pushes them before the manifest, so in  *)
(* a stack mirror they are there whenever the manifest is.                 *)
(***************************************************************************)
EXTENDS Integers, FiniteSets

CONSTANTS
    Hashes,     \* spec hashes
    NumStacks,  \* number of stacks
    MaxBuilds,  \* bound: builds of one hash by one stack; 1 = no rebuild
    Parallel,   \* --parallel: worker threads
    Faults,     \* kinds of fault that happen: see Fault
    MaxFaults,  \* bound: number of faults
    None        \* "no such manifest", "no such task"

Stacks == 1 .. NumStacks
Builds == 1 .. MaxBuilds
(* A signed manifest: "ci" is the intermediate key, "rep" the reputational *)
(* key; its data section names the blobs of one build.                     *)
Copies == [stack : Stacks, build : Builds, sig : {"ci", "rep"}]
Blobs  == [hash : Hashes, stack : Stacks, build : Builds, kind : {"archive", "meta"}]
Steps  == {"queued", "verified", "archived", "described"}
Tasks  == [copy : Copies, step : Steps]

ASSUME ParametersAssumption ==
    /\ NumStacks \in Nat /\ MaxBuilds \in Nat \ {0}
    /\ Parallel \in Nat \ {0} /\ MaxFaults \in Nat
ASSUME NoneAssumption == None \notin Copies /\ None \notin Tasks

VARIABLES
    stack,      \* stack[s][h]: the manifest of h in the mirror of stack s
    signed,     \* history: <<h, s, n>> the signing job has signed
    top,        \* top[h]: the manifest of h in the top-level mirror
    blobs,      \* blobs in the top-level mirror
    index,      \* hashes in the index of the top-level mirror
    faults,     \* faults so far
    (* one run of publish() *)
    pc, listed, listedTop, next, local, task

mirror == <<stack, signed>>
run    == <<pc, listed, listedTop, next, local, task>>
vars   == <<mirror, top, blobs, index, faults, run>>

MaybeCopy == Copies \union {None}

StackTypeOK ==
    /\ stack \in [Stacks -> [Hashes -> MaybeCopy]]
    /\ \A s \in Stacks, h \in Hashes : stack[s][h] # None => stack[s][h].stack = s
    /\ signed \subseteq Hashes \X Stacks \X Builds
TopTypeOK == top \in [Hashes -> MaybeCopy] /\ blobs \subseteq Blobs /\ index \subseteq Hashes
RunTypeOK ==
    /\ pc \in {"idle", "sync", "copy", "index"}
    /\ listed \subseteq Stacks \X Hashes /\ listedTop \subseteq Hashes
    /\ next \in 1 .. NumStacks + 1
    /\ local \in [Stacks -> [Hashes -> MaybeCopy]]
    /\ task \in [Hashes -> Tasks \union {None}]
(* A task only ever holds a manifest that was there to be read.            *)
TypeOK == StackTypeOK /\ TopTypeOK /\ RunTypeOK /\ faults \in 0 .. MaxFaults

NoManifests == [s \in Stacks |-> [h \in Hashes |-> None]]

Init ==
    /\ stack = NoManifests /\ signed = {}
    /\ top = [h \in Hashes |-> None] /\ blobs = {} /\ index = {} /\ faults = 0
    /\ pc = "idle" /\ listed = {} /\ listedTop = {} /\ next = 1
    /\ local = NoManifests /\ task = [h \in Hashes |-> None]

(***************************************************************************)
(* CI.                                                                     *)
(***************************************************************************)
(* A pipeline of stack s builds h, or builds it again, and pushes it       *)
(* signed with the intermediate key.                                       *)
Build(s, h) ==
    /\ \/ stack[s][h] = None
       \/ stack[s][h] # None /\ stack[s][h].build < MaxBuilds
    /\ stack' = [stack EXCEPT ![s][h] =
          [stack |-> s, sig |-> "ci",
           build |-> IF stack[s][h] = None THEN 1 ELSE stack[s][h].build + 1]]
    /\ UNCHANGED <<signed, top, blobs, index, faults, run>>

(* sign.sh verifies every manifest of the stack, dies if one does not      *)
(* verify, and signs them all.                                             *)
Sign(s) ==
    /\ \E h \in Hashes : stack[s][h] # None /\ stack[s][h].sig = "ci"
    /\ stack' = [stack EXCEPT ![s] = [h \in Hashes |->
          IF stack[s][h] = None THEN None ELSE [stack[s][h] EXCEPT !.sig = "rep"]]]
    /\ signed' = signed \union
          {<<h, s, stack[s][h].build>> : h \in {g \in Hashes : stack[s][g] # None}}
    /\ UNCHANGED <<top, blobs, index, faults, run>>

(***************************************************************************)
(* One run.                                                                *)
(***************************************************************************)
Fault(kind) == kind \in Faults /\ faults < MaxFaults /\ faults' = faults + 1

EndRun ==
    /\ pc' = "idle" /\ listed' = {} /\ listedTop' = {} /\ next' = 1
    /\ local' = NoManifests /\ task' = [h \in Hashes |-> None]

(* activeDeadlineSeconds, or an exception out of a subprocess: the key     *)
(* import, the clone of spack, gpg publish, update-index.                  *)
Crash ==
    /\ pc # "idle"
    /\ Fault("crash")
    /\ EndRun
    /\ UNCHANGED <<mirror, top, blobs, index>>

(* aws s3 ls --recursive; a hash is at the top if its manifest is.         *)
TopListingOfBlobs == {b.hash : b \in blobs}   \* faulty variant, as in layout 2
TopListing == {h \in Hashes : top[h] # None}
List ==
    /\ pc = "idle"
    /\ listed' = {x \in Stacks \X Hashes : stack[x[1]][x[2]] # None}
    /\ listedTop' = TopListing
    /\ pc' = "sync"
    /\ UNCHANGED <<mirror, top, blobs, index, faults, next, local, task>>

(* aws s3 sync of the manifests of one stack, those in "lost" excepted:    *)
(* the sync failed, or the manifest does not parse.                        *)
Download(s, lost) ==
    /\ pc = "sync" /\ next = s
    /\ local' = [local EXCEPT ![s] = [h \in Hashes |->
          IF <<s, h>> \in listed /\ h \notin lost THEN stack[s][h] ELSE None]]
    /\ next' = next + 1
    /\ UNCHANGED <<mirror, top, blobs, index, pc, listed, listedTop, task>>

SyncStack(s) == Download(s, {}) /\ UNCHANGED faults
SyncPartly(s) ==
    /\ Fault("sync")
    /\ \E lost \in {Hashes} \union {{h} : h \in Hashes} : Download(s, lost)

(* find_top_level_missing, and the choice next(iter(stacks_dict.values())). *)
HaveStacks(h) == {s \in Stacks : local[s][h] # None}
MissingAtTopListed == {h \in Hashes : HaveStacks(h) # {}}   \* faulty variant
MissingAtTop == {h \in Hashes : h \notin listedTop /\ HaveStacks(h) # {}}
FirstOfAll(h) == CHOOSE s \in Stacks : \A t \in Stacks : s <= t   \* faulty variant
FirstStack(h) == CHOOSE s \in HaveStacks(h) : \A t \in HaveStacks(h) : s <= t

(* Nothing missing: the run returns before the index.                      *)
Plan ==
    /\ pc = "sync" /\ next = NumStacks + 1
    /\ IF MissingAtTop = {}
       THEN EndRun
       ELSE /\ task' = [h \in Hashes |->
                  IF h \in MissingAtTop
                  THEN [copy |-> local[FirstStack(h)][h], step |-> "queued"]
                  ELSE None]
            /\ pc' = "copy"
            /\ listed' = {} /\ next' = 1 /\ local' = NoManifests
            /\ UNCHANGED listedTop
    /\ UNCHANGED <<mirror, top, blobs, index, faults>>

(* publish_missing_spec_v3: a worker thread per task, Parallel at a time.  *)
AtStep(h, step) == pc = "copy" /\ task[h] # None /\ task[h].step = step
Working == {h \in Hashes : task[h] # None /\ task[h].step # "queued"}

Advance(h, step) == task' = [task EXCEPT ![h] = [task[h] EXCEPT !.step = step]]
Drop(h) == task' = [task EXCEPT ![h] = None]

(* gpg --verify of the manifest downloaded earlier.                        *)
SignatureAny(h) == TRUE   \* faulty variant: any trusted key will do
SignatureOK(h) == task[h].copy.sig = "rep"
Verify(h) ==
    /\ AtStep(h, "queued") /\ Cardinality(Working) < Parallel
    /\ IF SignatureOK(h) THEN Advance(h, "verified") ELSE Drop(h)
    /\ UNCHANGED <<mirror, top, blobs, index, faults, pc, listed, listedTop, next, local>>

(* Copies the blob that the downloaded manifest names.                     *)
CopyBlob(h, from, kind, to) ==
    /\ AtStep(h, from)
    /\ blobs' = blobs \union {[hash |-> h, stack |-> task[h].copy.stack,
                               build |-> task[h].copy.build, kind |-> kind]}
    /\ Advance(h, to)
    /\ UNCHANGED <<mirror, top, index, faults, pc, listed, listedTop, next, local>>
CopyArchive(h) == CopyBlob(h, "verified", "archive", "archived")
CopyMeta(h)    == CopyBlob(h, "archived", "meta", "described")

(* Copies the manifest the stack mirror holds by now.                      *)
CurrentManifest(h) == stack[task[h].copy.stack][h]
CopyManifest(h) ==
    /\ AtStep(h, "described")
    /\ top' = [top EXCEPT ![h] = CurrentManifest(h)]
    /\ Drop(h)
    /\ UNCHANGED <<mirror, blobs, index, faults, pc, listed, listedTop, next, local>>

(* One of the three copies fails: the task reports it and returns.         *)
FailCopyGoesOn(h) ==   \* faulty variant: the next file is copied all the same
    /\ Fault("copy")
    /\ \/ AtStep(h, "verified") /\ Advance(h, "archived")
       \/ AtStep(h, "archived") /\ Advance(h, "described")
    /\ UNCHANGED <<mirror, top, blobs, index, pc, listed, listedTop, next, local>>
FailCopy(h) ==
    /\ pc = "copy" /\ h \in Working
    /\ Fault("copy")
    /\ Drop(h)
    /\ UNCHANGED <<mirror, top, blobs, index, pc, listed, listedTop, next, local>>

(* as_completed() is exhausted, whatever the tasks returned.               *)
JoinWorkers ==
    /\ pc = "copy" /\ \A h \in Hashes : task[h] = None
    /\ pc' = "index"
    /\ UNCHANGED <<mirror, top, blobs, index, faults, listed, listedTop, next, local, task>>

(* spack buildcache update-index lists the manifests at the top.           *)
IndexBeforeCopies == listedTop   \* faulty variant: indexed first, then copied
IndexContents == {h \in Hashes : top[h] # None}
UpdateIndex ==
    /\ pc = "index"
    /\ index' = IndexContents
    /\ EndRun
    /\ UNCHANGED <<mirror, top, blobs, faults>>

-----------------------------------------------------------------------------
CINext == \E s \in Stacks : Sign(s) \/ \E h \in Hashes : Build(s, h)

Work(h) == Verify(h) \/ CopyArchive(h) \/ CopyMeta(h) \/ CopyManifest(h)

RunNext ==
    \/ List \/ Plan \/ JoinWorkers \/ UpdateIndex
    \/ \E s \in Stacks : SyncStack(s)
    \/ \E h \in Hashes : Work(h)

FaultNext ==
    \/ Crash
    \/ \E s \in Stacks : SyncPartly(s)
    \/ \E h \in Hashes : FailCopy(h)

Next == CINext \/ RunNext \/ FaultNext

Spec == Init /\ [][Next]_vars

(* The job is started every three hours and takes its steps.               *)
PublishFairSpec == Spec /\ WF_vars(RunNext)

(* Moreover no signing job is given up for good.                           *)
SigningFairSpec == PublishFairSpec /\ \A s \in Stacks : WF_vars(Sign(s))

-----------------------------------------------------------------------------
(***************************************************************************)
(* Properties.                                                             *)
(***************************************************************************)
BlobsOf(h, c) ==
    {[hash |-> h, stack |-> c.stack, build |-> c.build, kind |-> k] : k \in {"archive", "meta"}}

(* A manifest at the top names blobs that are at the top: the archive and  *)
(* the metadata go first, whatever fails in between.                       *)
TopComplete == \A h \in Hashes : top[h] # None => BlobsOf(h, top[h]) \subseteq blobs

(* README.md:82: all binaries at the top level are signed with the         *)
(* reputational key, though CI pushes with another one.                    *)
TopSigned == \A h \in Hashes : top[h] # None => top[h].sig = "rep"

(* No blob gets to the top of a build that the signing job never saw, even *)
(* when the stack builds the hash again during the run.                    *)
BlobsSigned == \A b \in blobs : <<b.hash, b.stack, b.build>> \in signed

(* What the top serves for a hash never changes.                           *)
PublishedStays == \A h \in Hashes : top[h] # None => top'[h] = top[h]
PublishedOnce == [][PublishedStays]_vars

(* A hash some stack holds properly signed gets to the top.                *)
SignedIsPublished ==
    \A h \in Hashes :
        (\E s \in Stacks : stack[s][h] # None /\ stack[s][h].sig = "rep") ~> top[h] # None

(* README.md:96: after copying, the index of the top is rebuilt.           *)
PublishedIsIndexed == \A h \in Hashes : top[h] # None ~> h \in index

(* The abstract mirror.  A binary is what the manifest names, and what it  *)
(* names must be there.                                                    *)
Broken == [stack |-> 0]
Served(h) ==
    IF top[h] = None THEN None ELSE IF BlobsOf(h, top[h]) \subseteq blobs THEN top[h] ELSE Broken
GoodCopies == {c \in Copies : c.sig = "rep"}
Top == INSTANCE TopMirror
          WITH Good <- GoodCopies, binary <- [h \in Hashes |-> Served(h)], index <- index
ImplementsTopMirror == Top!Spec
=============================================================================
