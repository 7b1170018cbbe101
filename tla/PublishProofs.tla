---------------------------- MODULE PublishProofs ----------------------------
(***************************************************************************)
(* Proofs about Publish, for any set of hashes, any number of stacks and   *)
(* worker threads, and any bounds: type correctness, the safety            *)
(* properties, and that Publish implements TopMirror as long as no stack   *)
(* builds a hash a second time.                                            *)
(***************************************************************************)
EXTENDS Publish, WellFoundedInduction, TLAPS

(***************************************************************************)
(* Lemmas about the operators.                                             *)
(***************************************************************************)
LEMMA NatMin ==
    ASSUME NEW T, T \subseteq Nat, T # {}
    PROVE  \E x \in T : \A y \in T : x <= y
<1>1. PICK x \in T : \A y \in T : ~(<<y, x>> \in OpToRel(<, Nat))
  BY NatLessThanWellFounded, WFMin
<1>2. \A y \in T : ~(y < x)
  BY <1>1 DEF OpToRel
<1> QED
  BY <1>2

(* The stack a missing hash is taken from has it.                          *)
LEMMA FirstStackHas ==
    ASSUME TypeOK, NEW h \in Hashes, HaveStacks(h) # {}
    PROVE  FirstStack(h) \in Stacks /\ local[FirstStack(h)][h] # None
<1>1. HaveStacks(h) \subseteq Nat
  BY ParametersAssumption DEF HaveStacks, Stacks
<1>2. FirstStack(h) \in HaveStacks(h)
  BY <1>1, NatMin DEF FirstStack
<1> QED
  BY <1>2 DEF HaveStacks

LEMMA EndRunTyped == EndRun => RunTypeOK'
BY ParametersAssumption DEF EndRun, RunTypeOK, NoManifests, MaybeCopy

(***************************************************************************)
(* Type correctness.                                                       *)
(***************************************************************************)
LEMMA InitTyped == Init => TypeOK
BY ParametersAssumption
DEF Init, TypeOK, StackTypeOK, TopTypeOK, RunTypeOK, NoManifests, MaybeCopy

LEMMA StepTyped == TypeOK /\ [Next]_vars => TypeOK'
<1> SUFFICES ASSUME TypeOK, [Next]_vars PROVE TypeOK'
  OBVIOUS
<1> USE DEF TypeOK
<1>1. ASSUME NEW s \in Stacks, NEW h \in Hashes, Build(s, h) PROVE TypeOK'
  <2> DEFINE n == IF stack[s][h] = None THEN 1 ELSE stack[s][h].build + 1
             new == [stack |-> s, sig |-> "ci", build |-> n]
  <2>1. n \in Builds
    <3>1. CASE stack[s][h] = None
      BY <3>1, ParametersAssumption DEF Builds
    <3>2. CASE stack[s][h] # None
      <4>1. stack[s][h] \in Copies
        BY <3>2 DEF StackTypeOK, MaybeCopy
      <4> QED
        BY <1>1, <3>2, <4>1, ParametersAssumption DEF Build, Copies, Builds
    <3> QED
      BY <3>1, <3>2
  <2>2. new \in Copies /\ new.stack = s
    BY <2>1 DEF Copies
  <2>3. stack' = [stack EXCEPT ![s][h] = new]
    BY <1>1 DEF Build
  <2> HIDE DEF new
  <2>4. StackTypeOK'
    BY <1>1, <2>2, <2>3 DEF Build, StackTypeOK, MaybeCopy
  <2> QED
    BY <1>1, <2>4 DEF Build, TopTypeOK, RunTypeOK, run
<1>2. ASSUME NEW s \in Stacks, Sign(s) PROVE TypeOK'
  <2>1. \A h \in Hashes : stack[s][h] # None =>
            stack[s][h] \in Copies /\ [stack[s][h] EXCEPT !.sig = "rep"] \in Copies
    BY DEF StackTypeOK, MaybeCopy, Copies
  <2>2. \A h \in Hashes : stack[s][h] # None =>
            [stack[s][h] EXCEPT !.sig = "rep"].stack = s
    BY <2>1 DEF StackTypeOK, Copies
  <2>3. stack' \in [Stacks -> [Hashes -> MaybeCopy]]
    BY <1>2, <2>1 DEF Sign, StackTypeOK, MaybeCopy
  <2>4. \A t \in Stacks, h \in Hashes : stack'[t][h] # None => stack'[t][h].stack = t
    BY <1>2, <2>2 DEF Sign, StackTypeOK
  <2>5. signed' \subseteq Hashes \X Stacks \X Builds
    BY <1>2, <2>1 DEF Sign, StackTypeOK, Copies
  <2> QED
    BY <1>2, <2>3, <2>4, <2>5 DEF Sign, StackTypeOK, TopTypeOK, RunTypeOK, run
<1>3. CASE Crash
  BY <1>3, EndRunTyped, ParametersAssumption DEF Crash, Fault, StackTypeOK, TopTypeOK, mirror
<1>4. CASE List
  BY <1>4 DEF List, TopListing, StackTypeOK, TopTypeOK, RunTypeOK, mirror
<1>5. ASSUME NEW s \in Stacks, NEW lost, Download(s, lost), faults' \in 0 .. MaxFaults
      PROVE  TypeOK'
  <2>1. local' \in [Stacks -> [Hashes -> MaybeCopy]]
    BY <1>5 DEF Download, StackTypeOK, RunTypeOK, MaybeCopy
  <2>2. next' \in 1 .. NumStacks + 1
    BY <1>5, ParametersAssumption DEF Download, RunTypeOK, Stacks
  <2> QED
    BY <1>5, <2>1, <2>2 DEF Download, StackTypeOK, TopTypeOK, RunTypeOK, mirror
<1>6. ASSUME NEW s \in Stacks, SyncStack(s) PROVE TypeOK'
  BY <1>5, <1>6 DEF SyncStack
<1>7. ASSUME NEW s \in Stacks, SyncPartly(s) PROVE TypeOK'
  BY <1>5, <1>7, ParametersAssumption DEF SyncPartly, Fault
<1>8. CASE Plan
  <2>1. CASE MissingAtTop = {}
    BY <1>8, <2>1, EndRunTyped DEF Plan, StackTypeOK, TopTypeOK, mirror
  <2>2. CASE MissingAtTop # {}
    <3>1. \A h \in MissingAtTop :
              [copy |-> local[FirstStack(h)][h], step |-> "queued"] \in Tasks
      BY FirstStackHas DEF MissingAtTop, RunTypeOK, MaybeCopy, Tasks, Steps
    <3>2. task' \in [Hashes -> Tasks \union {None}]
      BY <1>8, <2>2, <3>1 DEF Plan
    <3>3. NoManifests \in [Stacks -> [Hashes -> MaybeCopy]]
      BY DEF NoManifests, MaybeCopy
    <3> QED
      BY <1>8, <2>2, <3>2, <3>3, ParametersAssumption
      DEF Plan, StackTypeOK, TopTypeOK, RunTypeOK, mirror
  <2> QED
    BY <2>1, <2>2
<1>9. ASSUME NEW h \in Hashes, NEW step \in Steps, task[h] # None, Advance(h, step)
      PROVE  task' \in [Hashes -> Tasks \union {None}]
  <2>1. [task[h] EXCEPT !.step = step] \in Tasks
    BY <1>9 DEF RunTypeOK, Tasks
  <2> QED
    BY <1>9, <2>1 DEF Advance, RunTypeOK
<1>10. ASSUME NEW h \in Hashes, Drop(h) PROVE task' \in [Hashes -> Tasks \union {None}]
  BY <1>10 DEF Drop, RunTypeOK
<1>11. ASSUME NEW h \in Hashes, Verify(h) PROVE TypeOK'
  <2>1. task' \in [Hashes -> Tasks \union {None}]
    BY <1>9, <1>10, <1>11 DEF Verify, AtStep, Steps
  <2> QED
    BY <1>11, <2>1 DEF Verify, StackTypeOK, TopTypeOK, RunTypeOK, mirror
<1>12. ASSUME NEW h \in Hashes, NEW from, NEW kind \in {"archive", "meta"}, NEW to \in Steps,
              CopyBlob(h, from, kind, to)
       PROVE  TypeOK'
  <2>1. task' \in [Hashes -> Tasks \union {None}]
    BY <1>9, <1>12 DEF CopyBlob, AtStep
  <2>2. task[h] \in Tasks
    BY <1>12 DEF CopyBlob, AtStep, RunTypeOK
  <2>3. [hash |-> h, stack |-> task[h].copy.stack,
         build |-> task[h].copy.build, kind |-> kind] \in Blobs
    BY <2>2 DEF Tasks, Copies, Blobs
  <2> QED
    BY <1>12, <2>1, <2>3 DEF CopyBlob, StackTypeOK, TopTypeOK, RunTypeOK, mirror
<1>13. ASSUME NEW h \in Hashes, CopyArchive(h) \/ CopyMeta(h) PROVE TypeOK'
  BY <1>12, <1>13 DEF CopyArchive, CopyMeta, Steps
<1>14. ASSUME NEW h \in Hashes, CopyManifest(h) PROVE TypeOK'
  <2>1. task' \in [Hashes -> Tasks \union {None}]
    BY <1>10, <1>14 DEF CopyManifest
  <2>2. task[h] \in Tasks
    BY <1>14 DEF CopyManifest, AtStep, RunTypeOK
  <2>3. CurrentManifest(h) \in MaybeCopy
    BY <2>2 DEF CurrentManifest, StackTypeOK, Tasks, Copies
  <2> QED
    BY <1>14, <2>1, <2>3 DEF CopyManifest, StackTypeOK, TopTypeOK, RunTypeOK, mirror
<1>15. ASSUME NEW h \in Hashes, FailCopy(h) PROVE TypeOK'
  <2>1. task' \in [Hashes -> Tasks \union {None}]
    BY <1>10, <1>15 DEF FailCopy
  <2> QED
    BY <1>15, <2>1, ParametersAssumption
    DEF FailCopy, Fault, StackTypeOK, TopTypeOK, RunTypeOK, mirror
<1>16. CASE JoinWorkers
  BY <1>16 DEF JoinWorkers, StackTypeOK, TopTypeOK, RunTypeOK, mirror
<1>17. CASE UpdateIndex
  BY <1>17, EndRunTyped DEF UpdateIndex, IndexContents, StackTypeOK, TopTypeOK, mirror
<1>18. CASE UNCHANGED vars
  BY <1>18 DEF vars, mirror, run, StackTypeOK, TopTypeOK, RunTypeOK
<1> QED
  BY <1>1, <1>2, <1>3, <1>4, <1>6, <1>7, <1>8, <1>11, <1>13, <1>14, <1>15, <1>16, <1>17, <1>18
  DEF Next, CINext, RunNext, FaultNext, Work

(* A task holds a manifest that was there to be read, whatever stacks      *)
(* failed to sync.                                                         *)
THEOREM TypeCorrect == Spec => []TypeOK
BY InitTyped, StepTyped, PTL DEF Spec

(***************************************************************************)
(* The inductive invariant.                                                *)
(***************************************************************************)
IsSigned(c) == c # None /\ c.sig = "rep"
IsRecorded(h, c) == <<h, c.stack, c.build>> \in signed

(* A manifest with the reputational signature, wherever it is, was made by *)
(* the signing job.                                                        *)
StackRecorded == \A s \in Stacks, h \in Hashes : IsSigned(stack[s][h]) => IsRecorded(h, stack[s][h])
LocalRecorded ==
    \A s \in Stacks, h \in Hashes : local[s][h] # None =>
        local[s][h].stack = s /\ (IsSigned(local[s][h]) => IsRecorded(h, local[s][h]))
TaskRecorded ==
    \A h \in Hashes : task[h] # None /\ IsSigned(task[h].copy) => IsRecorded(h, task[h].copy)

(* A task past its first step has verified the signature, and has copied   *)
(* the blobs it says it has.                                               *)
Blob(h, c, kind) == [hash |-> h, stack |-> c.stack, build |-> c.build, kind |-> kind]
TaskProgress ==
    \A h \in Hashes : task[h] # None =>
        /\ pc = "copy"
        /\ task[h].step # "queued" => task[h].copy.sig = "rep"
        /\ task[h].step \in {"archived", "described"} => Blob(h, task[h].copy, "archive") \in blobs
        /\ task[h].step = "described" => Blob(h, task[h].copy, "meta") \in blobs

(* What a run takes to be missing at the top stays missing until the run   *)
(* itself publishes it.                                                    *)
ListingStands == pc = "sync" => \A h \in Hashes : top[h] # None => h \in listedTop
TaskIsMissing == \A h \in Hashes : task[h] # None => top[h] = None

(* With no rebuild, a signed manifest in a stack is never replaced, so the *)
(* one that was downloaded is the one that will be copied.                 *)
NoRebuild == MaxBuilds = 1
LocalStands ==
    NoRebuild => \A s \in Stacks, h \in Hashes :
        IsSigned(local[s][h]) => stack[s][h] = local[s][h]
TaskStands ==
    NoRebuild => \A h \in Hashes :
        task[h] # None /\ IsSigned(task[h].copy) => stack[task[h].copy.stack][h] = task[h].copy
TopGood == NoRebuild => TopSigned /\ TopComplete

IInv ==
    /\ TypeOK /\ StackRecorded /\ LocalRecorded /\ TaskRecorded /\ TaskProgress
    /\ ListingStands /\ TaskIsMissing /\ LocalStands /\ TaskStands
    /\ BlobsSigned /\ TopGood

LEMMA InitInvariant == Init => IInv
<1> SUFFICES ASSUME Init PROVE IInv
  OBVIOUS
<1>1. \A s \in Stacks, h \in Hashes : stack[s][h] = None /\ local[s][h] = None
  BY DEF Init, NoManifests
<1>2. StackRecorded /\ LocalRecorded /\ LocalStands
  BY <1>1 DEF StackRecorded, LocalRecorded, LocalStands, IsSigned
<1>3. TaskRecorded /\ TaskProgress /\ TaskIsMissing /\ TaskStands /\ ListingStands
  BY DEF Init, TaskRecorded, TaskProgress, TaskIsMissing, TaskStands, ListingStands
<1>4. BlobsSigned /\ TopGood
  BY DEF Init, BlobsSigned, TopGood, TopSigned, TopComplete
<1> QED
  BY <1>2, <1>3, <1>4, InitTyped DEF IInv

LEMMA MirrorKept == IInv /\ UNCHANGED mirror => StackRecorded'
BY DEF IInv, StackRecorded, IsSigned, IsRecorded, mirror

LEMMA LocalKept == IInv /\ UNCHANGED <<mirror, local>> => LocalRecorded' /\ LocalStands'
BY DEF IInv, LocalRecorded, LocalStands, IsSigned, IsRecorded, mirror

LEMMA TopKept == IInv /\ UNCHANGED <<mirror, top, blobs>> => BlobsSigned' /\ TopGood'
BY DEF IInv, BlobsSigned, TopGood, TopSigned, TopComplete, BlobsOf, mirror

(* Tasks may end; those that remain have made no step.                     *)
LEMMA TasksKept ==
    ASSUME IInv, UNCHANGED mirror, blobs \subseteq blobs',
           \A h \in Hashes : task'[h] \in {task[h], None},
           \A h \in Hashes : task'[h] # None => pc' = "copy" /\ top'[h] = top[h]
    PROVE  TaskRecorded' /\ TaskProgress' /\ TaskIsMissing' /\ TaskStands'
<1>1. TaskRecorded'
  BY DEF IInv, TaskRecorded, IsSigned, IsRecorded, mirror
<1>2. TaskProgress'
  BY DEF IInv, TaskProgress, Blob
<1>3. TaskIsMissing'
  BY DEF IInv, TaskIsMissing
<1>4. TaskStands'
  BY DEF IInv, TaskStands, IsSigned, mirror
<1> QED
  BY <1>1, <1>2, <1>3, <1>4

LEMMA EndRunClean ==
    ASSUME EndRun
    PROVE  /\ LocalRecorded' /\ LocalStands' /\ ListingStands'
           /\ TaskRecorded' /\ TaskProgress' /\ TaskIsMissing' /\ TaskStands'
<1>1. \A s \in Stacks, h \in Hashes : local'[s][h] = None
  BY DEF EndRun, NoManifests
<1>2. \A h \in Hashes : task'[h] = None
  BY DEF EndRun
<1>3. pc' = "idle"
  BY DEF EndRun
<1> QED
  BY <1>1, <1>2, <1>3
  DEF LocalRecorded, LocalStands, ListingStands, IsSigned,
      TaskRecorded, TaskProgress, TaskIsMissing, TaskStands

LEMMA BuildStep ==
    ASSUME IInv, NEW s \in Stacks, NEW h \in Hashes, Build(s, h), TypeOK'
    PROVE  IInv'
<1>1. /\ UNCHANGED <<signed, top, blobs, run>>
      /\ stack'[s][h].sig = "ci"
      /\ \A t \in Stacks, g \in Hashes : t # s \/ g # h => stack'[t][g] = stack[t][g]
  BY DEF Build, IInv, TypeOK, StackTypeOK
<1>2. StackRecorded'
  BY <1>1 DEF IInv, StackRecorded, IsSigned, IsRecorded
<1>3. LocalRecorded' /\ TaskRecorded' /\ TaskProgress' /\ ListingStands' /\ TaskIsMissing'
  BY <1>1 DEF run, IInv, LocalRecorded, TaskRecorded, TaskProgress, ListingStands,
              TaskIsMissing, IsSigned, IsRecorded, Blob
<1>4. BlobsSigned' /\ TopGood'
  BY <1>1 DEF IInv, BlobsSigned, TopGood, TopSigned, TopComplete, BlobsOf
<1>5. NoRebuild => stack[s][h] = None
  <2>1. stack[s][h] # None => stack[s][h].build \in Builds
    BY DEF IInv, TypeOK, StackTypeOK, MaybeCopy, Copies
  <2> QED
    BY <2>1, ParametersAssumption DEF Build, NoRebuild, Builds
<1>6. LocalStands'
  BY <1>1, <1>5 DEF run, IInv, LocalStands, IsSigned
<1>7. TaskStands'
  <2>1. \A g \in Hashes : task[g] # None => task[g].copy.stack \in Stacks
    BY DEF IInv, TypeOK, RunTypeOK, Tasks, Copies
  <2> QED
    BY <1>1, <1>5, <2>1 DEF run, IInv, TaskStands, IsSigned
<1> QED
  BY <1>2, <1>3, <1>4, <1>6, <1>7 DEF IInv

LEMMA SignStep ==
    ASSUME IInv, NEW s \in Stacks, Sign(s), TypeOK'
    PROVE  IInv'
<1>1. UNCHANGED <<top, blobs, run>> /\ signed \subseteq signed'
  BY DEF Sign
<1>2. \A t \in Stacks, h \in Hashes :
          stack'[t][h] = IF t = s
                         THEN IF stack[s][h] = None THEN None
                              ELSE [stack[s][h] EXCEPT !.sig = "rep"]
                         ELSE stack[t][h]
  BY DEF Sign, IInv, TypeOK, StackTypeOK
<1>3. \A h \in Hashes : stack[s][h] # None => stack[s][h] \in Copies /\ stack[s][h].stack = s
  BY DEF IInv, TypeOK, StackTypeOK, MaybeCopy
<1>4. \A h \in Hashes : stack[s][h] # None =>
          /\ stack'[s][h].stack = s /\ stack'[s][h].build = stack[s][h].build
          /\ <<h, s, stack[s][h].build>> \in signed'
  BY <1>2, <1>3 DEF Copies, Sign
<1>5. StackRecorded'
  BY <1>1, <1>2, <1>4 DEF IInv, StackRecorded, IsSigned, IsRecorded
<1>6. LocalRecorded' /\ TaskRecorded' /\ TaskProgress' /\ ListingStands' /\ TaskIsMissing'
  BY <1>1 DEF run, IInv, LocalRecorded, TaskRecorded, TaskProgress, ListingStands,
              TaskIsMissing, IsSigned, IsRecorded, Blob
<1>7. BlobsSigned' /\ TopGood'
  BY <1>1 DEF IInv, BlobsSigned, TopGood, TopSigned, TopComplete, BlobsOf
<1>8. \A t \in Stacks, h \in Hashes : IsSigned(stack[t][h]) => stack'[t][h] = stack[t][h]
  <2>1. \A c \in Copies : c.sig = "rep" => [c EXCEPT !.sig = "rep"] = c
    BY DEF Copies
  <2>2. ASSUME NEW h \in Hashes, IsSigned(stack[s][h]) PROVE stack'[s][h] = stack[s][h]
    <3>1. stack[s][h] # None /\ stack[s][h] \in Copies /\ stack[s][h].sig = "rep"
      BY <1>3, <2>2 DEF IsSigned
    <3>2. stack'[s][h] = [stack[s][h] EXCEPT !.sig = "rep"]
      BY <1>2, <3>1
    <3> QED
      BY <2>1, <3>1, <3>2
  <2>3. ASSUME NEW t \in Stacks, t # s, NEW h \in Hashes PROVE stack'[t][h] = stack[t][h]
    BY <1>2, <2>3
  <2> QED
    BY <2>2, <2>3
<1>9. LocalStands'
  BY <1>1, <1>8 DEF run, IInv, LocalStands, IsSigned
<1>10. TaskStands'
  <2>1. \A g \in Hashes : task[g] # None => task[g].copy.stack \in Stacks
    BY DEF IInv, TypeOK, RunTypeOK, Tasks, Copies
  <2> QED
    BY <1>1, <1>8, <2>1, NoneAssumption
    DEF run, IInv, TypeOK, RunTypeOK, Tasks, TaskStands, IsSigned
<1> QED
  BY <1>5, <1>6, <1>7, <1>9, <1>10 DEF IInv

LEMMA DownloadStep ==
    ASSUME IInv, NEW s \in Stacks, NEW lost, Download(s, lost), TypeOK'
    PROVE  IInv'
<1>1. UNCHANGED <<mirror, top, blobs, pc, listedTop, task>>
  BY DEF Download
<1>2. \A t \in Stacks, h \in Hashes :
          local'[t][h] = local[t][h] \/ (t = s /\ local'[t][h] \in {stack[s][h], None})
  BY DEF Download, IInv, TypeOK, RunTypeOK
<1>3. LocalRecorded' /\ LocalStands'
  BY <1>1, <1>2 DEF mirror, IInv, TypeOK, StackTypeOK, StackRecorded, LocalRecorded, LocalStands,
                    IsSigned, IsRecorded
<1>4. ListingStands'
  BY <1>1 DEF IInv, ListingStands
<1>5. TaskRecorded' /\ TaskProgress' /\ TaskIsMissing' /\ TaskStands'
  BY <1>1 DEF mirror, IInv, TaskRecorded, TaskProgress, TaskIsMissing, TaskStands,
              IsSigned, IsRecorded, Blob
<1> QED
  BY <1>1, <1>3, <1>4, <1>5, MirrorKept, TopKept DEF IInv

LEMMA PlanStep ==
    ASSUME IInv, Plan, TypeOK'
    PROVE  IInv'
<1>1. StackRecorded' /\ BlobsSigned' /\ TopGood'
  BY MirrorKept, TopKept DEF Plan
<1>2. CASE MissingAtTop = {}
  BY <1>1, <1>2, EndRunClean DEF Plan, IInv
<1>3. CASE MissingAtTop # {}
  <2>1. pc' = "copy" /\ local' = NoManifests /\ UNCHANGED <<mirror, top, blobs>> /\ pc = "sync"
    BY <1>3 DEF Plan
  <2>2. \A h \in Hashes : task'[h] # None =>
            /\ h \notin listedTop /\ HaveStacks(h) # {}
            /\ task'[h] = [copy |-> local[FirstStack(h)][h], step |-> "queued"]
    BY <1>3 DEF Plan, MissingAtTop
  <2>3. \A h \in Hashes : task'[h] # None =>
            /\ FirstStack(h) \in Stacks /\ local[FirstStack(h)][h] # None
            /\ task'[h].copy = local[FirstStack(h)][h] /\ task'[h].step = "queued"
    <3> SUFFICES ASSUME NEW h \in Hashes, task'[h] # None
                 PROVE  /\ FirstStack(h) \in Stacks /\ local[FirstStack(h)][h] # None
                        /\ task'[h].copy = local[FirstStack(h)][h] /\ task'[h].step = "queued"
      OBVIOUS
    <3>1. FirstStack(h) \in Stacks /\ local[FirstStack(h)][h] # None
      BY <2>2, FirstStackHas DEF IInv
    <3>2. task'[h] = [copy |-> local[FirstStack(h)][h], step |-> "queued"]
      BY <2>2
    <3> QED
      BY <3>1, <3>2
  <2>4. LocalRecorded' /\ LocalStands' /\ ListingStands'
    BY <2>1 DEF NoManifests, LocalRecorded, LocalStands, ListingStands, IsSigned
  <2>5. \A h \in Hashes : task'[h] # None /\ IsSigned(task'[h].copy) =>
            /\ IsRecorded(h, task'[h].copy)
            /\ NoRebuild => stack[task'[h].copy.stack][h] = task'[h].copy
    BY <2>3 DEF IInv, LocalRecorded, LocalStands
  <2>8. TaskRecorded' /\ TaskStands'
    BY <2>1, <2>5 DEF mirror, TaskRecorded, TaskStands, IsSigned, IsRecorded, NoRebuild
  <2>6. TaskProgress'
    BY <2>1, <2>3 DEF TaskProgress
  <2>7. TaskIsMissing'
    BY <2>1, <2>2 DEF IInv, ListingStands, TaskIsMissing
  <2> QED
    BY <1>1, <2>4, <2>6, <2>7, <2>8 DEF IInv
<1> QED
  BY <1>2, <1>3

(* A task moves on to its next step.                                       *)
LEMMA AdvanceStep ==
    ASSUME IInv, NEW h \in Hashes, task[h] # None, pc = "copy", NEW step \in Steps,
           Advance(h, step), UNCHANGED <<mirror, top, pc>>, blobs \subseteq blobs',
           step # "queued" => task[h].copy.sig = "rep",
           step \in {"archived", "described"} => Blob(h, task[h].copy, "archive") \in blobs',
           step = "described" => Blob(h, task[h].copy, "meta") \in blobs'
    PROVE  TaskRecorded' /\ TaskProgress' /\ TaskIsMissing' /\ TaskStands'
<1>1. \A g \in Hashes : g # h => task'[g] = task[g]
  BY DEF Advance, IInv, TypeOK, RunTypeOK
<1>2. task[h] \in Tasks
  BY DEF IInv, TypeOK, RunTypeOK
<1>3. task'[h].copy = task[h].copy /\ task'[h].step = step
  BY <1>2 DEF Advance, IInv, TypeOK, RunTypeOK, Tasks
<1>4. \A g \in Hashes : task'[g] # None => task[g] # None /\ task'[g].copy = task[g].copy
  BY <1>1, <1>3
<1>5. TaskRecorded'
  BY <1>4 DEF IInv, TaskRecorded, IsSigned, IsRecorded, mirror
<1>6. TaskProgress'
  BY <1>1, <1>3 DEF IInv, TaskProgress, Blob
<1>7. TaskIsMissing' /\ TaskStands'
  BY <1>4 DEF IInv, TaskIsMissing, TaskStands, IsSigned, mirror
<1> QED
  BY <1>5, <1>6, <1>7

LEMMA VerifyStep ==
    ASSUME IInv, NEW h \in Hashes, Verify(h), TypeOK'
    PROVE  IInv'
<1>1. UNCHANGED <<mirror, top, blobs, pc, local, listedTop>> /\ task[h] # None /\ pc = "copy"
  BY DEF Verify, AtStep
<1>2. StackRecorded' /\ LocalRecorded' /\ LocalStands' /\ BlobsSigned' /\ TopGood'
  BY <1>1, MirrorKept, LocalKept, TopKept
<1>3. ListingStands'
  BY <1>1 DEF ListingStands
<1>4. CASE SignatureOK(h)
  <2>1. Advance(h, "verified") /\ task[h].copy.sig = "rep"
    BY <1>4 DEF Verify, SignatureOK
  <2>2. TaskRecorded' /\ TaskProgress' /\ TaskIsMissing' /\ TaskStands'
    BY <1>1, <2>1, AdvanceStep DEF Steps
  <2> QED
    BY <1>2, <1>3, <2>2 DEF IInv
<1>5. CASE ~SignatureOK(h)
  <2>1. \A g \in Hashes : task'[g] \in {task[g], None}
    BY <1>5 DEF Verify, Drop, IInv, TypeOK, RunTypeOK
  <2>2. TaskRecorded' /\ TaskProgress' /\ TaskIsMissing' /\ TaskStands'
    BY <1>1, <2>1, TasksKept
  <2> QED
    BY <1>2, <1>3, <2>2 DEF IInv
<1> QED
  BY <1>4, <1>5

LEMMA CopyBlobStep ==
    ASSUME IInv, NEW h \in Hashes, TypeOK', CopyArchive(h) \/ CopyMeta(h)
    PROVE  IInv'
<1>1. /\ UNCHANGED <<mirror, top, pc, local, listedTop>> /\ task[h] # None /\ pc = "copy"
      /\ task[h].step # "queued"
  BY DEF CopyArchive, CopyMeta, CopyBlob, AtStep
<1>2. task[h].copy.sig = "rep" /\ task[h] \in Tasks
  BY <1>1 DEF IInv, TaskProgress, TypeOK, RunTypeOK
<1>3. \/ blobs' = blobs \union {Blob(h, task[h].copy, "archive")}
      \/ blobs' = blobs \union {Blob(h, task[h].copy, "meta")}
  BY DEF CopyArchive, CopyMeta, CopyBlob, Blob
<1>4. StackRecorded' /\ LocalRecorded' /\ LocalStands'
  BY <1>1, MirrorKept, LocalKept
<1>5. ListingStands'
  BY <1>1 DEF ListingStands
<1>6. BlobsSigned'
  <2>1. <<h, task[h].copy.stack, task[h].copy.build>> \in signed
    BY <1>1, <1>2, NoneAssumption DEF IInv, TaskRecorded, IsSigned, IsRecorded, Tasks
  <2>2. \A b \in blobs' : b \in blobs \/ \E kind \in {"archive", "meta"} : b = Blob(h, task[h].copy, kind)
    BY <1>3
  <2>3. \A kind : /\ Blob(h, task[h].copy, kind).hash = h
                  /\ Blob(h, task[h].copy, kind).stack = task[h].copy.stack
                  /\ Blob(h, task[h].copy, kind).build = task[h].copy.build
    BY DEF Blob
  <2>4. \A b \in blobs' : <<b.hash, b.stack, b.build>> \in signed
    BY <2>1, <2>2, <2>3 DEF IInv, BlobsSigned
  <2> QED
    BY <1>1, <2>4 DEF BlobsSigned, mirror
<1>7. TopGood'
  BY <1>1, <1>3 DEF IInv, TopGood, TopSigned, TopComplete, BlobsOf
<1>8. CASE CopyArchive(h)
  <2>1. Advance(h, "archived") /\ Blob(h, task[h].copy, "archive") \in blobs'
    BY <1>8 DEF CopyArchive, CopyBlob, Blob
  <2>2. TaskRecorded' /\ TaskProgress' /\ TaskIsMissing' /\ TaskStands'
    BY <1>1, <1>2, <1>3, <2>1, AdvanceStep DEF Steps
  <2> QED
    BY <1>4, <1>5, <1>6, <1>7, <2>2 DEF IInv
<1>9. CASE CopyMeta(h)
  <2>1. Advance(h, "described") /\ Blob(h, task[h].copy, "meta") \in blobs'
    BY <1>9 DEF CopyMeta, CopyBlob, Blob
  <2>2. Blob(h, task[h].copy, "archive") \in blobs'
    BY <1>1, <1>3, <1>9 DEF CopyMeta, CopyBlob, AtStep, IInv, TaskProgress
  <2>3. TaskRecorded' /\ TaskProgress' /\ TaskIsMissing' /\ TaskStands'
    BY <1>1, <1>2, <1>3, <2>1, <2>2, AdvanceStep DEF Steps
  <2> QED
    BY <1>4, <1>5, <1>6, <1>7, <2>3 DEF IInv
<1> QED
  BY <1>8, <1>9

(* With no rebuild, the manifest the run copies is the one it verified.    *)
LEMMA CopiedIsVerified ==
    ASSUME IInv, NEW h \in Hashes, CopyManifest(h), NoRebuild
    PROVE  /\ top'[h] = task[h].copy /\ top'[h] \in Copies /\ top'[h].sig = "rep"
           /\ BlobsOf(h, top'[h]) \subseteq blobs
<1>1. task[h] # None /\ task[h].step = "described" /\ task[h] \in Tasks
  BY DEF CopyManifest, AtStep, IInv, TypeOK, RunTypeOK
<1>2. task[h].copy \in Copies /\ task[h].copy.sig = "rep"
  BY <1>1 DEF IInv, TaskProgress, Tasks
<1>3. stack[task[h].copy.stack][h] = task[h].copy
  BY <1>1, <1>2, NoneAssumption DEF IInv, TaskStands, IsSigned
<1>4. top'[h] = task[h].copy
  BY <1>3 DEF CopyManifest, CurrentManifest, IInv, TypeOK, TopTypeOK
<1>5. BlobsOf(h, task[h].copy) \subseteq blobs
  BY <1>1 DEF IInv, TaskProgress, BlobsOf, Blob
<1> QED
  BY <1>2, <1>4, <1>5

LEMMA CopyManifestStep ==
    ASSUME IInv, NEW h \in Hashes, CopyManifest(h), TypeOK'
    PROVE  IInv'
<1>1. UNCHANGED <<mirror, blobs, pc, local, listedTop>> /\ pc = "copy"
  BY DEF CopyManifest, AtStep
<1>2. \A g \in Hashes : g # h => top'[g] = top[g] /\ task'[g] = task[g]
  BY DEF CopyManifest, Drop, IInv, TypeOK, TopTypeOK, RunTypeOK
<1>3. task'[h] = None
  BY DEF CopyManifest, Drop, IInv, TypeOK, RunTypeOK
<1>4. StackRecorded' /\ LocalRecorded' /\ LocalStands'
  BY <1>1, MirrorKept, LocalKept
<1>5. ListingStands'
  BY <1>1 DEF ListingStands
<1>6. TaskRecorded' /\ TaskProgress' /\ TaskIsMissing' /\ TaskStands'
  <2>1. \A g \in Hashes : task'[g] # None => g # h /\ pc' = "copy"
    BY <1>1, <1>3
  <2> QED
    BY <1>1, <1>2, <1>3, <2>1, TasksKept
<1>7. BlobsSigned'
  BY <1>1 DEF IInv, BlobsSigned, mirror
<1>8. TopGood'
  BY <1>1, <1>2, CopiedIsVerified DEF IInv, TopGood, TopSigned, TopComplete, BlobsOf, NoRebuild
<1> QED
  BY <1>4, <1>5, <1>6, <1>7, <1>8 DEF IInv

LEMMA StepInvariant == IInv /\ [Next]_vars => IInv'
<1> SUFFICES ASSUME IInv, [Next]_vars PROVE IInv'
  OBVIOUS
<1>0. TypeOK'
  BY StepTyped DEF IInv
<1>1. ASSUME NEW s \in Stacks, NEW h \in Hashes, Build(s, h) PROVE IInv'
  BY <1>0, <1>1, BuildStep
<1>2. ASSUME NEW s \in Stacks, Sign(s) PROVE IInv'
  BY <1>0, <1>2, SignStep
<1>3. CASE Crash
  BY <1>0, <1>3, EndRunClean, MirrorKept, TopKept DEF Crash, IInv
<1>4. CASE List
  <2>1. ListingStands'
    BY <1>4 DEF List, TopListing, ListingStands
  <2>2. UNCHANGED <<mirror, top, blobs, local, task>> /\ \A h \in Hashes : task[h] = None
    BY <1>4 DEF List, IInv, TaskProgress
  <2>3. TaskRecorded' /\ TaskProgress' /\ TaskIsMissing' /\ TaskStands'
    BY <2>2, TasksKept
  <2> QED
    BY <1>0, <2>1, <2>2, <2>3, MirrorKept, LocalKept, TopKept DEF IInv
<1>5. ASSUME NEW s \in Stacks, SyncStack(s) \/ SyncPartly(s) PROVE IInv'
  BY <1>0, <1>5, DownloadStep DEF SyncStack, SyncPartly
<1>6. CASE Plan
  BY <1>0, <1>6, PlanStep
<1>7. ASSUME NEW h \in Hashes, Work(h) PROVE IInv'
  BY <1>0, <1>7, VerifyStep, CopyBlobStep, CopyManifestStep DEF Work
<1>8. ASSUME NEW h \in Hashes, FailCopy(h) PROVE IInv'
  <2>1. UNCHANGED <<mirror, top, blobs, pc, local, listedTop>> /\ pc = "copy"
    BY <1>8 DEF FailCopy
  <2>2. \A g \in Hashes : task'[g] \in {task[g], None}
    BY <1>8 DEF FailCopy, Drop, IInv, TypeOK, RunTypeOK
  <2>3. TaskRecorded' /\ TaskProgress' /\ TaskIsMissing' /\ TaskStands' /\ ListingStands'
    BY <2>1, <2>2, TasksKept DEF ListingStands
  <2> QED
    BY <1>0, <2>1, <2>3, MirrorKept, LocalKept, TopKept DEF IInv
<1>9. CASE JoinWorkers
  <2>1. UNCHANGED <<mirror, top, blobs, local, task>> /\ \A h \in Hashes : task[h] = None
    BY <1>9 DEF JoinWorkers
  <2>2. TaskRecorded' /\ TaskProgress' /\ TaskIsMissing' /\ TaskStands' /\ ListingStands'
    BY <1>9, <2>1, TasksKept DEF JoinWorkers, ListingStands
  <2> QED
    BY <1>0, <2>1, <2>2, MirrorKept, LocalKept, TopKept DEF IInv
<1>10. CASE UpdateIndex
  BY <1>0, <1>10, EndRunClean, MirrorKept, TopKept DEF UpdateIndex, IInv
<1>11. CASE UNCHANGED vars
  <2>1. UNCHANGED <<mirror, top, blobs, pc, local, listedTop, task>>
    BY <1>11 DEF vars, run
  <2>2. TaskRecorded' /\ TaskProgress' /\ TaskIsMissing' /\ TaskStands' /\ ListingStands'
    BY <2>1, TasksKept DEF IInv, TaskProgress, ListingStands
  <2> QED
    BY <1>0, <2>1, <2>2, MirrorKept, LocalKept, TopKept DEF IInv
<1> QED
  BY <1>1, <1>2, <1>3, <1>4, <1>5, <1>6, <1>7, <1>8, <1>9, <1>10, <1>11
  DEF Next, CINext, RunNext, FaultNext

THEOREM Invariance == Spec => []IInv
BY InitInvariant, StepInvariant, PTL DEF Spec

(* Even if the stack builds the hash again between the verification and    *)
(* the copies, the blobs that are copied are those the signature covers.   *)
THEOREM SafeBlobsSigned == Spec => []BlobsSigned
BY Invariance, PTL DEF IInv

(* With no rebuild, however the workers, CI and the signing job interleave *)
(* and whatever fails, only signed and complete binaries get to the top.   *)
THEOREM SafeTopSigned == ASSUME NoRebuild PROVE Spec => []TopSigned
<1>1. IInv => TopSigned
  BY DEF IInv, TopGood
<1> QED
  BY <1>1, Invariance, PTL

THEOREM SafeTopComplete == ASSUME NoRebuild PROVE Spec => []TopComplete
<1>1. IInv => TopComplete
  BY DEF IInv, TopGood
<1> QED
  BY <1>1, Invariance, PTL

(***************************************************************************)
(* The abstract mirror.                                                    *)
(***************************************************************************)
(* Steps that leave the top-level mirror alone.                            *)
LEMMA OnlyCopyManifestPublishes ==
    ASSUME IInv, Next, \A h \in Hashes : ~CopyManifest(h)
    PROVE  UNCHANGED top
BY DEF Next, CINext, RunNext, FaultNext, Work, Build, Sign, List, Plan, JoinWorkers,
       UpdateIndex, SyncStack, SyncPartly, Download, Verify, CopyArchive, CopyMeta, CopyBlob,
       FailCopy, Crash

LEMMA OnlyUpdateIndexIndexes ==
    ASSUME Next, ~UpdateIndex
    PROVE  UNCHANGED index
BY DEF Next, CINext, RunNext, FaultNext, Work, Build, Sign, List, Plan, JoinWorkers,
       SyncStack, SyncPartly, Download, Verify, CopyArchive, CopyMeta, CopyBlob,
       CopyManifest, FailCopy, Crash

LEMMA CopiesWhatIsMissing ==
    ASSUME IInv, NEW h \in Hashes, CopyManifest(h)
    PROVE  /\ top[h] = None /\ UNCHANGED index
           /\ top' = [top EXCEPT ![h] = CurrentManifest(h)]
BY DEF IInv, TaskIsMissing, CopyManifest, AtStep

(* The listing a run works from is hours old by the time it copies; still  *)
(* nothing that is published is ever replaced.                             *)
THEOREM SafePublishedOnce == Spec => PublishedOnce
<1>1. IInv /\ [Next]_vars => [PublishedStays]_vars
  <2> SUFFICES ASSUME IInv, Next PROVE PublishedStays
    OBVIOUS
  <2>1. CASE \E h \in Hashes : CopyManifest(h)
    BY <2>1, CopiesWhatIsMissing DEF PublishedStays, IInv, TypeOK, TopTypeOK
  <2>2. CASE \A h \in Hashes : ~CopyManifest(h)
    BY <2>2, OnlyCopyManifestPublishes DEF PublishedStays
  <2> QED
    BY <2>1, <2>2
<1> QED
  BY <1>1, Invariance, PTL DEF Spec, PublishedOnce

Mirror == [h \in Hashes |-> Served(h)]

(* What is served is what the manifest names.                              *)
LEMMA MirrorIsTop == IInv /\ NoRebuild => Mirror = top
BY DEF IInv, TypeOK, TopTypeOK, TopGood, TopComplete, Mirror, Served

LEMMA MirrorIsTopNext == IInv' /\ NoRebuild => Mirror' = top'
BY DEF IInv, TypeOK, TopTypeOK, TopGood, TopComplete, Mirror, Served, NoRebuild, BlobsOf

LEMMA InitRefines == Init => Top!Init
BY DEF Init, Top!Init, Served

LEMMA StepRefines ==
    ASSUME NoRebuild, IInv, IInv', [Next]_vars
    PROVE  [Top!Next]_(Top!vars)
<1>1. Mirror = top /\ Mirror' = top'
  BY MirrorIsTop, MirrorIsTopNext
<1>2. ASSUME NEW h \in Hashes, CopyManifest(h) PROVE Top!Publish(h)
  <2>1. top[h] = None /\ UNCHANGED index /\ top' = [top EXCEPT ![h] = CurrentManifest(h)]
    BY <1>2, CopiesWhatIsMissing
  <2>2. top'[h] \in GoodCopies /\ top'[h] = CurrentManifest(h)
    BY <1>2, <2>1, CopiedIsVerified DEF GoodCopies, IInv, TypeOK, TopTypeOK
  <2> QED
    BY <1>1, <2>1, <2>2 DEF Top!Publish, Mirror
<1>3. CASE UpdateIndex
  <2>1. UNCHANGED top /\ index' = {h \in Hashes : top[h] # None}
    BY <1>3 DEF UpdateIndex, IndexContents
  <2>2. {h \in Hashes : top[h] # None} = {h \in Hashes : Mirror[h] # None}
    BY <1>1
  <2> QED
    BY <1>1, <2>1, <2>2 DEF Top!Next, Top!Reindex, Top!Published, Mirror
<1>4. CASE Next /\ ~UpdateIndex /\ \A h \in Hashes : ~CopyManifest(h)
  BY <1>1, <1>4, OnlyCopyManifestPublishes, OnlyUpdateIndexIndexes DEF Top!vars, Mirror
<1>5. CASE UNCHANGED vars
  BY <1>1, <1>5 DEF vars, Top!vars, Mirror
<1> QED
  BY <1>2, <1>3, <1>4, <1>5 DEF Top!Next

(* With no rebuild, the job with its threads, faults and repeated runs is  *)
(* an implementation of the abstract mirror.                               *)
THEOREM Refinement == ASSUME NoRebuild PROVE Spec => ImplementsTopMirror
<1>1. IInv /\ IInv' /\ [Next]_vars => [Top!Next]_(Top!vars)
  BY StepRefines
<1> QED
  BY <1>1, InitRefines, Invariance, PTL DEF Spec, ImplementsTopMirror, Top!Spec

=============================================================================
