-------------------------- MODULE SyncBridgeProofs --------------------------
(***************************************************************************)
(* Proofs about SyncBridge: type correctness and the safety properties,    *)
(* for any set of pull requests and any bounds.                            *)
(***************************************************************************)
EXTENDS SyncBridge, SequenceTheorems, TLAPS

(***************************************************************************)
(* Lemmas about the operators.                                             *)
(***************************************************************************)
LEMMA PipelineOlder ==
    ASSUME NEW r \in Pipelines
    PROVE  /\ [r EXCEPT !.age = @ + 1] \in Pipelines
           /\ [r EXCEPT !.age = @ + 1].sha = r.sha
           /\ [r EXCEPT !.age = @ + 1].status = r.status
<1>1. [r EXCEPT !.age = @ + 1] \in Pipelines
  BY DEF Pipelines
<1> QED
  BY <1>1 DEF Pipelines

(* Updating a pipeline changes one status and reorders the ages.           *)
LEMMA TouchLemma ==
    ASSUME pipelines \in Seq(Pipelines), NEW i \in DOMAIN pipelines, NEW s \in Statuses
    PROVE  /\ Touch(i, s) \in Seq(Pipelines)
           /\ DOMAIN Touch(i, s) = DOMAIN pipelines
           /\ \A j \in DOMAIN pipelines :
                 /\ Touch(i, s)[j].sha = pipelines[j].sha
                 /\ Touch(i, s)[j].status = IF j = i THEN s ELSE pipelines[j].status
<1>1. PICK n \in Nat : pipelines \in [1 .. n -> Pipelines]
  BY SeqDef
<1>2. \A j \in 1 .. n :
          /\ Touch(i, s)[j] \in Pipelines
          /\ Touch(i, s)[j].sha = pipelines[j].sha
          /\ Touch(i, s)[j].status = IF j = i THEN s ELSE pipelines[j].status
  <2> SUFFICES ASSUME NEW j \in 1 .. n
               PROVE  /\ Touch(i, s)[j] \in Pipelines
                      /\ Touch(i, s)[j].sha = pipelines[j].sha
                      /\ Touch(i, s)[j].status = IF j = i THEN s ELSE pipelines[j].status
    OBVIOUS
  <2>1. pipelines[j] \in Pipelines
    BY <1>1
  <2>2. Touch(i, s)[j] = IF j = i THEN [sha |-> pipelines[i].sha, status |-> s, age |-> 0]
                         ELSE IF pipelines[j].age < pipelines[i].age
                         THEN [pipelines[j] EXCEPT !.age = @ + 1]
                         ELSE pipelines[j]
    BY <1>1 DEF Touch
  <2>3. CASE j = i
    BY <2>1, <2>2, <2>3 DEF Pipelines
  <2>4. CASE j # i /\ pipelines[j].age < pipelines[i].age
    BY <2>1, <2>2, <2>4, PipelineOlder
  <2>5. CASE j # i /\ ~(pipelines[j].age < pipelines[i].age)
    BY <2>1, <2>2, <2>5
  <2> QED
    BY <2>3, <2>4, <2>5
<1>3. DOMAIN Touch(i, s) = 1 .. n /\ DOMAIN pipelines = 1 .. n
  BY <1>1 DEF Touch
<1>4. Touch(i, s) \in [1 .. n -> Pipelines]
  BY <1>1, <1>2 DEF Touch
<1> QED
  BY <1>2, <1>3, <1>4, SeqDef

(* A new pipeline comes last, is not completed, and leaves the others as   *)
(* they were but for their ages.                                           *)
LEMMA NewPipelineLemma ==
    ASSUME pipelines \in Seq(Pipelines), NEW c \in Commits
    PROVE  /\ NewPipeline(c) \in Seq(Pipelines)
           /\ \A j \in DOMAIN NewPipeline(c) :
                 \/ NewPipeline(c)[j].status = "created"
                 \/ /\ j \in DOMAIN pipelines
                    /\ NewPipeline(c)[j].sha = pipelines[j].sha
                    /\ NewPipeline(c)[j].status = pipelines[j].status
           /\ \A j \in DOMAIN pipelines :
                 j \in DOMAIN NewPipeline(c) /\ NewPipeline(c)[j].sha = pipelines[j].sha
<1> DEFINE old == [j \in DOMAIN pipelines |-> [pipelines[j] EXCEPT !.age = @ + 1]]
           new == [sha |-> c, status |-> "created", age |-> 0]
<1>1. PICK n \in Nat : pipelines \in [1 .. n -> Pipelines]
  BY SeqDef
<1>2. new \in Pipelines
  BY DEF Pipelines, Statuses, Live
<1>3. \A j \in 1 .. n :
          /\ old[j] \in Pipelines
          /\ old[j].sha = pipelines[j].sha
          /\ old[j].status = pipelines[j].status
  BY <1>1, PipelineOlder
<1>4. DOMAIN old = 1 .. n /\ DOMAIN pipelines = 1 .. n
  BY <1>1
<1>5. old \in [1 .. n -> Pipelines]
  BY <1>1, <1>3
<1>6. old \in Seq(Pipelines)
  BY <1>5, SeqDef
<1>7. NewPipeline(c) = Append(old, new)
  BY DEF NewPipeline
<1> HIDE DEF old, new
<1>8. /\ Append(old, new) \in Seq(Pipelines)
      /\ DOMAIN Append(old, new) = 1 .. (n + 1)
      /\ \A j \in 1 .. n : Append(old, new)[j] = old[j]
      /\ Append(old, new)[n + 1] = new
  BY <1>2, <1>4, <1>5, <1>6, AppendProperties, LenProperties
<1>9. new.status = "created"
  BY DEF new
<1> QED
  BY <1>3, <1>4, <1>7, <1>8, <1>9

(***************************************************************************)
(* Type correctness.                                                       *)
(***************************************************************************)
LEMMA DefaultsTyped ==
    /\ 0 \in Commits /\ FirstHead \in Heads
    /\ Pull(FirstHead, FALSE, NoBranch) \in Pulls
BY BoundsAssumption DEF Commits, FirstHead, Heads, Pull, Pulls, MaybeBranch

(* A run that ends, however it ends, leaves the next one well typed.       *)
LEMMA EndRunTyped == EndRun => RunTypeOK'
BY DefaultsTyped DEF EndRun, RunTypeOK, MaybeBranch

LEMMA MergedHeadTyped ==
    ASSUME NEW h \in Heads, NEW c \in Commits, NEW v \in {"merge", "github"}
    PROVE  [head |-> h, onto |-> c, via |-> v] \in Branches
BY DEF Branches

LEMMA InitTyped == Init => TypeOK
<1> SUFFICES ASSUME Init PROVE TypeOK
  OBVIOUS
<1>1. GitHubTypeOK
  BY DefaultsTyped DEF Init, GitHubTypeOK, MaybeBranch
<1>2. PICK s \in FirstStatus : pipelines = << [sha |-> 0, status |-> s, age |-> 0] >>
  BY DEF Init
<1>3. pipelines \in Seq(Pipelines)
  BY <1>2, DefaultsTyped, StatusAssumption DEF Pipelines
<1>4. GitLabTypeOK
  BY <1>3, DefaultsTyped DEF Init, GitLabTypeOK, MaybeBranch
<1>5. RunTypeOK
  BY DefaultsTyped DEF Init, Fresh, RunTypeOK, MaybeBranch
<1> QED
  BY <1>1, <1>4, <1>5, BoundsAssumption DEF Init, TypeOK

LEMMA InterveneTyped ==
    ASSUME TypeOK, NEW kind, Intervene(kind)
    PROVE  ops' \in 0 .. MaxOps
BY BoundsAssumption DEF TypeOK, Intervene

(* What a push makes of GitLab is well typed.                              *)
LEMMA LandTyped ==
    ASSUME TypeOK, NEW P, NEW m, Land(P, m)
    PROVE  GitHubTypeOK' /\ GitLabTypeOK'
<1>1. GitHubTypeOK'
  BY DEF TypeOK, GitHubTypeOK, Land, github
<1>2. glPR' \in [PRs -> MaybeBranch]
  BY DEF TypeOK, GitLabTypeOK, RunTypeOK, Land
<1>3. CASE m /\ outMain \notin {NoCommit, glMain}
  <2>1. outMain \in Commits
    BY <1>3 DEF TypeOK, RunTypeOK
  <2>2. pipelines' \in Seq(Pipelines)
    BY <1>3, <2>1, NewPipelineLemma DEF TypeOK, GitLabTypeOK, Land
  <2> QED
    BY <1>1, <1>2, <1>3, <2>1, <2>2 DEF TypeOK, GitLabTypeOK, Land
<1>4. CASE ~(m /\ outMain \notin {NoCommit, glMain})
  BY <1>1, <1>2, <1>4 DEF TypeOK, GitLabTypeOK, Land
<1> QED
  BY <1>3, <1>4

(* A pipeline that changes its status leaves GitLab well typed, provided   *)
(* the history does.                                                       *)
LEMMA SetStatusTyped ==
    ASSUME TypeOK, NEW i \in DOMAIN pipelines, NEW from, NEW s \in Statuses,
           SetStatus(i, from, s), everTested' \subseteq Commits
    PROVE  GitHubTypeOK' /\ GitLabTypeOK' /\ RunTypeOK'
<1>1. pipelines' \in Seq(Pipelines)
  BY TouchLemma DEF TypeOK, GitLabTypeOK, SetStatus
<1> QED
  BY <1>1 DEF TypeOK, GitHubTypeOK, GitLabTypeOK, RunTypeOK, SetStatus, github, locals

LEMMA StepTyped == TypeOK /\ [Next]_vars => TypeOK'
<1> SUFFICES ASSUME TypeOK, [Next]_vars PROVE TypeOK'
  OBVIOUS
<1> USE DEF TypeOK
<1>1. CASE MergeToMain
  BY <1>1, BoundsAssumption
  DEF MergeToMain, GitHubTypeOK, GitLabTypeOK, RunTypeOK, gitlab, locals, Commits
<1>2. ASSUME NEW p \in PRs, PushHead(p) PROVE TypeOK'
  <2>1. PICK mb \in 0 .. ghMain :
            ghPR' = [ghPR EXCEPT ![p] = [rev |-> ghPR[p].rev + 1, mb |-> mb]]
    BY <1>2 DEF PushHead
  <2>2. [rev |-> ghPR[p].rev + 1, mb |-> mb] \in Heads
    BY <1>2, BoundsAssumption DEF PushHead, GitHubTypeOK, Heads, Commits
  <2> QED
    BY <1>2, <2>1, <2>2 DEF PushHead, GitHubTypeOK, GitLabTypeOK, RunTypeOK, gitlab, locals
<1>3. ASSUME NEW p \in PRs, ComputeMerge(p) PROVE TypeOK'
  BY <1>3, MergedHeadTyped
  DEF ComputeMerge, GitHubTypeOK, GitLabTypeOK, RunTypeOK, MaybeBranch, gitlab, locals
<1>4. ASSUME NEW p \in PRs, PassChecks(p) PROVE TypeOK'
  <2>1. ghPR[p].rev \in 0 .. MaxRev
    BY DEF GitHubTypeOK, Heads
  <2> QED
    BY <1>4, <2>1 DEF PassChecks, GitHubTypeOK, GitLabTypeOK, RunTypeOK, gitlab, locals
<1>5. ASSUME NEW i \in DOMAIN pipelines, StartPipeline(i) PROVE TypeOK'
  BY <1>5, SetStatusTyped DEF StartPipeline, GitLabTypeOK, Statuses, Live
<1>6. ASSUME NEW i \in DOMAIN pipelines, FinishPipeline(i) PROVE TypeOK'
  <2>1. pipelines[i] \in Pipelines
    BY LenProperties DEF GitLabTypeOK
  <2>2. everTested' \subseteq Commits
    BY <1>6, <2>1 DEF FinishPipeline, GitLabTypeOK, Pipelines
  <2> QED
    BY <1>6, <2>2, SetStatusTyped DEF FinishPipeline, Statuses
<1>7. ASSUME NEW i \in DOMAIN pipelines, AutoCancel(i) PROVE TypeOK'
  BY <1>7, SetStatusTyped DEF AutoCancel, GitLabTypeOK, Statuses
<1>8. ASSUME NEW i \in DOMAIN pipelines, CancelPipeline(i) PROVE TypeOK'
  BY <1>8, SetStatusTyped, InterveneTyped DEF CancelPipeline, GitLabTypeOK, Statuses
<1>9. ASSUME NEW i \in DOMAIN pipelines, RetryPipeline(i) PROVE TypeOK'
  BY <1>9, SetStatusTyped, InterveneTyped DEF RetryPipeline, GitLabTypeOK, Statuses, Live
<1>10. CASE RerunPipeline
  BY <1>10, NewPipelineLemma, InterveneTyped
  DEF RerunPipeline, GitHubTypeOK, GitLabTypeOK, RunTypeOK, github, locals
<1>11. ASSUME NEW p \in PRs, DeleteBranch(p) PROVE TypeOK'
  BY <1>11, InterveneTyped
  DEF DeleteBranch, GitHubTypeOK, GitLabTypeOK, RunTypeOK, MaybeBranch, github, locals
<1>12. CASE Setup
  BY <1>12 DEF Setup, GitHubTypeOK, GitLabTypeOK, RunTypeOK, github, gitlab
<1>13. CASE FetchMain
  BY <1>13 DEF FetchMain, GitHubTypeOK, GitLabTypeOK, RunTypeOK, github, gitlab
<1>14. CASE QueryPipelines
  <2>1. \A i \in DOMAIN pipelines : i \in Nat /\ pipelines[i] \in Pipelines
    BY LenProperties DEF GitLabTypeOK
  <2>2. KeptDone \subseteq DOMAIN pipelines
    BY DEF KeptDone, Kept, Page
  <2>3. tested' \in Commits \union {NoCommit}
    BY <1>14, <2>1, <2>2 DEF QueryPipelines, Pipelines
  <2>4. busy' \in BOOLEAN /\ watch' \subseteq Nat /\ unread' \subseteq PRs
    BY <1>14, <2>1 DEF QueryPipelines, Busy, Page
  <2> QED
    BY <1>14, <2>3, <2>4
    DEF QueryPipelines, GitHubTypeOK, GitLabTypeOK, RunTypeOK, github, gitlab
<1>15. ASSUME NEW p \in PRs, ReadPull(p) PROVE TypeOK'
  <2>1. \A u \in BOOLEAN : Pull(ghPR[p], u, ghMerge[p]) \in Pulls
    BY DEF GitHubTypeOK, Pull, Pulls
  <2>2. pulls' \in [PRs -> Pulls]
    BY <1>15, <2>1 DEF ReadPull, RunTypeOK
  <2> QED
    BY <1>15, <2>2 DEF ReadPull, GitHubTypeOK, GitLabTypeOK, RunTypeOK, github, gitlab
<1>16. ASSUME NEW p \in PRs, PassOver(p) PROVE TypeOK'
  BY <1>16 DEF PassOver, GitHubTypeOK, GitLabTypeOK, RunTypeOK, github, gitlab
<1>17. ASSUME NEW p \in PRs, MergeLocally(p) PROVE TypeOK'
  <2>1. tested \in Commits
    BY <1>17 DEF MergeLocally, BaseTested, RunTypeOK
  <2>2. [head |-> ghPR[p], onto |-> tested, via |-> "merge"] \in MaybeBranch
    BY <2>1, MergedHeadTyped DEF GitHubTypeOK, MaybeBranch
  <2> QED
    BY <1>17, <2>2 DEF MergeLocally, GitHubTypeOK, GitLabTypeOK, RunTypeOK, github, gitlab
<1>18. ASSUME NEW p \in PRs, NothingTested(p) PROVE TypeOK'
  BY <1>18, EndRunTyped DEF NothingTested, GitHubTypeOK, GitLabTypeOK, github, gitlab
<1>19. ASSUME NEW p \in PRs, TakeGitHubMerge(p) PROVE TypeOK'
  <2>1. pulls[p].merge \in MaybeBranch
    BY DEF RunTypeOK, Pulls
  <2> QED
    BY <1>19, <2>1 DEF TakeGitHubMerge, GitHubTypeOK, GitLabTypeOK, RunTypeOK, github, gitlab
<1>20. CASE FetchRefs
  <2>1. outMain' \in Commits \union {NoCommit}
    BY <1>20 DEF FetchRefs, MainToPush, GitHubTypeOK
  <2> QED
    BY <1>20, <2>1, DefaultsTyped
    DEF FetchRefs, GitHubTypeOK, GitLabTypeOK, RunTypeOK, MaybeBranch, github, gitlab
<1>21. CASE Push
  BY <1>21, LandTyped, EndRunTyped DEF Push
<1>22. CASE PushPartly
  BY <1>22, LandTyped, InterveneTyped DEF PushPartly, RunTypeOK, locals
<1>23. CASE Abort
  BY <1>23, EndRunTyped, InterveneTyped DEF Abort, GitHubTypeOK, GitLabTypeOK, github, gitlab
<1>24. CASE UNCHANGED vars
  BY <1>24 DEF vars, GitHubTypeOK, GitLabTypeOK, RunTypeOK, github, gitlab, locals
<1> QED
  BY <1>1, <1>2, <1>3, <1>4, <1>5, <1>6, <1>7, <1>8, <1>9, <1>10, <1>11, <1>12, <1>13,
     <1>14, <1>15, <1>16, <1>17, <1>18, <1>19, <1>20, <1>21, <1>22, <1>23, <1>24
  DEF Next, GitHubNext, GitLabNext, SyncNext, ProcessPR

(* Whatever GitHub, GitLab, the operators and the failures do, the job     *)
(* never takes an absent commit for a commit nor pushes one.               *)
THEOREM TypeCorrect == Spec => []TypeOK
BY InitTyped, StepTyped, PTL DEF Spec

(***************************************************************************)
(* The inductive invariant.                                                *)
(***************************************************************************)
(* Every completed pipeline is in the history.                             *)
CompletedRecorded ==
    \A i \in DOMAIN pipelines : pipelines[i].status \in Done => pipelines[i].sha \in everTested

(* What the run merges onto has been tested.                               *)
TestedRecorded == tested # NoCommit => tested \in everTested

(* A merge waiting to be pushed already has what a pushed one must have.   *)
OutboxGood ==
    \A p \in PRs : Merged(outbox[p]) =>
        /\ outbox[p].onto \in everTested
        /\ <<p, outbox[p].head.rev>> \in passed

(* Merge commits made by GitHub are not merges of this job.                *)
GitHubMerges == \A p \in PRs : ~Merged(ghMerge[p]) /\ ~Merged(pulls[p].merge)

(* Until it pushes, what the run saw on GitLab is still there, except for  *)
(* branches deleted since.                                                 *)
BeforePush == pc \in {"main", "query", "prs"}
SeenStands == BeforePush => \A p \in PRs : glPR[p] \in {seen[p], NoBranch}

(* A merge waiting to be pushed replaces nothing, itself (a push that was  *)
(* tried before), or another head.                                         *)
OutboxNew ==
    \A p \in PRs : Merged(outbox[p]) =>
        \/ glPR[p] = NoBranch
        \/ glPR[p] = outbox[p]
        \/ glPR[p].head # outbox[p].head

IInv ==
    /\ TypeOK /\ CompletedRecorded /\ TestedRecorded /\ OutboxGood /\ GitHubMerges
    /\ SeenStands /\ OutboxNew /\ PushedOntoTested /\ PushedWasChecked

LEMMA InitInvariant == Init => IInv
<1> SUFFICES ASSUME Init PROVE IInv
  OBVIOUS
<1>1. TypeOK
  BY InitTyped
<1>2. PICK s \in FirstStatus :
          /\ pipelines = << [sha |-> 0, status |-> s, age |-> 0] >>
          /\ everTested = IF s \in Done THEN {0} ELSE {}
  BY DEF Init
<1>3. CompletedRecorded
  BY <1>2 DEF CompletedRecorded
<1>4. TestedRecorded /\ OutboxGood /\ GitHubMerges /\ SeenStands /\ OutboxNew
  BY DEF Init, Fresh, Pull, Merged, BeforePush,
         TestedRecorded, OutboxGood, GitHubMerges, SeenStands, OutboxNew
<1>5. PushedOntoTested /\ PushedWasChecked
  BY DEF Init, Merged, PushedOntoTested, PushedWasChecked
<1> QED
  BY <1>1, <1>3, <1>4, <1>5 DEF IInv

(* A step that leaves the branches and the outbox alone, and forgets no    *)
(* test and no check.                                                      *)
LEMMA BranchesKept ==
    ASSUME IInv, UNCHANGED <<glPR, outbox>>,
           everTested \subseteq everTested', passed \subseteq passed'
    PROVE  OutboxGood' /\ OutboxNew' /\ PushedOntoTested' /\ PushedWasChecked'
BY DEF IInv, OutboxGood, OutboxNew, PushedOntoTested, PushedWasChecked, Merged

(* The run moves on within the part that precedes the push.                *)
LEMMA SeenKept ==
    ASSUME IInv, UNCHANGED glPR, BeforePush' => (BeforePush /\ UNCHANGED seen)
    PROVE  SeenStands'
BY DEF IInv, SeenStands

(* The end of a run leaves nothing that the next one could push.           *)
LEMMA EndRunClean ==
    ASSUME EndRun, GitHubMerges, UNCHANGED ghMerge
    PROVE  TestedRecorded' /\ OutboxGood' /\ OutboxNew' /\ SeenStands' /\ GitHubMerges'
<1>1. \A p \in PRs : ~Merged(outbox[p])' /\ ~Merged(pulls[p].merge)'
  BY DEF EndRun, Pull, Merged
<1> QED
  BY <1>1 DEF EndRun, BeforePush, Merged,
              TestedRecorded, OutboxGood, OutboxNew, SeenStands, GitHubMerges

LEMMA SetStatusRecorded ==
    ASSUME IInv, NEW i \in DOMAIN pipelines, NEW from, NEW s \in Statuses,
           SetStatus(i, from, s), everTested \subseteq everTested',
           s \in Done => pipelines[i].sha \in everTested'
    PROVE  CompletedRecorded'
<1>1. pipelines' = Touch(i, s)
  BY DEF SetStatus
<1>2. pipelines \in Seq(Pipelines)
  BY DEF IInv, TypeOK, GitLabTypeOK
<1> QED
  BY <1>1, <1>2, TouchLemma DEF IInv, CompletedRecorded

LEMMA NewPipelineRecorded ==
    ASSUME IInv, NEW c \in Commits, pipelines' = NewPipeline(c), UNCHANGED everTested
    PROVE  CompletedRecorded'
<1>1. pipelines \in Seq(Pipelines)
  BY DEF IInv, TypeOK, GitLabTypeOK
<1> QED
  BY <1>1, NewPipelineLemma DEF IInv, CompletedRecorded, Done

(* A push puts on GitLab what was waiting, and nothing else.               *)
LEMMA LandGood ==
    ASSUME IInv, NEW P, NEW m, Land(P, m)
    PROVE  /\ \A p \in PRs : glPR'[p] \in {glPR[p], outbox[p]}
           /\ CompletedRecorded' /\ PushedOntoTested' /\ PushedWasChecked'
<1>1. \A p \in PRs : glPR'[p] \in {glPR[p], outbox[p]}
  BY DEF Land
<1>2. UNCHANGED <<passed, everTested>>
  BY DEF Land, github
<1>3. PushedOntoTested' /\ PushedWasChecked'
  BY <1>1, <1>2 DEF IInv, OutboxGood, PushedOntoTested, PushedWasChecked, Merged
<1>4. CASE m /\ outMain \notin {NoCommit, glMain}
  <2>1. outMain \in Commits
    BY <1>4 DEF IInv, TypeOK, RunTypeOK
  <2> QED
    BY <1>1, <1>2, <1>3, <1>4, <2>1, NewPipelineRecorded DEF Land
<1>5. CASE ~(m /\ outMain \notin {NoCommit, glMain})
  BY <1>1, <1>2, <1>3, <1>5 DEF Land, IInv, CompletedRecorded
<1> QED
  BY <1>4, <1>5

LEMMA StepInvariant == IInv /\ [Next]_vars => IInv'
<1> SUFFICES ASSUME IInv, [Next]_vars PROVE IInv'
  OBVIOUS
<1>0. TypeOK'
  BY StepTyped DEF IInv
<1>1. CASE MergeToMain
  <2> USE <1>1 DEF MergeToMain, gitlab, locals
  <2>1. CompletedRecorded' /\ TestedRecorded' /\ GitHubMerges'
    BY DEF IInv, CompletedRecorded, TestedRecorded, GitHubMerges, Merged
  <2> QED
    BY <1>0, <2>1, BranchesKept, SeenKept DEF IInv, BeforePush
<1>2. ASSUME NEW p \in PRs, PushHead(p) PROVE IInv'
  <2> USE <1>2 DEF PushHead, gitlab, locals
  <2>1. CompletedRecorded' /\ TestedRecorded' /\ GitHubMerges'
    BY DEF IInv, CompletedRecorded, TestedRecorded, GitHubMerges, Merged
  <2> QED
    BY <1>0, <2>1, BranchesKept, SeenKept DEF IInv, BeforePush
<1>3. ASSUME NEW p \in PRs, ComputeMerge(p) PROVE IInv'
  <2> USE <1>3 DEF ComputeMerge, gitlab, locals
  <2>1. CompletedRecorded' /\ TestedRecorded'
    BY DEF IInv, CompletedRecorded, TestedRecorded
  <2>2. GitHubMerges'
    BY DEF IInv, TypeOK, GitHubTypeOK, GitHubMerges, Merged
  <2> QED
    BY <1>0, <2>1, <2>2, BranchesKept, SeenKept DEF IInv, BeforePush
<1>4. ASSUME NEW p \in PRs, PassChecks(p) PROVE IInv'
  <2> USE <1>4 DEF PassChecks, gitlab, locals
  <2>1. CompletedRecorded' /\ TestedRecorded' /\ GitHubMerges'
    BY DEF IInv, CompletedRecorded, TestedRecorded, GitHubMerges, Merged
  <2> QED
    BY <1>0, <2>1, BranchesKept, SeenKept DEF IInv, BeforePush
<1>5. ASSUME NEW i \in DOMAIN pipelines, NEW from, NEW s \in Statuses, SetStatus(i, from, s),
             everTested \subseteq everTested',
             s \in Done => pipelines[i].sha \in everTested'
      PROVE  IInv'
  <2>1. CompletedRecorded'
    BY <1>5, SetStatusRecorded
  <2>2. TestedRecorded' /\ GitHubMerges'
    BY <1>5 DEF SetStatus, github, locals, IInv, TestedRecorded, GitHubMerges, Merged
  <2>3. OutboxGood' /\ OutboxNew' /\ PushedOntoTested' /\ PushedWasChecked'
    BY <1>5, BranchesKept DEF SetStatus, github, locals
  <2>4. SeenStands'
    BY <1>5, SeenKept DEF SetStatus, locals, BeforePush
  <2> QED
    BY <1>0, <2>1, <2>2, <2>3, <2>4 DEF IInv
<1>6. ASSUME NEW i \in DOMAIN pipelines, StartPipeline(i) PROVE IInv'
  BY <1>5, <1>6 DEF StartPipeline, Statuses, Live, Done
<1>7. ASSUME NEW i \in DOMAIN pipelines, FinishPipeline(i) PROVE IInv'
  BY <1>5, <1>7 DEF FinishPipeline, Statuses
<1>8. ASSUME NEW i \in DOMAIN pipelines, AutoCancel(i) PROVE IInv'
  BY <1>5, <1>8 DEF AutoCancel, Statuses, Done
<1>9. ASSUME NEW i \in DOMAIN pipelines, CancelPipeline(i) PROVE IInv'
  BY <1>5, <1>9 DEF CancelPipeline, Statuses, Done
<1>10. ASSUME NEW i \in DOMAIN pipelines, RetryPipeline(i) PROVE IInv'
  BY <1>5, <1>10 DEF RetryPipeline, Statuses, Live, Done
<1>11. CASE RerunPipeline
  <2> USE <1>11 DEF RerunPipeline, github, locals
  <2>1. CompletedRecorded'
    BY NewPipelineRecorded DEF IInv, TypeOK, GitLabTypeOK
  <2>2. TestedRecorded' /\ GitHubMerges'
    BY DEF IInv, TestedRecorded, GitHubMerges, Merged
  <2> QED
    BY <1>0, <2>1, <2>2, BranchesKept, SeenKept DEF IInv, BeforePush
<1>12. ASSUME NEW p \in PRs, DeleteBranch(p) PROVE IInv'
  <2> USE <1>12 DEF DeleteBranch, github, locals
  <2>1. \A q \in PRs : glPR'[q] \in {glPR[q], NoBranch}
    BY DEF IInv, TypeOK, GitLabTypeOK
  <2>2. CompletedRecorded' /\ TestedRecorded' /\ OutboxGood' /\ GitHubMerges'
    BY DEF IInv, CompletedRecorded, TestedRecorded, OutboxGood, GitHubMerges, Merged
  <2>3. SeenStands'
    BY <2>1 DEF IInv, SeenStands, BeforePush
  <2>4. OutboxNew'
    BY <2>1 DEF IInv, OutboxNew, Merged
  <2>5. PushedOntoTested' /\ PushedWasChecked'
    BY <2>1 DEF IInv, PushedOntoTested, PushedWasChecked, Merged
  <2> QED
    BY <1>0, <2>2, <2>3, <2>4, <2>5 DEF IInv
<1>13. CASE Setup
  <2> USE <1>13 DEF Setup, github, gitlab
  <2>1. CompletedRecorded' /\ TestedRecorded' /\ GitHubMerges'
    BY DEF IInv, CompletedRecorded, TestedRecorded, GitHubMerges, Merged
  <2>2. SeenStands'
    BY DEF SeenStands
  <2> QED
    BY <1>0, <2>1, <2>2, BranchesKept DEF IInv
<1>14. CASE FetchMain
  <2> USE <1>14 DEF FetchMain, github, gitlab
  <2>1. CompletedRecorded' /\ TestedRecorded' /\ GitHubMerges'
    BY DEF IInv, CompletedRecorded, TestedRecorded, GitHubMerges, Merged
  <2> QED
    BY <1>0, <2>1, BranchesKept, SeenKept DEF IInv, BeforePush
<1>15. CASE QueryPipelines
  <2> USE <1>15 DEF QueryPipelines, github, gitlab
  <2>1. CompletedRecorded' /\ GitHubMerges'
    BY DEF IInv, CompletedRecorded, GitHubMerges, Merged
  <2>2. \A i \in KeptDone : i \in DOMAIN pipelines /\ pipelines[i].status \in Done
    BY DEF KeptDone, Kept, Page
  <2>3. TestedRecorded'
    BY <2>2 DEF IInv, CompletedRecorded, TestedRecorded
  <2> QED
    BY <1>0, <2>1, <2>3, BranchesKept, SeenKept DEF IInv, BeforePush
<1>16. ASSUME NEW p \in PRs, ReadPull(p) PROVE IInv'
  <2> USE <1>16 DEF ReadPull, github, gitlab
  <2>1. CompletedRecorded' /\ TestedRecorded'
    BY DEF IInv, CompletedRecorded, TestedRecorded
  <2>2. \A q \in PRs : pulls'[q].merge \in {pulls[q].merge, ghMerge[q]}
    BY DEF IInv, TypeOK, RunTypeOK, Pull
  <2>3. GitHubMerges'
    BY <2>2 DEF IInv, GitHubMerges, Merged
  <2> QED
    BY <1>0, <2>1, <2>3, BranchesKept, SeenKept DEF IInv, BeforePush
<1>17. ASSUME NEW p \in PRs, PassOver(p) PROVE IInv'
  <2> USE <1>17 DEF PassOver, github, gitlab
  <2>1. CompletedRecorded' /\ TestedRecorded' /\ GitHubMerges'
    BY DEF IInv, CompletedRecorded, TestedRecorded, GitHubMerges, Merged
  <2> QED
    BY <1>0, <2>1, BranchesKept, SeenKept DEF IInv, BeforePush
<1>18. ASSUME NEW p \in PRs, MergeLocally(p) PROVE IInv'
  <2> DEFINE new == [head |-> ghPR[p], onto |-> tested, via |-> "merge"]
  <2>1. outbox' = [outbox EXCEPT ![p] = new] /\ UNCHANGED <<github, gitlab, pc, seen, pulls>>
    BY <1>18 DEF MergeLocally
  <2>2. outbox'[p] = new /\ \A q \in PRs \ {p} : outbox'[q] = outbox[q]
    BY <2>1 DEF IInv, TypeOK, RunTypeOK
  <2>3. CompletedRecorded' /\ TestedRecorded' /\ GitHubMerges'
    BY <1>18 DEF MergeLocally, github, gitlab,
                 IInv, CompletedRecorded, TestedRecorded, GitHubMerges, Merged
  <2>4. SeenStands'
    BY <2>1, SeenKept DEF gitlab, BeforePush
  <2>5. tested \in everTested /\ ghPR[p] = pulls[p].head
        /\ <<p, pulls[p].head.rev>> \in passed /\ ~AlreadyPushed(p)
    BY <1>18 DEF MergeLocally, Deferrable, Eligible, InSync, BaseTested, IInv, TestedRecorded
  <2>6. OutboxGood'
    BY <2>1, <2>2, <2>5 DEF IInv, OutboxGood, Merged, github, gitlab
  <2>7. glPR[p] = NoBranch \/ glPR[p].head # ghPR[p]
    BY <1>18, <2>5 DEF MergeLocally, AlreadyPushed, IInv, SeenStands, BeforePush
  <2>8. OutboxNew'
    BY <2>1, <2>2, <2>7 DEF IInv, OutboxNew, Merged, gitlab
  <2>9. PushedOntoTested' /\ PushedWasChecked'
    BY <2>1 DEF IInv, PushedOntoTested, PushedWasChecked, Merged, github, gitlab
  <2> QED
    BY <1>0, <2>3, <2>4, <2>6, <2>8, <2>9 DEF IInv
<1>19. ASSUME NEW p \in PRs, TakeGitHubMerge(p) PROVE IInv'
  <2>1. outbox' = [outbox EXCEPT ![p] = pulls[p].merge]
        /\ UNCHANGED <<github, gitlab, pc, seen, pulls, tested>>
    BY <1>19 DEF TakeGitHubMerge
  <2>2. ~Merged(outbox[p])' /\ \A q \in PRs \ {p} : outbox'[q] = outbox[q]
    BY <2>1 DEF IInv, TypeOK, RunTypeOK, GitHubMerges, Merged
  <2>3. CompletedRecorded' /\ TestedRecorded' /\ GitHubMerges'
    BY <2>1 DEF github, gitlab, IInv, CompletedRecorded, TestedRecorded, GitHubMerges, Merged
  <2>4. SeenStands'
    BY <2>1, SeenKept DEF gitlab, BeforePush
  <2>5. OutboxGood' /\ OutboxNew'
    BY <2>1, <2>2 DEF IInv, OutboxGood, OutboxNew, Merged, github, gitlab
  <2>6. PushedOntoTested' /\ PushedWasChecked'
    BY <2>1 DEF IInv, PushedOntoTested, PushedWasChecked, Merged, github, gitlab
  <2> QED
    BY <1>0, <2>3, <2>4, <2>5, <2>6 DEF IInv
<1>20. CASE FetchRefs
  <2> USE <1>20 DEF FetchRefs, github, gitlab
  <2>1. CompletedRecorded' /\ TestedRecorded'
    BY DEF IInv, CompletedRecorded, TestedRecorded
  <2>2. \A p \in PRs : ~Merged(pulls[p].merge)'
    BY DEF Pull, Merged
  <2>3. GitHubMerges'
    BY <2>2 DEF IInv, GitHubMerges, Merged
  <2> QED
    BY <1>0, <2>1, <2>3, BranchesKept, SeenKept DEF IInv, BeforePush
<1>21. CASE Push
  BY <1>0, <1>21, LandGood, EndRunClean DEF Push, Land, github, IInv
<1>22. CASE PushPartly
  <2>1. PICK P \in SUBSET PRs, m \in BOOLEAN : Land(P, m)
    BY <1>22 DEF PushPartly
  <2>2. UNCHANGED <<pc, locals, github, everTested>> /\ pc = "push"
    BY <1>22, <2>1 DEF PushPartly, Land
  <2>3. \A p \in PRs : glPR'[p] \in {glPR[p], outbox[p]}
    BY <2>1, LandGood
  <2>4. CompletedRecorded' /\ PushedOntoTested' /\ PushedWasChecked'
    BY <2>1, LandGood
  <2>5. TestedRecorded' /\ OutboxGood' /\ GitHubMerges' /\ SeenStands'
    BY <2>2 DEF locals, github, IInv, BeforePush, Merged,
                TestedRecorded, OutboxGood, GitHubMerges, SeenStands
  <2>6. OutboxNew'
    BY <2>2, <2>3 DEF locals, IInv, OutboxNew, Merged
  <2> QED
    BY <1>0, <2>4, <2>5, <2>6 DEF IInv
<1>23. CASE Abort
  <2>1. CompletedRecorded' /\ PushedOntoTested' /\ PushedWasChecked'
    BY <1>23 DEF Abort, github, gitlab, IInv, CompletedRecorded, Merged,
                 PushedOntoTested, PushedWasChecked
  <2> QED
    BY <1>0, <1>23, <2>1, EndRunClean DEF Abort, github, IInv
<1>24. ASSUME NEW p \in PRs, NothingTested(p) PROVE IInv'
  <2>1. CompletedRecorded' /\ PushedOntoTested' /\ PushedWasChecked'
    BY <1>24 DEF NothingTested, github, gitlab, IInv, CompletedRecorded, Merged,
                 PushedOntoTested, PushedWasChecked
  <2> QED
    BY <1>0, <1>24, <2>1, EndRunClean DEF NothingTested, github, IInv
<1>25. CASE UNCHANGED vars
  <2> USE <1>25 DEF vars, github, gitlab, locals
  <2>1. CompletedRecorded' /\ TestedRecorded' /\ GitHubMerges'
    BY DEF IInv, CompletedRecorded, TestedRecorded, GitHubMerges, Merged
  <2> QED
    BY <1>0, <2>1, BranchesKept, SeenKept DEF IInv, BeforePush
<1> QED
  BY <1>1, <1>2, <1>3, <1>4, <1>6, <1>7, <1>8, <1>9, <1>10, <1>11, <1>12, <1>13,
     <1>14, <1>15, <1>16, <1>17, <1>18, <1>19, <1>20, <1>21, <1>22, <1>23, <1>24, <1>25
  DEF Next, GitHubNext, GitLabNext, SyncNext, ProcessPR

THEOREM Invariance == Spec => []IInv
BY InitInvariant, StepInvariant, PTL DEF Spec

(* No failure of a run, no retried push and no main pipeline created,      *)
(* retried or cancelled in the meantime gets an untested base pushed.      *)
THEOREM SafePushedOntoTested == Spec => []PushedOntoTested
BY Invariance, PTL DEF IInv

(* However late the head, the checks and the push are read and made, the   *)
(* head that is pushed is one whose checks succeeded.                      *)
THEOREM SafePushedWasChecked == Spec => []PushedWasChecked
BY Invariance, PTL DEF IInv

(* Nothing but a push puts a merge on GitLab.                              *)
LEMMA StepNoSecondMerge == IInv /\ [Next]_vars => NewMergeIsNewHead
<1> SUFFICES ASSUME IInv, [Next]_vars PROVE NewMergeIsNewHead
  OBVIOUS
<1>1. ASSUME NEW P, NEW m, Land(P, m) PROVE NewMergeIsNewHead
  <2>1. \A p \in PRs : glPR'[p] \in {glPR[p], outbox[p]}
    BY <1>1, LandGood
  <2> QED
    BY <2>1 DEF NewMergeIsNewHead, IInv, OutboxNew
<1>2. CASE Push
  BY <1>1, <1>2 DEF Push
<1>3. CASE PushPartly
  BY <1>1, <1>3 DEF PushPartly
<1>4. ASSUME NEW p \in PRs, DeleteBranch(p) PROVE NewMergeIsNewHead
  <2>1. \A q \in PRs : glPR'[q] \in {glPR[q], NoBranch}
    BY <1>4 DEF DeleteBranch, IInv, TypeOK, GitLabTypeOK
  <2> QED
    BY <2>1 DEF NewMergeIsNewHead, Merged
<1>5. CASE UNCHANGED glPR
  BY <1>5 DEF NewMergeIsNewHead
<1>6. CASE GitHubNext
  BY <1>5, <1>6 DEF GitHubNext, MergeToMain, PushHead, ComputeMerge, PassChecks, gitlab
<1>7. ASSUME NEW i \in DOMAIN pipelines,
             StartPipeline(i) \/ FinishPipeline(i) \/ AutoCancel(i)
               \/ CancelPipeline(i) \/ RetryPipeline(i)
      PROVE  UNCHANGED glPR
  BY <1>7 DEF StartPipeline, FinishPipeline, AutoCancel, CancelPipeline, RetryPipeline,
              SetStatus
<1>8. CASE GitLabNext
  BY <1>4, <1>5, <1>7, <1>8 DEF GitLabNext, RerunPipeline
<1>9. ASSUME NEW p \in PRs, ReadPull(p) \/ ProcessPR(p) PROVE UNCHANGED glPR
  BY <1>9 DEF ReadPull, ProcessPR, PassOver, MergeLocally, NothingTested, TakeGitHubMerge, gitlab
<1>10. CASE SyncNext
  BY <1>2, <1>5, <1>9, <1>10
  DEF SyncNext, Setup, FetchMain, QueryPipelines, FetchRefs, gitlab
<1>11. CASE Abort
  BY <1>5, <1>11 DEF Abort, gitlab
<1>12. CASE UNCHANGED vars
  BY <1>5, <1>12 DEF vars, gitlab
<1> QED
  BY <1>3, <1>6, <1>8, <1>10, <1>11, <1>12 DEF Next

(* A head on GitLab is not merged and pushed again, though the run decides *)
(* from a snapshot of the branches it took at its start, and though a push *)
(* that half succeeded is tried again.                                     *)
THEOREM NeverMergedTwice == Spec => NoSecondMerge
<1>1. IInv /\ [Next]_vars => [NewMergeIsNewHead]_vars
  BY StepNoSecondMerge
<1> QED
  BY <1>1, Invariance, PTL DEF Spec, NoSecondMerge

(***************************************************************************)
(* A lone running pipeline.                                                *)
(***************************************************************************)
(* From the query to the end of the run, a watched pipeline that is the    *)
(* only one of its commit has made the run leave the main branch alone: by *)
(* the flag before the refs are fetched, by what is fetched after that.    *)
WatchHeld ==
    /\ pc \notin {"prs", "push"} => watch = {}
    /\ \A i \in watch :
          /\ i \in DOMAIN pipelines
          /\ OnlyOne(i) => (pc = "prs" => busy) /\ (pc = "push" => outMain = NoCommit)

PipelinesKept ==
    \A j \in DOMAIN pipelines :
        j \in DOMAIN pipelines' /\ pipelines'[j].sha = pipelines[j].sha

(* Pipelines are only added, and keep their commits: what is the only      *)
(* pipeline of its commit has always been.                                 *)
LEMMA StepPipelines == TypeOK /\ [Next]_vars => PipelinesKept
<1> SUFFICES ASSUME TypeOK, [Next]_vars PROVE PipelinesKept
  OBVIOUS
<1>0. pipelines \in Seq(Pipelines)
  BY DEF TypeOK, GitLabTypeOK
<1>1. CASE UNCHANGED pipelines
  BY <1>1 DEF PipelinesKept
<1>2. ASSUME NEW i \in DOMAIN pipelines, NEW from, NEW s \in Statuses, SetStatus(i, from, s)
      PROVE  PipelinesKept
  BY <1>0, <1>2, TouchLemma DEF SetStatus, PipelinesKept
<1>3. ASSUME NEW c \in Commits, pipelines' = NewPipeline(c) PROVE PipelinesKept
  BY <1>0, <1>3, NewPipelineLemma DEF PipelinesKept
<1>4. ASSUME NEW P, NEW m, Land(P, m) PROVE PipelinesKept
  <2>1. CASE m /\ outMain \notin {NoCommit, glMain}
    BY <1>3, <1>4, <2>1 DEF Land, TypeOK, RunTypeOK
  <2> QED
    BY <1>1, <1>4, <2>1 DEF Land
<1>5. CASE GitHubNext
  BY <1>1, <1>5 DEF GitHubNext, MergeToMain, PushHead, ComputeMerge, PassChecks, gitlab
<1>6. ASSUME NEW i \in DOMAIN pipelines,
             StartPipeline(i) \/ FinishPipeline(i) \/ AutoCancel(i)
               \/ CancelPipeline(i) \/ RetryPipeline(i)
      PROVE  PipelinesKept
  BY <1>2, <1>6 DEF StartPipeline, FinishPipeline, AutoCancel, CancelPipeline, RetryPipeline,
                    Statuses, Live, Done
<1>7. CASE GitLabNext
  BY <1>1, <1>3, <1>6, <1>7
  DEF GitLabNext, RerunPipeline, DeleteBranch, TypeOK, GitLabTypeOK
<1>8. ASSUME NEW p \in PRs, ReadPull(p) \/ ProcessPR(p) PROVE PipelinesKept
  BY <1>1, <1>8 DEF ReadPull, ProcessPR, PassOver, MergeLocally, NothingTested,
                    TakeGitHubMerge, gitlab
<1>9. CASE SyncNext
  BY <1>1, <1>4, <1>8, <1>9
  DEF SyncNext, Setup, FetchMain, QueryPipelines, FetchRefs, Push, gitlab
<1>10. CASE Abort \/ PushPartly \/ UNCHANGED vars
  BY <1>1, <1>4, <1>10 DEF Abort, PushPartly, vars, gitlab
<1> QED
  BY <1>5, <1>7, <1>9, <1>10 DEF Next

(* A step that leaves alone what WatchHeld speaks of.                      *)
LEMMA WatchUnchanged ==
    ASSUME WatchHeld, PipelinesKept, UNCHANGED <<pc, watch, busy, outMain>>
    PROVE  WatchHeld'
<1>1. ASSUME NEW i \in watch, OnlyOne(i)' PROVE OnlyOne(i)
  BY <1>1 DEF WatchHeld, PipelinesKept, OnlyOne
<1> QED
  BY <1>1 DEF WatchHeld, PipelinesKept

LEMMA WatchOver ==
    ASSUME watch' = {} PROVE WatchHeld'
BY DEF WatchHeld

LEMMA StepWatch == TypeOK /\ WatchHeld /\ [Next]_vars => WatchHeld'
<1> SUFFICES ASSUME TypeOK, WatchHeld, [Next]_vars PROVE WatchHeld'
  OBVIOUS
<1>0. PipelinesKept
  BY StepPipelines
<1>1. CASE UNCHANGED <<pc, watch, busy, outMain>>
  BY <1>0, <1>1, WatchUnchanged
<1>2. CASE EndRun
  BY <1>2, WatchOver DEF EndRun
<1>3. CASE GitHubNext
  BY <1>1, <1>3
  DEF GitHubNext, MergeToMain, PushHead, ComputeMerge, PassChecks, locals
<1>4. ASSUME NEW i \in DOMAIN pipelines,
             StartPipeline(i) \/ FinishPipeline(i) \/ AutoCancel(i)
               \/ CancelPipeline(i) \/ RetryPipeline(i)
      PROVE  WatchHeld'
  BY <1>1, <1>4 DEF StartPipeline, FinishPipeline, AutoCancel, CancelPipeline, RetryPipeline,
                    SetStatus, locals
<1>5. CASE GitLabNext
  BY <1>1, <1>4, <1>5 DEF GitLabNext, RerunPipeline, DeleteBranch, locals
<1>6. CASE Setup \/ FetchMain
  BY <1>6, WatchOver DEF Setup, FetchMain, WatchHeld
<1>7. CASE QueryPipelines
  <2> SUFFICES ASSUME NEW i \in watch'
               PROVE  i \in DOMAIN pipelines' /\ (OnlyOne(i)' => busy')
    BY <1>7 DEF WatchHeld, QueryPipelines
  <2>1. UNCHANGED pipelines /\ i \in Page /\ pipelines[i].status = "running"
    BY <1>7 DEF QueryPipelines, gitlab
  <2>2. ASSUME OnlyOne(i) PROVE i \in Kept
    <3>1. pipelines[i].age <= pipelines[i].age
      <4>1. pipelines[i] \in Pipelines
        BY <2>1, LenProperties DEF Page, TypeOK, GitLabTypeOK
      <4> QED
        BY <4>1 DEF Pipelines
    <3> QED
      BY <2>1, <2>2, <3>1 DEF OnlyOne, Kept, Page
  <2> QED
    BY <1>7, <2>1, <2>2 DEF QueryPipelines, Busy, Page, OnlyOne
<1>8. ASSUME NEW p \in PRs, ReadPull(p) \/ ProcessPR(p) PROVE WatchHeld'
  BY <1>1, <1>2, <1>8 DEF ReadPull, ProcessPR, PassOver, MergeLocally, NothingTested,
                          TakeGitHubMerge
<1>9. CASE FetchRefs
  <2>1. ASSUME NEW i \in watch, OnlyOne(i) PROVE outMain' = NoCommit
    BY <1>9, <2>1 DEF FetchRefs, MainToPush, WatchHeld
  <2> QED
    BY <1>9, <2>1 DEF FetchRefs, gitlab, WatchHeld, OnlyOne
<1>10. CASE Push \/ Abort
  BY <1>2, <1>10 DEF Push, Abort
<1>11. CASE PushPartly
  BY <1>1, <1>11 DEF PushPartly, locals
<1>12. CASE UNCHANGED vars
  BY <1>1, <1>12 DEF vars, locals
<1> QED
  BY <1>3, <1>5, <1>6, <1>7, <1>8, <1>9, <1>10, <1>11, <1>12 DEF Next, SyncNext

MainWaits == glMain' # glMain =>
    \A i \in watch : OnlyOne(i) => pipelines[i].status # "running"

(* Only a push moves the main branch, and it has nothing to move it to.    *)
LEMMA StepMainWaits == WatchHeld /\ [Next]_vars => MainWaits
<1> SUFFICES ASSUME WatchHeld, [Next]_vars, glMain' # glMain,
                    NEW i \in watch, OnlyOne(i)
             PROVE  FALSE
  BY DEF MainWaits
<1>1. ASSUME NEW P, NEW m, Land(P, m), pc = "push" PROVE FALSE
  BY <1>1 DEF Land, WatchHeld
<1>2. ~Push /\ ~PushPartly
  BY <1>1 DEF Push, PushPartly
<1>3. ~GitHubNext
  BY DEF GitHubNext, MergeToMain, PushHead, ComputeMerge, PassChecks, gitlab
<1>4. ~GitLabNext
  BY DEF GitLabNext, StartPipeline, FinishPipeline, AutoCancel, CancelPipeline,
         RetryPipeline, SetStatus, RerunPipeline, DeleteBranch
<1>5. \A p \in PRs : ~ReadPull(p) /\ ~ProcessPR(p)
  BY DEF ReadPull, ProcessPR, PassOver, MergeLocally, NothingTested, TakeGitHubMerge, gitlab
<1> QED
  BY <1>2, <1>3, <1>4, <1>5
  DEF Next, SyncNext, Setup, FetchMain, QueryPipelines, FetchRefs, Abort, vars, gitlab

(* However long the run takes between its question and its push, whatever  *)
(* starts, ends or is created meanwhile, and however often the push is     *)
(* tried again, a pipeline that was seen running and is the only one of    *)
(* its commit is not made redundant by a new main commit.                  *)
THEOREM LonePipelineLeftAlone == Spec => LoneNotInterrupted
<1>1. Init => WatchHeld
  BY DEF Init, Fresh, WatchHeld
<1>2. WatchHeld /\ [Next]_vars
        => [glMain' # glMain =>
              \A i \in watch : OnlyOne(i) => pipelines[i].status # "running"]_vars
  BY StepMainWaits DEF MainWaits
<1> QED
  BY <1>1, <1>2, TypeCorrect, StepWatch, PTL DEF Spec, LoneNotInterrupted

=============================================================================
