----------------------------- MODULE SyncBridge -----------------------------
(***************************************************************************)
(* The cron job of images/gh-gl-sync/SpackCIBridge.py: it copies the main  *)
(* branch (develop) and the open pull requests from GitHub to GitLab, and  *)
(* defers a pull request whose merge base is newer than the last main      *)
(* commit GitLab has tested.  GitHub and GitLab are external and move      *)
(* between any two steps of a run; one run is in flight at a time          *)
(* (concurrencyPolicy: Forbid) and may die at any step.                    *)
(*                                                                         *)
(* Data: a commit of the main branch is its position in the (linear)       *)
(* history, so "is an ancestor of" is "=<".  A pull request head is its    *)
(* revision number and the last main commit it contains.  Posting commit   *)
(* statuses back to GitHub is not part of this module.                     *)
(***************************************************************************)
EXTENDS Integers, Sequences

CONSTANTS
    PRs,            \* the open pull requests
    Conflicts,      \* those that do not merge cleanly with the main branch
    MayBeUrgent,    \* those that may carry the label pipelines:urgent
    MaySkip,        \* those that may be a draft, or stale for 48 hours
    MaxMain,        \* bound: last commit of the main branch
    MaxRev,         \* bound: revisions of a pull request
    PageSize,       \* pipelines in one page of the GitLab API
    FirstStatus,    \* possible states of the first main pipeline
    Kinds,          \* kinds of intervention: see Intervene
    MaxOps,         \* bound: number of interventions
    NoBranch        \* "no such branch"

ASSUME BoundsAssumption ==
    /\ MaxMain \in Nat /\ MaxRev \in Nat /\ PageSize \in Nat \ {0} /\ MaxOps \in Nat
    /\ Conflicts \subseteq PRs /\ MayBeUrgent \subseteq PRs /\ MaySkip \subseteq PRs

Done     == {"success", "failed"}
Live     == {"created", "running"}
Statuses == Done \union Live \union {"canceled"}
ASSUME StatusAssumption == FirstStatus \subseteq Statuses

Commits  == 0 .. MaxMain
NoCommit == -1
Heads    == [rev : 0 .. MaxRev, mb : Commits]
(* The tip of a pull request branch: a merge of a head into a main commit, *)
(* made by this job ("merge") or by GitHub ("github").                     *)
Branches == [head : Heads, onto : Commits, via : {"merge", "github"}]
MaybeBranch == Branches \union {NoBranch}
ASSUME NoBranchAssumption == NoBranch \notin Branches

VARIABLES
    (* GitHub *)
    ghMain,     \* HEAD of the main branch
    ghPR,       \* ghPR[p]: head of pull request p
    ghMerge,    \* ghMerge[p]: merge_commit_sha, which GitHub recomputes lazily
    passed,     \* the <<p, rev>> whose prerequisite checks have succeeded
    (* GitLab *)
    glMain,     \* tip of the main branch
    glPR,       \* glPR[p]: tip of branch pr<p>_<name>
    pipelines,  \* main branch pipelines by id; age 0 = most recently updated
    everTested, \* history: main commits of which a pipeline ever completed
    ops,        \* interventions so far
    (* one run of the job *)
    pc, localMain, seen, tested, busy, watch, unread, pulls, todo, outbox, outMain

github == <<ghMain, ghPR, ghMerge, passed>>
gitlab == <<glMain, glPR, pipelines, everTested>>
locals == <<localMain, seen, tested, busy, watch, unread, pulls, todo, outbox, outMain>>
vars   == <<github, gitlab, ops, pc, locals>>

Pull(h, u, m) == [head |-> h, urgent |-> u, merge |-> m]
Pulls == [head : Heads, urgent : BOOLEAN, merge : MaybeBranch]
FirstHead == [rev |-> 0, mb |-> 0]

Pipelines == [sha : Commits, status : Statuses, age : Nat]

GitHubTypeOK ==
    /\ ghMain \in Commits /\ ghPR \in [PRs -> Heads]
    /\ ghMerge \in [PRs -> MaybeBranch] /\ passed \subseteq PRs \X (0 .. MaxRev)
GitLabTypeOK ==
    /\ glMain \in Commits /\ glPR \in [PRs -> MaybeBranch]
    /\ pipelines \in Seq(Pipelines) /\ everTested \subseteq Commits
RunTypeOK ==
    /\ pc \in {"idle", "main", "query", "prs", "push"}
    /\ localMain \in Commits /\ seen \in [PRs -> MaybeBranch]
    /\ tested \in Commits \union {NoCommit} /\ busy \in BOOLEAN
    /\ watch \subseteq Nat /\ unread \subseteq PRs /\ todo \subseteq PRs
    /\ pulls \in [PRs -> Pulls]
    /\ outbox \in [PRs -> MaybeBranch] /\ outMain \in Commits \union {NoCommit}
(* Commit names stay within their histories, a branch holds a head that    *)
(* exists, and nothing that is absent (NoCommit, None) is ever pushed.     *)
TypeOK == GitHubTypeOK /\ GitLabTypeOK /\ RunTypeOK /\ ops \in 0 .. MaxOps

(* No run in progress: every local variable at its default.                *)
Fresh ==
    /\ pc = "idle" /\ localMain = 0 /\ seen = [p \in PRs |-> NoBranch]
    /\ tested = NoCommit /\ busy = FALSE /\ watch = {} /\ unread = {}
    /\ pulls = [p \in PRs |-> Pull(FirstHead, FALSE, NoBranch)] /\ todo = {}
    /\ outbox = [p \in PRs |-> NoBranch] /\ outMain = NoCommit

Init ==
    /\ ghMain = 0 /\ ghPR = [p \in PRs |-> FirstHead]
    /\ ghMerge = [p \in PRs |-> NoBranch] /\ passed = {}
    /\ glMain = 0 /\ glPR = [p \in PRs |-> NoBranch] /\ ops = 0
    /\ \E s \in FirstStatus :
          /\ pipelines = << [sha |-> 0, status |-> s, age |-> 0] >>
          /\ everTested = IF s \in Done THEN {0} ELSE {}
    /\ Fresh

(***************************************************************************)
(* GitHub: authors, maintainers and GitHub Actions.                        *)
(***************************************************************************)
MergeToMain ==
    /\ ghMain < MaxMain
    /\ ghMain' = ghMain + 1
    /\ UNCHANGED <<ghPR, ghMerge, passed, gitlab, ops, pc, locals>>

(* A force push, possibly a rebase onto a main commit of today.            *)
PushHead(p) ==
    /\ ghPR[p].rev < MaxRev
    /\ \E mb \in 0 .. ghMain :
          ghPR' = [ghPR EXCEPT ![p] = [rev |-> ghPR[p].rev + 1, mb |-> mb]]
    /\ UNCHANGED <<ghMain, ghMerge, passed, gitlab, ops, pc, locals>>

ComputeMerge(p) ==
    /\ p \in MayBeUrgent   \* read for no other pull request
    /\ ghMerge' = [ghMerge EXCEPT ![p] =
                      [head |-> ghPR[p], onto |-> ghMain, via |-> "github"]]
    /\ UNCHANGED <<ghMain, ghPR, passed, gitlab, ops, pc, locals>>

PassChecks(p) ==
    /\ passed' = passed \union {<<p, ghPR[p].rev>>}
    /\ UNCHANGED <<ghMain, ghPR, ghMerge, gitlab, ops, pc, locals>>

(***************************************************************************)
(* GitLab pipelines of the main branch.                                    *)
(***************************************************************************)
(* Pipeline i takes status s and becomes the most recently updated one.    *)
Touch(i, s) ==
    [j \in DOMAIN pipelines |->
        IF j = i THEN [sha |-> pipelines[i].sha, status |-> s, age |-> 0]
        ELSE IF pipelines[j].age < pipelines[i].age
        THEN [pipelines[j] EXCEPT !.age = @ + 1]
        ELSE pipelines[j]]

NewPipeline(c) ==
    Append([j \in DOMAIN pipelines |-> [pipelines[j] EXCEPT !.age = @ + 1]],
           [sha |-> c, status |-> "created", age |-> 0])

SetStatus(i, from, s) ==
    /\ pipelines[i].status \in from
    /\ pipelines' = Touch(i, s)
    /\ UNCHANGED <<github, glMain, glPR, pc, locals>>

StartPipeline(i) ==
    SetStatus(i, {"created"}, "running") /\ UNCHANGED <<everTested, ops>>

FinishPipeline(i) ==
    /\ \E s \in Done : SetStatus(i, {"running"}, s)
    /\ everTested' = everTested \union {pipelines[i].sha}
    /\ UNCHANGED ops

(* GitLab cancels a pipeline that a newer commit of the branch made        *)
(* redundant.                                                              *)
AutoCancel(i) ==
    /\ \E j \in DOMAIN pipelines : j > i /\ pipelines[j].sha # pipelines[i].sha
    /\ SetStatus(i, Live, "canceled") /\ UNCHANGED <<everTested, ops>>

(* What operators and the other cron jobs do, at most MaxOps times.        *)
Intervene(kind) == kind \in Kinds /\ ops < MaxOps /\ ops' = ops + 1

CancelPipeline(i) ==
    Intervene("cancel") /\ SetStatus(i, Live, "canceled") /\ UNCHANGED everTested

(* retry_trigger_jobs.py retries the failed jobs of a pipeline.            *)
RetryPipeline(i) ==
    Intervene("retry") /\ SetStatus(i, {"failed"}, "running") /\ UNCHANGED everTested

(* skipped_pipelines.py and cancel_and_restart_stuck_pipelines.py create a *)
(* further pipeline for the tip of a branch.                               *)
RerunPipeline ==
    /\ Intervene("rerun")
    /\ pipelines' = NewPipeline(glMain)
    /\ UNCHANGED <<github, glMain, glPR, everTested, pc, locals>>

(* gitlab-delete-stale-branches removes the branch of a pull request.      *)
DeleteBranch(p) ==
    /\ Intervene("delete")
    /\ glPR' = [glPR EXCEPT ![p] = NoBranch]
    /\ UNCHANGED <<github, glMain, pipelines, everTested, pc, locals>>

(***************************************************************************)
(* One run of SpackCIBridge.sync().                                        *)
(***************************************************************************)
EndRun ==
    /\ pc' = "idle" /\ localMain' = 0 /\ seen' = [p \in PRs |-> NoBranch]
    /\ tested' = NoCommit /\ busy' = FALSE /\ watch' = {} /\ unread' = {}
    /\ pulls' = [p \in PRs |-> Pull(FirstHead, FALSE, NoBranch)] /\ todo' = {}
    /\ outbox' = [p \in PRs |-> NoBranch] /\ outMain' = NoCommit

(* activeDeadlineSeconds, an exception out of an API client, a GitLab      *)
(* answer that is None: the run dies; the next one starts from nothing.    *)
Abort ==
    /\ pc # "idle"
    /\ Intervene("abort")
    /\ EndRun
    /\ UNCHANGED <<github, gitlab>>

(* setup_git_repo, first half: shallow fetch of every GitLab branch.       *)
Setup ==
    /\ pc = "idle"
    /\ seen' = glPR
    /\ pc' = "main"
    /\ UNCHANGED <<github, gitlab, ops, localMain, tested, busy, watch, unread, pulls, todo,
                   outbox, outMain>>

(* setup_git_repo, second half: fetch the main branch from GitHub.         *)
FetchMain ==
    /\ pc = "main"
    /\ localMain' = ghMain
    /\ pc' = "query"
    /\ UNCHANGED <<github, gitlab, ops, seen, tested, busy, watch, unread, pulls, todo,
                   outbox, outMain>>

(* The API answers one page, newest pipeline first; dedupe_pipelines keeps *)
(* for each sha the pipeline updated last, at the place of the sha's first *)
(* (newest) pipeline.                                                      *)
Page == {i \in DOMAIN pipelines : i > Len(pipelines) - PageSize}
Kept == {i \in Page : \A j \in Page :
            pipelines[j].sha = pipelines[i].sha => pipelines[i].age <= pipelines[j].age}

KeptDoneOrNot == Kept   \* faulty variant: the status is not looked at
KeptDone == {i \in Kept : pipelines[i].status \in Done}

BusyUnlessGreen == \E i \in Kept : pipelines[i].status # "success"   \* faulty variant
Busy == \E i \in Kept : pipelines[i].status = "running"

ListedBefore(i, j) ==
    \E k \in Page : /\ pipelines[k].sha = pipelines[i].sha
                    /\ \A l \in Page : pipelines[l].sha = pipelines[j].sha => k >= l

(* latest_tested_main_commit and currently_running_sha.                    *)
QueryPipelines ==
    /\ pc = "query"
    /\ \/ KeptDone = {} /\ tested' = NoCommit
       \/ \E i \in KeptDone :
             /\ \A j \in KeptDone : ListedBefore(i, j)
             /\ tested' = pipelines[i].sha
    /\ busy' = Busy
    /\ watch' = {i \in Page : pipelines[i].status = "running"}
    /\ unread' = PRs
    /\ pc' = "prs"
    /\ UNCHANGED <<github, gitlab, ops, localMain, seen, pulls, todo, outbox, outMain>>

(* get_pulls is paged and read lazily: the head, the labels and the merge  *)
(* commit of p are those of the moment its page is read.  A draft, or a    *)
(* pull request stale for 48 hours, goes no further.                       *)
ReadPull(p) ==
    /\ pc = "prs" /\ p \in unread
    /\ unread' = unread \ {p}
    /\ \/ /\ \E urgent \in BOOLEAN :
                /\ urgent => p \in MayBeUrgent
                /\ pulls' = [pulls EXCEPT ![p] = Pull(ghPR[p], urgent, ghMerge[p])]
          /\ todo' = todo \union {p}
       \/ p \in MaySkip /\ UNCHANGED <<pulls, todo>>
    /\ UNCHANGED <<github, gitlab, ops, pc, localMain, seen, tested, busy, watch, outbox,
                   outMain>>

(* GitLab already has this head, by the message of the merge commit.       *)
AlreadyPushedNever(p) == FALSE   \* faulty variant: the message is not looked at
AlreadyPushed(p) == seen[p] # NoBranch /\ seen[p].head = pulls[p].head

Eligible(p) ==
    /\ ~AlreadyPushed(p)
    /\ <<p, pulls[p].head.rev>> \in passed

(* git merge-base with the main branch as setup_git_repo fetched it.       *)
MergeBase(h) == IF h.mb <= localMain THEN h.mb ELSE localMain

BaseTestedStrictly(p) == tested # NoCommit /\ MergeBase(ghPR[p]) < tested  \* faulty variant
BaseTestedOrNone(p) == tested = NoCommit \/ MergeBase(ghPR[p]) <= tested   \* faulty variant
BaseTested(p) == tested # NoCommit /\ MergeBase(ghPR[p]) <= tested

(* The head GitHub serves is still the head the API listed.                *)
InSyncAssumed(p) == TRUE   \* faulty variant: the two heads are not compared
InSync(p) == ghPR[p] = pulls[p].head

Deferrable(p) == Eligible(p) /\ ~pulls[p].urgent

(* A pull request leaves the loop without a branch to push.                *)
PassOver(p) ==
    /\ pc = "prs" /\ p \in todo
    /\ \/ ~Eligible(p)
       \/ Deferrable(p) /\ ~InSync(p)
       \/ Deferrable(p) /\ InSync(p) /\ tested # NoCommit /\ ~BaseTested(p)
       \/ Deferrable(p) /\ InSync(p) /\ BaseTested(p) /\ p \in Conflicts
       \/ Eligible(p) /\ pulls[p].urgent   \* no merge commit, or it is gone
    /\ todo' = todo \ {p}
    /\ UNCHANGED <<github, gitlab, ops, pc, localMain, seen, tested, busy, watch, unread,
                   pulls, outbox, outMain>>

MergeLocally(p) ==
    /\ pc = "prs" /\ p \in todo
    /\ Deferrable(p) /\ InSync(p) /\ BaseTested(p) /\ p \notin Conflicts
    /\ outbox' = [outbox EXCEPT ![p] =
                     [head |-> ghPR[p], onto |-> tested, via |-> "merge"]]
    /\ todo' = todo \ {p}
    /\ UNCHANGED <<github, gitlab, ops, pc, localMain, seen, tested, busy, watch, unread,
                   pulls, outMain>>

(* git merge-base --is-ancestor <base> None: subprocess.run raises a       *)
(* TypeError, which nothing catches, and the run ends here.                *)
NothingTested(p) ==
    /\ pc = "prs" /\ p \in todo
    /\ Deferrable(p) /\ InSync(p) /\ tested = NoCommit
    /\ EndRun
    /\ UNCHANGED <<github, gitlab, ops>>

(* An urgent pull request: push the merge commit GitHub made.              *)
TakeGitHubMerge(p) ==
    /\ pc = "prs" /\ p \in todo
    /\ Eligible(p) /\ pulls[p].urgent /\ pulls[p].merge # NoBranch
    /\ outbox' = [outbox EXCEPT ![p] = pulls[p].merge]
    /\ todo' = todo \ {p}
    /\ UNCHANGED <<github, gitlab, ops, pc, localMain, seen, tested, busy, watch, unread,
                   pulls, outMain>>

(* list_github_protected_branches drops the main branch when a pipeline    *)
(* was running.                                                            *)
MainToPushAlways == ghMain   \* faulty variant
MainToPush == IF busy THEN NoCommit ELSE ghMain

(* The refs to push are fetched afresh.  The locals the rest of the run    *)
(* does not read go back to their defaults.                                *)
FetchRefs ==
    /\ pc = "prs" /\ unread = {} /\ todo = {}
    /\ outMain' = MainToPush
    /\ pc' = "push"
    /\ localMain' = 0 /\ tested' = NoCommit /\ busy' = FALSE
    /\ seen' = [p \in PRs |-> NoBranch]
    /\ pulls' = [p \in PRs |-> Pull(FirstHead, FALSE, NoBranch)]
    /\ UNCHANGED <<github, gitlab, ops, watch, unread, todo, outbox>>

(* The refs in P, and the main branch if m, reach GitLab.  A new tip of    *)
(* the main branch gets a pipeline.                                        *)
Land(P, m) ==
    /\ glPR' = [p \in PRs |-> IF p \in P /\ outbox[p] # NoBranch THEN outbox[p] ELSE glPR[p]]
    /\ IF m /\ outMain \notin {NoCommit, glMain}
       THEN glMain' = outMain /\ pipelines' = NewPipeline(outMain)
       ELSE UNCHANGED <<glMain, pipelines>>
    /\ UNCHANGED <<github, everTested>>

Push ==
    /\ pc = "push"
    /\ Land(PRs, TRUE)
    /\ EndRun
    /\ UNCHANGED ops

(* git push updated some refs and exited non-zero; it is tried again.      *)
PushPartly ==
    /\ pc = "push"
    /\ Intervene("pushfail")
    /\ \E P \in SUBSET PRs, m \in BOOLEAN : Land(P, m)
    /\ UNCHANGED <<pc, locals>>

-----------------------------------------------------------------------------
GitHubNext ==
    \/ MergeToMain
    \/ \E p \in PRs : PushHead(p) \/ ComputeMerge(p) \/ PassChecks(p)

GitLabNext ==
    \/ \E i \in DOMAIN pipelines :
          \/ StartPipeline(i) \/ FinishPipeline(i) \/ AutoCancel(i)
          \/ CancelPipeline(i) \/ RetryPipeline(i)
    \/ RerunPipeline
    \/ \E p \in PRs : DeleteBranch(p)

ProcessPR(p) == PassOver(p) \/ MergeLocally(p) \/ NothingTested(p) \/ TakeGitHubMerge(p)

SyncNext ==
    \/ Setup \/ FetchMain \/ QueryPipelines
    \/ \E p \in PRs : ReadPull(p) \/ ProcessPR(p)
    \/ FetchRefs \/ Push

Next == GitHubNext \/ GitLabNext \/ SyncNext \/ Abort \/ PushPartly

Spec == Init /\ [][Next]_vars

(* The cron job is started again and again and takes its steps; runners    *)
(* start and finish the jobs of a pipeline.  Authors, checks, operators    *)
(* and failures owe nothing.                                               *)
FairSpec ==
    /\ Spec
    /\ WF_vars(SyncNext)
    /\ WF_vars(\E i \in DOMAIN pipelines : StartPipeline(i))
    /\ WF_vars(\E i \in DOMAIN pipelines : FinishPipeline(i))

-----------------------------------------------------------------------------
(***************************************************************************)
(* Properties.                                                             *)
(***************************************************************************)
Merged(b) == b # NoBranch /\ b.via = "merge"

(* A merge this job pushed is onto a main commit of which a pipeline has   *)
(* completed, whatever happened to the pipelines between query and push.   *)
PushedOntoTested == \A p \in PRs : Merged(glPR[p]) => glPR[p].onto \in everTested

(* A merge this job pushed holds a head whose own prerequisite checks      *)
(* succeeded: not those of the head before it, not of the head after it.   *)
PushedWasChecked ==
    \A p \in PRs : Merged(glPR[p]) => <<p, glPR[p].head.rev>> \in passed

(* A head already on GitLab is not merged and pushed a second time, which  *)
(* would start its pipeline over.                                          *)
NewMergeIsNewHead ==
    \A p \in PRs :
        glPR'[p] # glPR[p] /\ Merged(glPR'[p]) /\ glPR[p] # NoBranch
           => glPR'[p].head # glPR[p].head
NoSecondMerge == [][NewMergeIsNewHead]_vars

(* The main branch does not move on GitLab while a pipeline that the       *)
(* answer showed running, and that is the only one of its commit, is still *)
(* running: neither the runs of other pipelines nor a push that is tried   *)
(* again gets it cancelled.                                                *)
OnlyOne(i) ==
    \A j \in DOMAIN pipelines : pipelines[j].sha = pipelines[i].sha => j = i
LoneNotInterrupted ==
    [][glMain' # glMain =>
          \A i \in watch : OnlyOne(i) => pipelines[i].status # "running"]_vars

(* The help of --main-branch promises it of every pipeline that ran.       *)
RunningNotInterrupted ==
    [][glMain' # glMain => \A i \in watch : pipelines[i].status # "running"]_vars

(* A commit merged to the main branch on GitHub reaches GitLab, or a       *)
(* pipeline keeps running there.                                           *)
MainReachesGitLab ==
    \A c \in Commits : (ghMain >= c) ~>
        (glMain >= c \/ \E i \in DOMAIN pipelines : pipelines[i].status = "running")

(* A checked head of a mergeable pull request reaches GitLab or is         *)
(* replaced: a deferral ends.                                              *)
DeferralEnds ==
    \A p \in PRs \ (Conflicts \union MayBeUrgent \union MaySkip), n \in 0 .. MaxRev :
        (ghPR[p].rev = n /\ <<p, n>> \in passed) ~>
            (ghPR[p].rev # n \/ (glPR[p] # NoBranch /\ glPR[p].head.rev = n))
=============================================================================
