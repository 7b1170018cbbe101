----------------------------- MODULE SyncStatus -----------------------------
(***************************************************************************)
(* The statuses each run of images/gh-gl-sync/SpackCIBridge.py posts, with *)
(* one context, about the heads of a pull request.  list_github_prs sorts  *)
(* the pull request; of one that is synchronised post_pipeline_status      *)
(* copies the state of the pipelines of its branch that were updated       *)
(* within the last hour to the heads they test; of one that is held back   *)
(* it says so on the head.  GitLab's answer lists pipelines newest first   *)
(* and may be old when the last of them is posted.  One pull request is    *)
(* modelled: each is sorted and queried for itself.                        *)
(***************************************************************************)
EXTENDS Integers, Sequences

CONSTANTS
    HeadsOfPR,      \* the heads the pull request goes through
    Merges,         \* merges of a head that are pushed (1: the first)
    MaxPipelines,   \* bound: pipelines of the branch
    MaxReports,     \* bound: a finished pipeline is run again
    MaxTurns,       \* bound: changes of the pull request, deletions of its branch
    WindowSyncs,    \* runs that end within time_threshold_brief
    MaxPostFaults   \* bound: failed requests and runs that die

ASSUME StatusAssumption ==
    /\ Merges \subseteq Nat /\ MaxPipelines \in Nat /\ MaxReports \in Nat /\ MaxTurns \in Nat
    /\ MaxPostFaults \in Nat /\ WindowSyncs \in Nat /\ MaxPostFaults + 1 < WindowSyncs

Finished == {"success", "failed", "canceled"}
States   == Finished \union {"running"}

(* A pipeline of the branch: the head and the merge it tests, its state,   *)
(* how many pipelines were updated since it was, and how many runs ended.  *)
Lines == [head : HeadsOfPR, merge : Merges, state : States,
          age : Nat, syncs : 0 .. WindowSyncs]
NoMerge == <<>>

(* How a run sorts the pull request.  Synchronised: GitLab has its head,   *)
(* or a merge of it is to be pushed.  "backlogged": base, draft, checks or *)
(* GitHub out of sync, and "unmergeable" get a status; "left out" does     *)
(* not: stale, without the label, closed, or passed over.                  *)
Synchronised == {"on GitLab", "merged"}
Verdicts     == {"backlogged", "unmergeable"}
Sorts        == Synchronised \union Verdicts \union {"left out"}
Word == [v \in Verdicts |-> IF v = "backlogged" THEN "pending" ELSE "error"]

VARIABLES
    pull,           \* the head of the pull request; is it open, not stale, not a draft
    lines,          \* the pipelines by id
    branch,         \* what GitLab's branch holds: the head and the merge of it
    status,         \* status[h]: what GitHub shows for head h, of which pipeline
    again, turns, postFaults,
    (* one run *)
    syncpc, sorted, sortedHead,
    toPost          \* what is still to be posted: of which pipeline, which state

gitlabLines == <<lines, branch, again>>
syncRun     == <<syncpc, sorted, sortedHead, toPost>>
statusVars  == <<pull, gitlabLines, status, turns, postFaults, syncRun>>

LineIds == 1 .. Len(lines)
Posts   == [lead : LineIds, line : LineIds, state : States]
NoStatus == <<0, "none">>
Shown   == (LineIds \X States) \union {NoStatus} \union {<<0, Word[v]>> : v \in Verdicts}

StatusTypeOK ==
    /\ pull \in [head : HeadsOfPR, ready : BOOLEAN]
    /\ lines \in Seq(Lines) /\ Len(lines) <= MaxPipelines
    /\ branch \in (HeadsOfPR \X Merges) \union {NoMerge}
    /\ status \in [HeadsOfPR -> Shown]
    /\ again \in 0 .. MaxReports /\ turns \in 0 .. MaxTurns /\ postFaults \in 0 .. MaxPostFaults
    /\ syncpc \in {"idle", "sorted", "post"} /\ sorted \in Sorts /\ sortedHead \in HeadsOfPR
    /\ toPost \subseteq Posts

StatusInit ==
    /\ pull \in [head : HeadsOfPR, ready : BOOLEAN]
    /\ lines = <<>> /\ branch = NoMerge /\ again = 0 /\ turns = 0
    /\ status = [h \in HeadsOfPR |-> NoStatus] /\ postFaults = 0
    /\ syncpc = "idle" /\ sorted = "left out" /\ sortedHead = pull.head /\ toPost = {}

Turn      == turns < MaxTurns /\ turns' = turns + 1 /\ UNCHANGED postFaults
PostFault == postFaults < MaxPostFaults /\ postFaults' = postFaults + 1 /\ UNCHANGED turns

-----------------------------------------------------------------------------
(***************************************************************************)
(* The pull request, and GitLab.                                           *)
(***************************************************************************)
(* A new head; a pull request becomes a draft, stale or closed, or returns. *)
TurnPull(h, ready) ==
    /\ Turn /\ pull' = [head |-> h, ready |-> ready] /\ pull' # pull
    /\ UNCHANGED <<gitlabLines, status, syncRun>>

(* The branch is deleted; its pipelines are not.                           *)
DropBranch ==
    /\ branch # NoMerge /\ Turn /\ branch' = NoMerge
    /\ UNCHANGED <<pull, lines, again, status, syncRun>>

GitHubSame == UNCHANGED <<pull, branch, status, turns, postFaults, syncRun>>

(* GitLab for a push, a user or another job starts one for the branch.     *)
LaunchPipeline ==
    /\ branch # NoMerge /\ Len(lines) < MaxPipelines
    /\ lines' = Append([j \in LineIds |-> [lines[j] EXCEPT !.age = @ + 1]],
                       [head |-> branch[1], merge |-> branch[2], state |-> "running",
                        age |-> 0, syncs |-> 0])
    /\ UNCHANGED again /\ GitHubSame

(* Pipeline i becomes the one that was updated last.                       *)
Updated(i, st) ==
    /\ lines' = [j \in LineIds |->
                    IF j = i
                    THEN [head |-> lines[i].head, merge |-> lines[i].merge, state |-> st,
                          age |-> 0, syncs |-> 0]
                    ELSE IF lines[j].age < lines[i].age
                    THEN [lines[j] EXCEPT !.age = @ + 1]
                    ELSE lines[j]]
    /\ GitHubSame

EndPipeline(i, st) == lines[i].state = "running" /\ Updated(i, st) /\ UNCHANGED again

RunAgain(i) ==
    /\ lines[i].state \in Finished /\ again < MaxReports /\ again' = again + 1
    /\ Updated(i, "running")

-----------------------------------------------------------------------------
(***************************************************************************)
(* list_github_prs.                                                        *)
(***************************************************************************)
(* A head that GitLab has needs no check but that the pull request is      *)
(* open, not stale and not a draft; of another the checks, the label, its  *)
(* base and the merge decide.                                              *)
OnGitLab == branch # NoMerge /\ branch[1] = pull.head
MaySort(s) ==
    \/ ~pull.ready /\ s \in {"backlogged", "left out"}
    \/ pull.ready /\ OnGitLab /\ s = "on GitLab"
    \/ pull.ready /\ ~OnGitLab /\ s \in Sorts \ {"on GitLab"}

SortPull ==
    /\ syncpc = "idle" /\ syncpc' = "sorted"
    /\ \E s \in Sorts : MaySort(s) /\ sorted' = s
    /\ sortedHead' = pull.head
    /\ UNCHANGED <<pull, gitlabLines, status, turns, postFaults, toPost>>

PushMerge(m) ==
    /\ syncpc = "sorted" /\ sorted = "merged"
    /\ branch' = <<sortedHead, m>> /\ sorted' = "on GitLab"
    /\ UNCHANGED <<pull, lines, again, status, turns, postFaults, syncpc, sortedHead, toPost>>

-----------------------------------------------------------------------------
(***************************************************************************)
(* post_pipeline_status.                                                   *)
(***************************************************************************)
(* dedupe_pipelines: of each tested commit the pipeline updated last, at   *)
(* the place of the first one listed (lead), the newest.                   *)
CommitOf(i) == <<lines[i].head, lines[i].merge>>
InAnswer(i) == lines[i].syncs < WindowSyncs
LaterOf(i, j) == IF lines[j].age < lines[i].age THEN j ELSE i
FirstListed(i, j) == IF i < j THEN j ELSE i   \* faulty variant: the one started last
Preferred(i, j) == LaterOf(i, j)

Same(i)  == {j \in LineIds : InAnswer(j) /\ CommitOf(j) = CommitOf(i)}
Leads(i) == InAnswer(i) /\ \A j \in Same(i) : j <= i
Dedupe ==
    {w \in Posts : /\ Leads(w.lead) /\ w.line \in Same(w.lead)
                   /\ \A k \in Same(w.lead) : Preferred(w.line, k) = w.line
                   /\ w.state = lines[w.line].state}

(* Only the pipelines of a synchronised pull request are asked for.        *)
QueryStatus ==
    /\ syncpc = "sorted" /\ sorted # "merged" /\ syncpc' = "post"
    /\ \/ /\ toPost' = IF sorted \in Synchronised THEN Dedupe ELSE {}
          /\ UNCHANGED <<turns, postFaults>>
       \/ sorted \in Synchronised /\ PostFault /\ toPost' = {}
    /\ UNCHANGED <<pull, gitlabLines, status, sorted, sortedHead>>

(* find_pr_sha and create_status_for_commit; a canceled pipeline is passed *)
(* over (make_status_for_pipeline), a failed request is only reported: the *)
(* status goes to another commit or to none.                               *)
PostNext(w) ==
    /\ syncpc = "post" /\ w \in toPost /\ \A v \in toPost : v.lead <= w.lead
    /\ LET h == lines[w.line].head
       IN  \/ /\ status' = IF w.state = "canceled" THEN status
                           ELSE [status EXCEPT ![h] = <<w.line, w.state>>]
              /\ UNCHANGED <<turns, postFaults>>
           \/ PostFault /\ UNCHANGED status
    /\ toPost' = toPost \ {w}
    /\ UNCHANGED <<pull, gitlabLines, syncpc, sorted, sortedHead>>

(* The last statuses of a run: its verdict on the head it has read.        *)
PostVerdict ==
    /\ syncpc = "post" /\ sorted \in Verdicts
    /\ \/ /\ status' = [status EXCEPT ![sortedHead] = <<0, Word[sorted]>>]
          /\ UNCHANGED <<turns, postFaults>>
       \/ PostFault /\ UNCHANGED status
    /\ sorted' = "left out"
    /\ UNCHANGED <<pull, gitlabLines, syncpc, sortedHead, toPost>>

EndPosting ==
    /\ syncpc' = "idle" /\ sorted' = "left out" /\ sortedHead' = pull.head /\ toPost' = {}
    /\ lines' = [i \in LineIds |-> [lines[i] EXCEPT !.syncs = IF InAnswer(i) THEN @ + 1 ELSE @]]
    /\ UNCHANGED <<pull, branch, again, status>>

FinishPosting ==
    /\ syncpc = "post" /\ toPost = {} /\ sorted \notin Verdicts
    /\ EndPosting /\ UNCHANGED <<turns, postFaults>>

PostingDies == syncpc # "idle" /\ PostFault /\ EndPosting

-----------------------------------------------------------------------------
StatusStep ==
    \/ SortPull \/ QueryStatus \/ PostVerdict \/ FinishPosting
    \/ \E m \in Merges : PushMerge(m)
    \/ \E w \in toPost : PostNext(w)

StatusNext ==
    \/ StatusStep \/ PostingDies
    \/ LaunchPipeline \/ DropBranch
    \/ \E h \in HeadsOfPR, ready \in BOOLEAN : TurnPull(h, ready)
    \/ \E i \in LineIds : RunAgain(i) \/ \E st \in Finished : EndPipeline(i, st)

StatusSpec == StatusInit /\ [][StatusNext]_statusVars

-----------------------------------------------------------------------------
(* A head that was merged and pushed once shows in the end the state of    *)
(* the pipeline that was updated last, unless that was canceled, although  *)
(* requests fail, runs die, answers are old when they are posted, the head *)
(* was held back before, and after an hour GitLab's answer leaves the      *)
(* pipeline out.  When the pipeline last changed every run must have begun *)
(* to synchronise the pull request: while it is held back its pipelines    *)
(* are not asked for, and what ends then may never be shown.               *)
OfHead(h) == {i \in LineIds : lines[i].head = h}
LastOf(h) == {i \in OfHead(h) : \A j \in OfHead(h) : LaterOf(i, j) = i}
JustChanged(h) == \E i \in LastOf(h) : lines[i].syncs = 0
Followed == syncpc # "idle" => sorted \in Synchronised
Settled(h) ==
    (\A i, j \in OfHead(h) : lines[i].merge = lines[j].merge) =>
        \A i \in LastOf(h) : lines[i].state # "canceled" => status[h] = <<i, lines[i].state>>
StatusSettles == \A h \in HeadsOfPR : <>(JustChanged(h) /\ []Followed) => <>[]Settled(h)
=============================================================================
