------------------------------ MODULE Janitors ------------------------------
(***************************************************************************)
(* Three jobs that clean up after the synchronisation on GitLab:           *)
(* skipped_pipelines.py starts a pipeline for branch heads without one,    *)
(* delete_stale_branches.py deletes branches nobody has pushed to for 100  *)
(* days, cancel_and_restart_stuck_pipelines.py (suspended, started by      *)
(* hand) restarts and cancels pipelines that run for too long.  Each works *)
(* through a listing while the synchronisation pushes, GitLab starts       *)
(* pipelines and the others act.                                           *)
(***************************************************************************)
EXTENDS Integers, FiniteSets

CONSTANTS
    Branches,       \* branches of pull requests
    MaxTip,         \* bound: pushes to a branch
    MaxJanOps,      \* bound: what authors and pipelines do
    MaxJanFaults    \* bound: failed requests and runs that die

ASSUME JanitorAssumption ==
    MaxTip \in Nat /\ MaxJanOps \in Nat /\ MaxJanFaults \in Nat

(* A head is a branch and the number of the push that made it; 0: none.    *)
Heads == Branches \X (1 .. MaxTip)

VARIABLES
    proposed,       \* the branches of open pull requests
    tip, pushes,    \* the number of the head of each branch on GitLab; its pushes
    recent,         \* those pushed to within the last hour
    named,          \* those of them with a push event that names the branch
    aged,           \* those whose head is older than the threshold
    tested,         \* heads with a pipeline, whatever became of it
    running, stuck, \* heads with a running pipeline, heads with one for too long
    second,         \* heads that got a pipeline when they had one
    janOps, janFaults,
    (* skipped_pipelines.py *)
    skpc, pushed, heads, bare,
    calm,           \* history: its last push was named or is old, not pushed to or
                    \* restarted since, no query failed
    (* cancel_and_restart_stuck_pipelines.py, delete_stale_branches.py *)
    stuckTodo, restarted, staleTodo

gitlab   == <<proposed, tip, pushes, recent, named, aged, tested, running, stuck, second>>
skipRun  == <<skpc, pushed, heads, bare, calm>>
otherRun == <<stuckTodo, restarted, staleTodo>>
janVars  == <<gitlab, janOps, janFaults, skipRun, otherRun>>

JanitorTypeOK ==
    /\ proposed \subseteq Branches
    /\ tip \in [Branches -> 0 .. MaxTip] /\ pushes \in [Branches -> 0 .. MaxTip]
    /\ recent \subseteq Branches /\ named \subseteq recent /\ aged \subseteq Branches
    /\ tested \subseteq Heads /\ running \subseteq tested /\ stuck \subseteq tested
    /\ second \subseteq tested
    /\ janOps \in 0 .. MaxJanOps /\ janFaults \in 0 .. MaxJanFaults
    /\ skpc \in {"idle", "branches", "check", "post"}
    /\ pushed \subseteq Branches /\ heads \subseteq Heads
    /\ bare \in {{}} \union {{h} : h \in Heads} /\ calm \subseteq Branches
    /\ stuckTodo \subseteq Heads /\ restarted \subseteq stuckTodo
    /\ staleTodo \subseteq Branches

JanitorInit ==
    /\ proposed = {} /\ recent = {} /\ named = {} /\ aged = {}
    /\ tip = [b \in Branches |-> 0] /\ pushes = [b \in Branches |-> 0]
    /\ tested = {} /\ running = {} /\ stuck = {} /\ second = {}
    /\ janOps = 0 /\ janFaults = 0
    /\ skpc = "idle" /\ pushed = {} /\ heads = {} /\ bare = {} /\ calm = {}
    /\ stuckTodo = {} /\ restarted = {} /\ staleTodo = {}

JanOp    == janOps < MaxJanOps /\ janOps' = janOps + 1 /\ UNCHANGED janFaults
JanFault == janFaults < MaxJanFaults /\ janFaults' = janFaults + 1 /\ UNCHANGED janOps

-----------------------------------------------------------------------------
(***************************************************************************)
(* Authors, the synchronisation, GitLab.                                   *)
(***************************************************************************)
Propose(b) ==
    /\ JanOp
    /\ proposed' = IF b \in proposed THEN proposed \ {b} ELSE proposed \union {b}
    /\ UNCHANGED <<tip, pushes, recent, named, aged, tested, running, stuck, second, skipRun, otherRun>>

(* A push of several branches at once may leave one event for all of them, *)
(* which names none.                                                       *)
PushBranch(b) ==
    /\ b \in proposed /\ pushes[b] < MaxTip
    /\ pushes' = [pushes EXCEPT ![b] = pushes[b] + 1]
    /\ tip' = [tip EXCEPT ![b] = pushes[b] + 1]
    /\ recent' = recent \union {b} /\ named' \in {named \union {b}, named \ {b}}
    /\ aged' = aged \ {b} /\ calm' = calm \ {b}
    /\ UNCHANGED <<proposed, tested, running, stuck, second, skpc, pushed, heads, bare, otherRun>>

(* The author has pushed; or the branch is gone and has to come back.      *)
SyncUpdate(b) == JanOp /\ tip[b] # 0 /\ PushBranch(b)
SyncRestore(b) == tip[b] = 0 /\ PushBranch(b) /\ UNCHANGED <<janOps, janFaults>>

NewPipeline(b) ==
    /\ tip[b] # 0
    /\ tested' = tested \union {<<b, tip[b]>>}
    /\ running' = running \union {<<b, tip[b]>>}
    /\ second' = second \union ({<<b, tip[b]>>} \intersect tested)
    /\ UNCHANGED <<proposed, tip, pushes, recent, named, aged, stuck>>

(* GitLab starts a pipeline for a push soon, or skips it.                  *)
GitLabStarts(b) ==
    /\ b \in recent /\ <<b, tip[b]>> \notin tested
    /\ NewPipeline(b)
    /\ UNCHANGED <<janOps, janFaults, skipRun, otherRun>>

HourPasses(b) ==
    /\ b \in recent /\ recent' = recent \ {b} /\ named' = named \ {b}
    /\ UNCHANGED <<proposed, tip, pushes, aged, tested, running, stuck, second, janOps, janFaults,
                   skipRun, otherRun>>

MonthsPass(b) ==
    /\ JanOp /\ tip[b] # 0 /\ b \notin recent \union aged
    /\ aged' = aged \union {b}
    /\ UNCHANGED <<proposed, tip, pushes, recent, named, tested, running, stuck, second, skipRun,
                   otherRun>>

(* A pipeline ends, or runs for so long that it counts as stuck.           *)
PipelineEnds(h) ==
    /\ h \in running /\ running' = running \ {h}
    /\ UNCHANGED <<proposed, tip, pushes, recent, named, aged, tested, stuck, second, janOps, janFaults,
                   skipRun, otherRun>>

PipelineHangs(h) ==
    /\ JanOp /\ h \in running
    /\ running' = running \ {h} /\ stuck' = stuck \union {h}
    /\ UNCHANGED <<proposed, tip, pushes, recent, named, aged, tested, second, skipRun, otherRun>>

-----------------------------------------------------------------------------
(***************************************************************************)
(* find_and_run_skipped_pipelines.  paginate() answers a query that fails  *)
(* with an empty list; an event without a branch is passed over.           *)
(***************************************************************************)
EndSkip == skpc' = "idle" /\ pushed' = {} /\ heads' = {} /\ bare' = {} /\ calm' = {}

ReadEvents ==
    /\ skpc = "idle" /\ skpc' = "branches"
    /\ \/ pushed' = named /\ calm' = (Branches \ recent) \union named
          /\ UNCHANGED <<janOps, janFaults>>
       \/ JanFault /\ pushed' = {} /\ calm' = {}
    /\ UNCHANGED <<gitlab, heads, bare, otherRun>>

ListedHeadsAll == {<<b, tip[b]>> : b \in Branches}   \* faulty variant: deleted ones too
ListedHeads == {<<b, tip[b]>> : b \in {c \in Branches : tip[c] # 0}}

ReadBranches ==
    /\ skpc = "branches" /\ skpc' = "check"
    /\ \/ heads' = ListedHeads
          /\ UNCHANGED <<janOps, janFaults>>
       \/ JanFault /\ heads' = {}
    /\ UNCHANGED <<gitlab, pushed, bare, calm, otherRun>>

LeftOutAll(h) == FALSE     \* faulty variant: branches just pushed are looked at too
LeftOut(h) == h[1] \in pushed
KnownByBranch(h) == \E r \in 1 .. MaxTip : <<h[1], r>> \in tested  \* faulty variant
Known(h) == h \in tested

CheckHead(h) ==
    /\ skpc = "check" /\ h \in heads /\ heads' = heads \ {h}
    /\ \/ /\ LeftOut(h) \/ Known(h)
          /\ UNCHANGED <<skpc, bare, calm, janOps, janFaults>>
       \/ /\ ~LeftOut(h) /\ ~Known(h)
          /\ skpc' = "post" /\ bare' = {h}
          /\ UNCHANGED <<calm, janOps, janFaults>>
       \/ /\ ~LeftOut(h) /\ JanFault
          /\ skpc' = "post" /\ bare' = {h} /\ calm' = calm \ {h[1]}
    /\ UNCHANGED <<gitlab, pushed, otherRun>>

(* run_new_pipeline: GitLab takes the head of the branch by now, and       *)
(* refuses when the branch is gone; a failure is only reported.            *)
StartSkipped(h) ==
    /\ skpc = "post" /\ h \in bare
    /\ skpc' = "check" /\ bare' = {}
    /\ \/ NewPipeline(h[1]) /\ UNCHANGED <<janOps, janFaults>>
       \/ tip[h[1]] = 0 /\ UNCHANGED <<gitlab, janOps, janFaults>>
       \/ JanFault /\ UNCHANGED gitlab
    /\ UNCHANGED <<pushed, heads, calm, otherRun>>

FinishSkip ==
    /\ skpc = "check" /\ heads = {}
    /\ EndSkip
    /\ UNCHANGED <<gitlab, janOps, janFaults, otherRun>>

SkipDies ==
    /\ skpc # "idle" /\ JanFault
    /\ EndSkip
    /\ UNCHANGED <<gitlab, otherRun>>

-----------------------------------------------------------------------------
(***************************************************************************)
(* cancel_and_restart_stuck_pipelines.  The answer to the request for a    *)
(* new pipeline is not looked at.                                          *)
(***************************************************************************)
ListStuck ==
    /\ stuckTodo = {} /\ stuck # {} /\ stuckTodo' = stuck
    /\ UNCHANGED <<gitlab, janOps, janFaults, skipRun, restarted, staleTodo>>

RestartStuck(h) ==
    /\ h \in stuckTodo  /\ restarted = {}
    /\ restarted' = {h}
    /\ \/ NewPipeline(h[1]) /\ calm' = calm \ {h[1]} /\ UNCHANGED <<janOps, janFaults>>
       \/ tip[h[1]] = 0 /\ UNCHANGED <<gitlab, calm, janOps, janFaults>>
       \/ JanFault /\ UNCHANGED <<gitlab, calm>>
    /\ UNCHANGED <<skpc, pushed, heads, bare, stuckTodo, staleTodo>>

(* cancel_downstream_pipelines: the children, then the pipeline.           *)
CancelStuck(h) ==
    /\ h \in restarted
    /\ stuck' = stuck \ {h}
    /\ stuckTodo' = stuckTodo \ {h} /\ restarted' = {}
    /\ UNCHANGED <<proposed, tip, pushes, recent, named, aged, tested, running, second, janOps, janFaults,
                   skipRun, staleTodo>>

StuckDies ==
    /\ stuckTodo # {} /\ JanFault
    /\ stuckTodo' = {} /\ restarted' = {}
    /\ UNCHANGED <<gitlab, skipRun, staleTodo>>

-----------------------------------------------------------------------------
(***************************************************************************)
(* delete_stale_branches.                                                  *)
(***************************************************************************)
ListStale ==
    /\ staleTodo = {} /\ aged # {} /\ staleTodo' = aged
    /\ UNCHANGED <<gitlab, janOps, janFaults, skipRun, stuckTodo, restarted>>

DeleteStale(b) ==
    /\ b \in staleTodo /\ staleTodo' = staleTodo \ {b}
    /\ tip' = [tip EXCEPT ![b] = 0]
    /\ recent' = recent \ {b} /\ named' = named \ {b} /\ aged' = aged \ {b}
    /\ UNCHANGED <<proposed, pushes, tested, running, stuck, second, janOps, janFaults, skipRun,
                   stuckTodo, restarted>>

StaleDies ==
    /\ staleTodo # {} /\ JanFault
    /\ staleTodo' = {}
    /\ UNCHANGED <<gitlab, skipRun, stuckTodo, restarted>>

-----------------------------------------------------------------------------
BranchEnv(b) ==
    Propose(b) \/ SyncUpdate(b) \/ GitLabStarts(b) \/ HourPasses(b) \/ MonthsPass(b)

SkipStep ==
    \/ ReadEvents \/ ReadBranches \/ FinishSkip
    \/ \E h \in Heads : CheckHead(h) \/ StartSkipped(h)

StaleStep == ListStale \/ \E b \in Branches : DeleteStale(b)

StuckStep == ListStuck \/ \E h \in Heads : RestartStuck(h) \/ CancelStuck(h)

JanitorNext ==
    \/ SkipStep \/ StaleStep \/ StuckStep
    \/ SkipDies \/ StaleDies \/ StuckDies
    \/ \E b \in Branches : BranchEnv(b) \/ SyncRestore(b)
    \/ \E h \in Heads : PipelineEnds(h) \/ PipelineHangs(h)

JanitorSpec == JanitorInit /\ [][JanitorNext]_janVars

-----------------------------------------------------------------------------
StartedBySkipped == skpc = "post" /\ skpc' = "check"

(* The skipped pipelines job starts no second pipeline for a head of a     *)
(* branch which, since its run began, nobody pushed to or restarted, unless *)
(* a query about it failed, or it was last pushed with others within the   *)
(* hour: to other pushes it leaves GitLab an hour to start its own.        *)
SecondWhenDisturbed ==
    StartedBySkipped => \A h \in second' \ second : h[1] \notin calm
SecondOnlyIfDisturbed == [][SecondWhenDisturbed]_janVars

(* The branch of a pull request that stays open gets tested, although      *)
(* GitLab skips pipelines, runs die, and the branch may be deleted under a *)
(* push: the synchronisation restores it.                                  *)
OpenGetsTested ==
    \A b \in Branches : <>[](b \in proposed) => []<>(<<b, tip[b]>> \in tested)
=============================================================================
