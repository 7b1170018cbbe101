------------------------------ MODULE KeepList ------------------------------
(***************************************************************************)
(* The first part of the weekly job of images/ci-prune-buildcache          *)
(* (entrypoint.sh, fetch_keeplists.py, prune.py): it collects the hashes   *)
(* the generate jobs of the develop pipelines of the last two weeks have   *)
(* concretized, prunes the build cache of every stack down to them, and    *)
(* the top-level cache last.  Pipelines start, generate and build, and     *)
(* protected-publish copies to the top, between any two of its steps; a    *)
(* failed request, or "set -e", ends the run.                              *)
(***************************************************************************)
EXTENDS Integers, Sequences

CONSTANTS
    KStacks,        \* the stacks of develop
    KSpecs,         \* hashes of concrete specs
    Generated,      \* Generated[i][s]: what pipeline i concretizes for stack s
    Top,            \* the top-level build cache
    MaxDeaths       \* bound: runs that die

Caches == KStacks \union {Top}
KPipes == DOMAIN Generated

ASSUME KeepAssumption ==
    /\ Top \notin KStacks /\ MaxDeaths \in Nat
    /\ Generated \in Seq([KStacks -> SUBSET KSpecs])

VARIABLES
    newest,         \* the pipelines 1 .. newest were created, in this order
    oldest,         \* those from oldest on were updated in the last two weeks
    succeeded,      \* the <<i, s>> whose generate job has succeeded
    stored,         \* stored[c]: the specs in build cache c
    outdated,       \* the caches whose index lists a spec that is gone
    deaths,         \* runs that died
    (* one run *)
    kpc, unread, keep, files, due

kWorld == <<newest, oldest, succeeded, stored, outdated, deaths>>
kRun   == <<kpc, unread, keep, files, due>>
kVars  == <<kWorld, kRun>>

(* Caches and keep lists hold known hashes; a keep list is of a cache.     *)
KeepTypeOK ==
    /\ newest \in Nat /\ oldest \in Nat /\ newest <= Len(Generated)
    /\ succeeded \subseteq KPipes \X KStacks
    /\ stored \in [Caches -> SUBSET KSpecs] /\ outdated \subseteq Caches
    /\ deaths \in 0 .. MaxDeaths /\ kpc \in {"idle", "fetch", "prune", "index"}
    /\ unread \subseteq KPipes /\ keep \in [Caches -> SUBSET KSpecs]
    /\ files \subseteq KStacks \union {Top} /\ due \subseteq KPipes \X KStacks

NoKeep == [c \in Caches |-> {}]

KFresh == kpc = "idle" /\ unread = {} /\ keep = NoKeep /\ files = {} /\ due = {}

KeepInit ==
    /\ newest = 0 /\ oldest = 1 /\ succeeded = {}
    /\ stored = NoKeep /\ outdated = {} /\ deaths = 0
    /\ KFresh

-----------------------------------------------------------------------------
(***************************************************************************)
(* GitLab, its runners, and protected-publish.                             *)
(***************************************************************************)
CreatePipeline ==
    /\ newest < Len(Generated) /\ newest' = newest + 1
    /\ UNCHANGED <<oldest, succeeded, stored, outdated, deaths, kRun>>

Generate(i, s) ==
    /\ i <= newest /\ Generated[i][s] # {}
    /\ succeeded' = succeeded \union {<<i, s>>}
    /\ UNCHANGED <<newest, oldest, stored, outdated, deaths, kRun>>

LeaveWindow ==
    /\ oldest <= newest /\ oldest' = oldest + 1
    /\ UNCHANGED <<newest, succeeded, stored, outdated, deaths, kRun>>

Put(c, h) ==
    /\ stored' = [stored EXCEPT ![c] = @ \union {h}]
    /\ UNCHANGED <<newest, oldest, succeeded, outdated, deaths, kRun>>

BuildSpec(i, s, h) == <<i, s>> \in succeeded /\ h \in Generated[i][s] /\ Put(s, h)

PublishSpec(s, h) == h \in stored[s] /\ Put(Top, h)

-----------------------------------------------------------------------------
(***************************************************************************)
(* One run.                                                                *)
(***************************************************************************)
EndKeepRun ==
    /\ kpc' = "idle" /\ unread' = {} /\ keep' = NoKeep /\ files' = {} /\ due' = {}

(* main() lists the pipelines of the window.                               *)
ListPipelines ==
    /\ kpc = "idle"
    /\ unread' = {i \in KPipes : oldest <= i /\ i <= newest}
    /\ due' = {w \in succeeded : oldest <= w[1] /\ w[1] <= newest}
    /\ kpc' = "fetch" /\ files' = {Top}
    /\ UNCHANGED <<kWorld, keep>>

(* process_pipeline, and main()'s merge of its result: each successful     *)
(* generate job adds to the list of its stack and to develop's.            *)
GenerateJobs(i) == {s \in KStacks : <<i, s>> \in succeeded}

AddedLast(i) ==   \* faulty variant: the result of one pipeline replaces another's
    [c \in Caches |-> IF c = Top \/ c \in GenerateJobs(i)
                      THEN UNION {Generated[i][s] : s \in GenerateJobs(i) \intersect
                                     (IF c = Top THEN KStacks ELSE {c})}
                      ELSE keep[c]]
Added(i) ==
    [c \in Caches |-> keep[c] \union
        UNION {Generated[i][s] : s \in {t \in GenerateJobs(i) : c \in {t, Top}}}]

ProcessPipeline(i) ==
    /\ kpc = "fetch" /\ i \in unread
    /\ keep' = Added(i)
    /\ files' = files \union GenerateJobs(i)
    /\ unread' = unread \ {i}
    /\ UNCHANGED <<kWorld, kpc, due>>

WriteLists ==
    /\ kpc = "fetch" /\ unread = {}
    /\ kpc' = "prune"
    /\ UNCHANGED <<kWorld, unread, keep, files, due>>

(* prune_stack: a stack has a keep list only when one of its generate jobs *)
(* succeeded; the top-level cache comes last.                              *)
Turn(c) == c \in files /\ (c = Top => files = {Top})

Remove(c, H) ==
    /\ stored' = [stored EXCEPT ![c] = @ \ H]
    /\ outdated' = IF stored[c] \intersect H = {} THEN outdated ELSE outdated \union {c}
    /\ UNCHANGED <<newest, oldest, succeeded>>

PruneCache(c) ==
    /\ kpc = "prune" /\ Turn(c)
    /\ Remove(c, KSpecs \ keep[c])
    /\ kpc' = "index"
    /\ UNCHANGED <<deaths, unread, keep, files, due>>

(* spack buildcache update-index.                                          *)
ReindexedStacks(c) == outdated \ ({c} \ {Top})   \* faulty variant: develop is left out
Reindexed(c) == outdated \ {c}

UpdateIndex(c) ==
    /\ kpc = "index" /\ Turn(c)
    /\ outdated' = Reindexed(c)
    /\ IF files = {c} THEN EndKeepRun
       ELSE /\ kpc' = "prune" /\ files' = files \ {c}
            /\ UNCHANGED <<unread, keep, due>>
    /\ UNCHANGED <<newest, oldest, succeeded, stored, deaths>>

(* A request, an artifact or spack fails, perhaps with part of a cache     *)
(* pruned: nothing is caught and the run is over.                          *)
KeepRunDies ==
    /\ kpc # "idle" /\ deaths < MaxDeaths /\ deaths' = deaths + 1
    /\ \E c \in Caches, H \in SUBSET KSpecs :
          /\ H # {} => kpc = "prune" /\ Turn(c)
          /\ Remove(c, H \ keep[c])
    /\ EndKeepRun

-----------------------------------------------------------------------------
KeepEnv ==
    \/ CreatePipeline \/ LeaveWindow
    \/ \E i \in KPipes, s \in KStacks :
          Generate(i, s) \/ \E h \in KSpecs : BuildSpec(i, s, h)
    \/ \E s \in KStacks, h \in KSpecs : PublishSpec(s, h)

KeepStep ==
    \/ ListPipelines \/ WriteLists
    \/ \E i \in KPipes : ProcessPipeline(i)
    \/ \E c \in Caches : PruneCache(c) \/ UpdateIndex(c)

KeepNext == KeepEnv \/ KeepStep \/ KeepRunDies

KeepSpec == KeepInit /\ [][KeepNext]_kVars

-----------------------------------------------------------------------------
(* Pruning never takes a spec which a generate job that had succeeded when *)
(* the run began, in a pipeline of the window, wants in this cache: other  *)
(* pipelines and stacks add to the lists and take nothing from them.       *)
Wanted(c) == UNION {Generated[w[1]][w[2]] : w \in {v \in due : c \in {v[2], Top}}}
WantedKept ==
    \A c \in Caches : (stored[c] \ stored'[c]) \intersect Wanted(c) = {}
KeepsWanted == [][WantedKept]_kVars

(* However often a run dies with a cache half pruned, the index of the     *)
(* top-level cache agrees with it again and again.                         *)
TopIndexFollows == []<>(Top \notin outdated)
=============================================================================
