----------------------------- MODULE PRMirrors ------------------------------
(***************************************************************************)
(* The second part of the weekly job of images/ci-prune-buildcache:        *)
(* prune_pr_mirrors.py deletes the mirrors of pull requests that are not   *)
(* open, are drafts, or were not touched for 14 days.  It lists the        *)
(* mirrors of a repository first and its open pull requests after that,    *)
(* one page at a time and newest first, while pull requests are opened,    *)
(* closed and built.  One repository is modelled: they share nothing.      *)
(***************************************************************************)
EXTENDS Integers, FiniteSets

CONSTANTS
    Numbers,        \* numbers of pull requests: the order of their creation
    PullPage,       \* pull requests in one page of the GitHub API
    MaxPullOps      \* bound: what happens to pull requests, and failures

ASSUME PullAssumption ==
    Numbers \subseteq Nat /\ PullPage \in Nat \ {0} /\ MaxPullOps \in Nat

VARIABLES
    open,           \* the open pull requests
    dormant,        \* those that are drafts, or untouched for 14 days
    mirrors,        \* those with objects under their prefix
    pullOps,        \* events so far
    (* one run *)
    mpc,
    map,            \* pr_mirror_map
    page,           \* the page of pull requests to be read
    steady          \* history: see ActiveMirrorKept

pWorld == <<open, dormant, mirrors, pullOps>>
pVars  == <<pWorld, mpc, map, page, steady>>

PullTypeOK ==
    /\ open \subseteq Numbers /\ dormant \subseteq Numbers /\ mirrors \subseteq Numbers
    /\ pullOps \in 0 .. MaxPullOps /\ mpc \in {"idle", "pulls", "delete"}
    /\ map \subseteq Numbers /\ page \in Nat /\ steady \subseteq Numbers

PullInit ==
    /\ open = {} /\ dormant = {} /\ mirrors = {} /\ pullOps = 0
    /\ mpc = "idle" /\ map = {} /\ page = 0 /\ steady = {}

-----------------------------------------------------------------------------
(***************************************************************************)
(* GitHub, and the jobs that build pull requests.                          *)
(***************************************************************************)
Event == pullOps < MaxPullOps /\ pullOps' = pullOps + 1

Active(p) == p \in open /\ p \notin dormant

OpenPull(p) ==
    /\ Event /\ p \notin open
    /\ open' = open \union {p}
    /\ UNCHANGED <<dormant, mirrors, mpc, map, page, steady>>

(* Between two pages, everything older moves up by one place.              *)
MovesUp(q, p) == q < p /\ page > 1

ClosePull(p) ==
    /\ Event /\ p \in open
    /\ open' = open \ {p} /\ steady' = {q \in steady \ {p} : ~MovesUp(q, p)}
    /\ UNCHANGED <<dormant, mirrors, mpc, map, page>>

GoDormant(p) ==
    /\ Event /\ Active(p)
    /\ dormant' = dormant \union {p} /\ steady' = steady \ {p}
    /\ UNCHANGED <<open, mirrors, mpc, map, page>>

Wake(p) ==
    /\ Event /\ p \in dormant
    /\ dormant' = dormant \ {p}
    /\ UNCHANGED <<open, mirrors, mpc, map, page, steady>>

(* A build job of the pull request pushes its binaries, maybe after it was *)
(* closed.                                                                 *)
PushBinary(p) ==
    /\ Event /\ p \in open \union mirrors
    /\ mirrors' = mirrors \union {p}
    /\ UNCHANGED <<open, dormant, mpc, map, page, steady>>

-----------------------------------------------------------------------------
(***************************************************************************)
(* One run.                                                                *)
(***************************************************************************)
EndPullRun == mpc' = "idle" /\ map' = {} /\ page' = 0 /\ steady' = {}

ListMirrors ==
    /\ mpc = "idle"
    /\ map' = mirrors /\ steady' = {p \in Numbers : Active(p)}
    /\ page' = 1 /\ mpc' = "pulls"
    /\ UNCHANGED pWorld

(* active_prs: page k of get_pulls(state="open").                          *)
Rank(p) == Cardinality({q \in open : q >= p})
OnPage(p) == p \in open /\ PullPage * (page - 1) < Rank(p) /\ Rank(p) <= PullPage * page

YieldedFirst(p) == OnPage(p) /\ p \notin dormant /\ page = 1  \* faulty variant: one page is read
Yielded(p) == OnPage(p) /\ p \notin dormant

ReadPulls ==
    /\ mpc = "pulls"
    /\ map' = {p \in map : ~Yielded(p)}
    /\ IF Cardinality(open) > PullPage * page
       THEN page' = page + 1 /\ UNCHANGED mpc
       ELSE mpc' = "delete" /\ page' = 0
    /\ UNCHANGED <<pWorld, steady>>

(* delete_prefix deletes the objects it listed.                            *)
DeletedNone(p) == mirrors   \* faulty variant: the last batch is not submitted
Deleted(p) == mirrors \ {p}

DeleteMirror(p) ==
    /\ mpc = "delete" /\ p \in map
    /\ mirrors' = Deleted(p) /\ map' = map \ {p}
    /\ UNCHANGED <<open, dormant, pullOps, mpc, page, steady>>

(* delete_batch only reports what could not be deleted, and an object      *)
(* pushed after the listing stays: something is left of the mirror.        *)
DeletePartly(p) ==
    /\ Event /\ mpc = "delete" /\ p \in map
    /\ map' = map \ {p}
    /\ UNCHANGED <<open, dormant, mirrors, mpc, page, steady>>

FinishPulls ==
    /\ mpc = "delete" /\ map = {}
    /\ EndPullRun
    /\ UNCHANGED pWorld

PullRunDies ==
    /\ Event /\ mpc # "idle"
    /\ EndPullRun
    /\ UNCHANGED <<open, dormant, mirrors>>

-----------------------------------------------------------------------------
PullEnv(p) == OpenPull(p) \/ ClosePull(p) \/ GoDormant(p) \/ Wake(p) \/ PushBinary(p)

PullStep == ListMirrors \/ ReadPulls \/ FinishPulls \/ \E p \in Numbers : DeleteMirror(p)

PullNext ==
    \/ PullStep \/ PullRunDies
    \/ \E p \in Numbers : PullEnv(p) \/ DeletePartly(p)

PullSpec == PullInit /\ [][PullNext]_pVars

-----------------------------------------------------------------------------
(* A pull request that was open, not a draft and not stale ever since the  *)
(* mirrors were listed keeps its mirror, however many pages there are and  *)
(* whatever is opened, woken or built between them, unless a newer one was *)
(* closed between two pages: that may move it into a page already read.    *)
SteadyKept == (mirrors \ mirrors') \intersect steady = {}
ActiveMirrorKept == [][SteadyKept]_pVars

(* A pull request that stays closed loses its mirror for good, although    *)
(* deletions fail, runs die and late jobs push to it.                      *)
ClosedMirrorGone == \A p \in Numbers : <>[](p \notin open) => <>[](p \notin mirrors)
=============================================================================
