---------------------------- MODULE SnapshotTags ----------------------------
(***************************************************************************)
(* images/snapshot-release-tags/snapshot_release_tags.py: every three days *)
(* it points snapshots/develop-latest at the commit of the newest develop  *)
(* pipeline that succeeded and, if that moved it, a tag with the date of   *)
(* the day as well.  Pipelines start, succeed, and are run again between   *)
(* any two of its requests; a request that fails ends the run.             *)
(***************************************************************************)
EXTENDS Integers

CONSTANTS
    Commits,        \* commits of develop: the numbers of their pipelines
    Days,           \* numbers of the days
    MaxReruns,      \* bound: succeeded pipelines that are run again
    MaxSnapFaults   \* bound: runs that die

ASSUME SnapshotAssumption ==
    /\ Commits \subseteq Nat \ {0} /\ Days \subseteq Nat
    /\ MaxReruns \in Nat /\ MaxSnapFaults \in Nat

NoTag == 0

VARIABLES
    good,           \* commits whose pipeline counts as succeeded
    created,        \* the newest commit with a pipeline
    day,
    latestTag,      \* what snapshots/develop-latest names
    datedTag,       \* datedTag[d]: what snapshots/develop-<date> names
    reruns, snapFaults,
    (* one run *)
    spc, sha, found,
    tagDay          \* date_str

snapWorld == <<good, created, day, reruns>>
snapTags  == <<latestTag, datedTag>>
snapVars  == <<snapWorld, snapTags, snapFaults, spc, sha, found, tagDay>>

SnapshotTypeOK ==
    /\ good \subseteq Commits /\ created \in Nat /\ day \in Days
    /\ latestTag \in Commits \union {NoTag} /\ datedTag \in [Days -> Commits \union {NoTag}]
    /\ reruns \in 0 .. MaxReruns /\ snapFaults \in 0 .. MaxSnapFaults
    /\ spc \in {"idle", "getLatest", "setLatest", "getDated", "setDated"}
    /\ sha \in Commits \union {NoTag} /\ found \in Commits \union {NoTag}
    /\ tagDay \in Days \union {NoTag}

SnapshotInit ==
    /\ good = {} /\ created = 0 /\ day \in Days /\ \A d \in Days : day <= d
    /\ latestTag = NoTag /\ datedTag = [d \in Days |-> NoTag]
    /\ reruns = 0 /\ snapFaults = 0
    /\ spc = "idle" /\ sha = NoTag /\ found = NoTag /\ tagDay = NoTag

-----------------------------------------------------------------------------
(***************************************************************************)
(* GitLab.  A day begins; a pipeline starts, succeeds, is run again.       *)
(***************************************************************************)
SnapSame == UNCHANGED <<snapTags, snapFaults, spc, sha, found, tagDay>>

NextDay ==
    /\ day + 1 \in Days /\ day' = day + 1
    /\ UNCHANGED <<good, created, reruns>> /\ SnapSame

CreateDevelop ==
    /\ created + 1 \in Commits /\ created' = created + 1
    /\ UNCHANGED <<good, day, reruns>> /\ SnapSame

Succeed(c) ==
    /\ c <= created /\ c \notin good /\ good' = good \union {c}
    /\ UNCHANGED <<created, day, reruns>> /\ SnapSame

Rerun(c) ==
    /\ c \in good /\ reruns < MaxReruns /\ reruns' = reruns + 1
    /\ good' = good \ {c}
    /\ UNCHANGED <<created, day>> /\ SnapSame

-----------------------------------------------------------------------------
(***************************************************************************)
(* One run.                                                                *)
(***************************************************************************)
EndSnapshot == spc' = "idle" /\ sha' = NoTag /\ found' = NoTag /\ tagDay' = NoTag

(* pipelines[0]: the list is sorted by pipeline, newest first.             *)
Newest(c) == c \in good /\ \A e \in good : e <= c

FindNewest(c) ==
    /\ spc = "idle" /\ Newest(c)
    /\ sha' = c /\ spc' = "getLatest"
    /\ UNCHANGED <<snapWorld, snapTags, snapFaults, found, tagDay>>

(* create_or_update_ref, twice.                                            *)
GetLatest ==
    /\ spc = "getLatest"
    /\ IF latestTag = sha THEN EndSnapshot
       ELSE found' = latestTag /\ spc' = "setLatest" /\ UNCHANGED <<sha, tagDay>>
    /\ UNCHANGED <<snapWorld, snapTags, snapFaults>>

MovedCreate == IF found = NoTag THEN sha ELSE latestTag   \* faulty: never updates
Moved == sha

SetLatest ==
    /\ spc = "setLatest"
    /\ latestTag' = Moved /\ spc' = "getDated" /\ found' = NoTag
    /\ UNCHANGED <<snapWorld, datedTag, snapFaults, sha, tagDay>>

(* The date is that of now; a tag of that date is moved.                   *)
GetDated ==
    /\ spc = "getDated"
    /\ IF datedTag[day] = sha THEN EndSnapshot
       ELSE tagDay' = day /\ spc' = "setDated" /\ UNCHANGED <<sha, found>>
    /\ UNCHANGED <<snapWorld, snapTags, snapFaults>>

SetDated ==
    /\ spc = "setDated"
    /\ datedTag' = [datedTag EXCEPT ![tagDay] = sha]
    /\ EndSnapshot
    /\ UNCHANGED <<snapWorld, latestTag, snapFaults>>

SnapshotDies ==
    /\ spc # "idle" /\ snapFaults < MaxSnapFaults /\ snapFaults' = snapFaults + 1
    /\ EndSnapshot
    /\ UNCHANGED <<snapWorld, snapTags>>

-----------------------------------------------------------------------------
SnapshotStep ==
    \/ GetLatest \/ SetLatest \/ GetDated \/ SetDated
    \/ \E c \in Commits : FindNewest(c)

SnapshotNext ==
    \/ SnapshotStep \/ SnapshotDies \/ NextDay \/ CreateDevelop
    \/ \E c \in Commits : Succeed(c) \/ Rerun(c)

Snapshots == SnapshotInit /\ [][SnapshotNext]_snapVars

-----------------------------------------------------------------------------
(* develop-latest gets to the newest commit that stays good and stays      *)
(* there, also when a newer one was good for a while and its pipeline was  *)
(* run again while the tag was being moved.                                *)
LatestFollows == \A c \in Commits : <>[]Newest(c) => <>[](latestTag = c)
=============================================================================
