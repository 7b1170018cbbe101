---------------------------- MODULE PruneProofs -----------------------------
(***************************************************************************)
(* Proofs about the two parts of the weekly pruning job, KeepList and      *)
(* PRMirrors, for any stacks, specs, pull requests, size of a page and     *)
(* number of runs that die.                                                *)
(***************************************************************************)
EXTENDS KeepList, PRMirrors, FiniteSetTheorems, TLAPS

-----------------------------------------------------------------------------
(***************************************************************************)
(* KeepList.                                                               *)
(***************************************************************************)
(* What a pipeline has contributed once it was read.                       *)
ListsMerged ==
    \A w \in due, c \in Caches :
        w[1] \notin unread /\ c \in {w[2], Top} => Generated[w[1]][w[2]] \subseteq keep[c]

KeepInv ==
    /\ KeepTypeOK
    /\ due \subseteq succeeded
    /\ kpc = "idle" => due = {}
    /\ kpc \in {"prune", "index"} => unread = {}
    /\ ListsMerged

(* Pipelines concretize known specs for known stacks.                      *)
LEMMA GeneratedTyped ==
    ASSUME NEW i \in KPipes, NEW s \in KStacks
    PROVE  Generated[i][s] \subseteq KSpecs
<1>1. Generated[i] \in [KStacks -> SUBSET KSpecs]
  BY KeepAssumption DEF KPipes
<1> QED
  BY <1>1

LEMMA LenGenerated == Len(Generated) \in Nat
BY KeepAssumption

(***************************************************************************)
(* Type correctness.                                                       *)
(***************************************************************************)
LEMMA EndKeepTyped ==
    EndKeepRun => /\ kpc' = "idle" /\ unread' \subseteq KPipes /\ files' \subseteq KStacks \union {Top}
                  /\ keep' \in [Caches -> SUBSET KSpecs] /\ due' = {}
BY DEF EndKeepRun, NoKeep

LEMMA RemoveTyped ==
    ASSUME KeepTypeOK, NEW c \in Caches, NEW H, Remove(c, H)
    PROVE  /\ stored' \in [Caches -> SUBSET KSpecs] /\ outdated' \subseteq Caches
           /\ \A d \in Caches : stored'[d] = IF d = c THEN stored[d] \ H ELSE stored[d]
BY DEF Remove, KeepTypeOK

LEMMA AddedTyped ==
    ASSUME KeepTypeOK, NEW i \in KPipes
    PROVE  /\ Added(i) \in [Caches -> SUBSET KSpecs]
           /\ \A c \in Caches : keep[c] \subseteq Added(i)[c]
           /\ \A c \in Caches, s \in KStacks :
                 <<i, s>> \in succeeded /\ c \in {s, Top} => Generated[i][s] \subseteq Added(i)[c]
<1>1. ASSUME NEW c \in Caches, NEW h \in Added(i)[c] PROVE h \in KSpecs
  <2>1. h \in keep[c] \/ \E s \in KStacks : h \in Generated[i][s]
    BY <1>1 DEF Added, GenerateJobs
  <2>2. keep[c] \subseteq KSpecs
    BY DEF KeepTypeOK
  <2> QED
    BY <2>1, <2>2, GeneratedTyped
<1>2. Added(i) \in [Caches -> SUBSET KSpecs]
  BY <1>1 DEF Added
<1>3. \A c \in Caches : keep[c] \subseteq Added(i)[c]
  BY DEF Added
<1>4. ASSUME NEW c \in Caches, NEW s \in KStacks, <<i, s>> \in succeeded, c \in {s, Top}
      PROVE  Generated[i][s] \subseteq Added(i)[c]
  BY <1>4 DEF Added, GenerateJobs
<1> QED
  BY <1>2, <1>3, <1>4

LEMMA KeepInitTyped == KeepInit => KeepTypeOK
BY KeepAssumption, LenGenerated DEF KeepInit, KFresh, KeepTypeOK, NoKeep

LEMMA KeepEnvTyped ==
    ASSUME KeepTypeOK, KeepEnv
    PROVE  KeepTypeOK'
<1> USE LenGenerated DEF KeepTypeOK, kRun
<1>1. CASE CreatePipeline
  BY <1>1 DEF CreatePipeline
<1>2. CASE LeaveWindow
  BY <1>2 DEF LeaveWindow
<1>3. ASSUME NEW i \in KPipes, NEW s \in KStacks, Generate(i, s) PROVE KeepTypeOK'
  BY <1>3 DEF Generate
<1>4. ASSUME NEW c \in Caches, NEW h \in KSpecs, Put(c, h) PROVE KeepTypeOK'
  BY <1>4 DEF Put
<1> QED
  BY <1>1, <1>2, <1>3, <1>4 DEF KeepEnv, BuildSpec, PublishSpec, Caches

LEMMA KeepStepTyped ==
    ASSUME KeepTypeOK, KeepStep \/ KeepRunDies
    PROVE  KeepTypeOK'
<1>1. CASE ListPipelines
  BY <1>1 DEF ListPipelines, KeepTypeOK, kWorld, KPipes
<1>2. CASE WriteLists
  BY <1>2 DEF WriteLists, KeepTypeOK, kWorld
<1>3. ASSUME NEW i \in KPipes, ProcessPipeline(i) PROVE KeepTypeOK'
  BY <1>3, AddedTyped DEF ProcessPipeline, KeepTypeOK, kWorld, GenerateJobs
<1>4. ASSUME NEW c \in Caches, PruneCache(c) PROVE KeepTypeOK'
  <2>1. stored' \in [Caches -> SUBSET KSpecs] /\ outdated' \subseteq Caches
    BY <1>4, RemoveTyped DEF PruneCache
  <2> QED
    BY <1>4, <2>1 DEF PruneCache, Remove, KeepTypeOK
<1>5. ASSUME NEW c \in Caches, UpdateIndex(c) PROVE KeepTypeOK'
  <2>1. CASE EndKeepRun
    BY <1>5, <2>1, EndKeepTyped DEF UpdateIndex, Reindexed, KeepTypeOK
  <2>2. CASE ~EndKeepRun
    BY <1>5, <2>2 DEF UpdateIndex, Reindexed, KeepTypeOK
  <2> QED
    BY <2>1, <2>2
<1>6. CASE KeepRunDies
  <2>1. PICK c \in Caches, H \in SUBSET KSpecs : Remove(c, H \ keep[c])
    BY <1>6 DEF KeepRunDies
  <2>2. stored' \in [Caches -> SUBSET KSpecs] /\ outdated' \subseteq Caches
    BY <2>1, RemoveTyped
  <2>3. deaths' \in 0 .. MaxDeaths
    BY <1>6, KeepAssumption DEF KeepRunDies, KeepTypeOK
  <2> QED
    BY <1>6, <2>1, <2>2, <2>3, EndKeepTyped DEF KeepRunDies, Remove, KeepTypeOK
<1> QED
  BY <1>1, <1>2, <1>3, <1>4, <1>5, <1>6 DEF KeepStep

(***************************************************************************)
(* The inductive invariant.                                                *)
(***************************************************************************)
LEMMA KeepInitInv == KeepInit => KeepInv
BY KeepInitTyped DEF KeepInit, KFresh, KeepInv, ListsMerged

LEMMA KeepNextInv == KeepInv /\ [KeepNext]_kVars => KeepInv'
<1> SUFFICES ASSUME KeepInv, [KeepNext]_kVars PROVE KeepInv'
  OBVIOUS
<1>1. CASE UNCHANGED kVars
  BY <1>1 DEF kVars, kWorld, kRun, KeepInv, KeepTypeOK, ListsMerged
<1>2. CASE KeepEnv
  <2>1. KeepTypeOK'
    BY <1>2, KeepEnvTyped DEF KeepInv
  <2>2. UNCHANGED kRun /\ succeeded \subseteq succeeded'
    BY <1>2 DEF KeepEnv, CreatePipeline, LeaveWindow, Generate, BuildSpec, PublishSpec, Put
  <2> QED
    BY <2>1, <2>2 DEF KeepInv, ListsMerged, kRun
<1>3. CASE KeepStep \/ KeepRunDies
  <2>1. KeepTypeOK'
    BY <1>3, KeepStepTyped DEF KeepInv
  <2>2. CASE EndKeepRun
    BY <1>3, <2>1, <2>2 DEF KeepInv, ListsMerged, EndKeepRun
  <2>3. CASE ListPipelines
    <3>1. ListsMerged'
      BY <2>3 DEF ListPipelines, ListsMerged, KeepInv, KeepTypeOK
    <3> QED
      BY <2>1, <2>3, <3>1 DEF ListPipelines, KeepInv, kWorld
  <2>4. CASE WriteLists
    BY <2>1, <2>4 DEF WriteLists, KeepInv, ListsMerged, kWorld
  <2>5. ASSUME NEW i \in KPipes, ProcessPipeline(i) PROVE KeepInv'
    <3>1. ASSUME NEW w \in due, NEW c \in Caches, w[1] \notin unread', c \in {w[2], Top}
          PROVE  Generated[w[1]][w[2]] \subseteq keep'[c]
      <4>1. w \in KPipes \X KStacks /\ w \in succeeded /\ w = <<w[1], w[2]>>
        BY DEF KeepInv, KeepTypeOK
      <4>2. keep' = Added(i) /\ unread' = unread \ {i}
        BY <2>5 DEF ProcessPipeline
      <4>3. CASE w[1] = i
        BY <3>1, <4>1, <4>2, <4>3, AddedTyped DEF KeepInv
      <4>4. CASE w[1] # i
        BY <3>1, <4>2, <4>4, AddedTyped DEF KeepInv, ListsMerged
      <4> QED
        BY <4>3, <4>4
    <3>2. ListsMerged'
      BY <2>5, <3>1 DEF ProcessPipeline, ListsMerged
    <3> QED
      BY <2>1, <2>5, <3>2 DEF ProcessPipeline, KeepInv, kWorld
  <2>6. ASSUME NEW c \in Caches, PruneCache(c) PROVE KeepInv'
    BY <2>1, <2>6 DEF PruneCache, Remove, KeepInv, ListsMerged
  <2>7. ASSUME NEW c \in Caches, UpdateIndex(c), ~EndKeepRun PROVE KeepInv'
    BY <2>1, <2>7 DEF UpdateIndex, KeepInv, ListsMerged
  <2> QED
    BY <1>3, <2>2, <2>3, <2>4, <2>5, <2>6, <2>7 DEF KeepStep, KeepRunDies
<1> QED
  BY <1>1, <1>2, <1>3 DEF KeepNext

(* Once all pipelines were read the keep lists hold what each had to add.  *)
THEOREM KeepInvariance == KeepSpec => []KeepInv
BY KeepInitInv, KeepNextInv, PTL DEF KeepSpec

(* Caches and keep lists hold known hashes, whatever runs and however far. *)
THEOREM KeepTypeCorrect == KeepSpec => []KeepTypeOK
BY KeepInvariance, PTL DEF KeepInv

(***************************************************************************)
(* Pruning.                                                                *)
(***************************************************************************)
LEMMA WantedInKeep ==
    ASSUME KeepInv, kpc \in {"prune", "index"}, NEW c \in Caches
    PROVE  Wanted(c) \subseteq keep[c]
BY DEF KeepInv, ListsMerged, Wanted

LEMMA RemovalSpares ==
    ASSUME KeepInv, kpc = "prune", NEW d \in Caches, NEW H, Remove(d, H \ keep[d])
    PROVE  WantedKept
<1> SUFFICES ASSUME NEW c \in Caches
             PROVE  (stored[c] \ stored'[c]) \intersect Wanted(c) = {}
  BY DEF WantedKept
<1>1. stored'[c] = IF c = d THEN stored[c] \ (H \ keep[d]) ELSE stored[c]
  BY RemoveTyped DEF KeepInv
<1>2. Wanted(c) \subseteq keep[c]
  BY WantedInKeep
<1> QED
  BY <1>1, <1>2

(* What a generate job wants is not pruned, whatever other stacks and      *)
(* pipelines contribute and wherever a run dies.                           *)
THEOREM WantedStays == KeepSpec => KeepsWanted
<1>1. KeepInv /\ [KeepNext]_kVars => [WantedKept]_kVars
  <2> SUFFICES ASSUME KeepInv, KeepNext PROVE WantedKept
    OBVIOUS
  <2>1. ASSUME NEW d \in Caches, NEW h, Put(d, h) PROVE WantedKept
    BY <2>1 DEF Put, WantedKept, KeepInv, KeepTypeOK
  <2>2. ASSUME NEW d \in Caches, PruneCache(d) PROVE WantedKept
    BY <2>2, RemovalSpares DEF PruneCache
  <2>3. CASE KeepRunDies
    <3>1. PICK d \in Caches, H \in SUBSET KSpecs :
             Remove(d, H \ keep[d]) /\ (H # {} => kpc = "prune")
      BY <2>3 DEF KeepRunDies
    <3>2. CASE H # {}
      BY <3>1, <3>2, RemovalSpares
    <3>3. CASE H = {}
      <4>1. \A c \in Caches : stored'[c] = stored[c]
        <5>1. \A X : {} \ X = {}
          OBVIOUS
        <5>2. Remove(d, {})
          BY <3>1, <3>3, <5>1
        <5> QED
          BY <5>2, RemoveTyped DEF KeepInv
      <4> QED
        BY <4>1 DEF WantedKept
    <3> QED
      BY <3>2, <3>3
  <2>4. CASE UNCHANGED stored
    BY <2>4 DEF WantedKept
  <2> QED
    BY <2>1, <2>2, <2>3, <2>4
    DEF KeepNext, KeepEnv, KeepStep, CreatePipeline, LeaveWindow, Generate, BuildSpec, PublishSpec,
        ListPipelines, WriteLists, ProcessPipeline, UpdateIndex, kWorld, Caches
<1> QED
  BY <1>1, KeepInvariance, PTL DEF KeepSpec, KeepsWanted

-----------------------------------------------------------------------------
(***************************************************************************)
(* PRMirrors.                                                              *)
(***************************************************************************)
(* What is still in the map of the pull requests that were active all the  *)
(* time is further down the list than the pages already read.              *)
FurtherDown == \A p \in steady \intersect map : Rank(p) > PullPage * (page - 1)

PullInv ==
    /\ PullTypeOK
    /\ IsFiniteSet(open)
    /\ \A p \in steady : Active(p)
    /\ mpc = "pulls" => page >= 1 /\ FurtherDown
    /\ mpc = "delete" => steady \intersect map = {}

(* The place of a pull request in the list: one of the places there are,   *)
(* and further down when others are opened.                                *)
LEMMA Counted ==
    ASSUME NEW S, IsFiniteSet(S), NEW p
    PROVE  LET n == Cardinality({q \in S : q >= p})
           IN  /\ n \in Nat /\ Cardinality(S) \in Nat /\ n <= Cardinality(S)
               /\ p \in S /\ p >= p => n >= 1
<1> DEFINE N == {q \in S : q >= p}
<1>1. N \in SUBSET S
  OBVIOUS
<1>2. p \in S /\ p >= p => N # {}
  OBVIOUS
<1> HIDE DEF N
<1>3. IsFiniteSet(N) /\ Cardinality(N) <= Cardinality(S)
  BY <1>1, FS_Subset
<1>4. Cardinality(N) \in Nat /\ Cardinality(S) \in Nat /\ (Cardinality(N) = 0 <=> N = {})
  BY <1>3, FS_CardinalityType, FS_EmptySet
<1>5. p \in S /\ p >= p => Cardinality(N) >= 1
  BY <1>2, <1>4
<1> QED
  BY <1>3, <1>4, <1>5 DEF N

LEMMA RankBounds ==
    ASSUME NEW p, IsFiniteSet(open)
    PROVE  Rank(p) \in Nat /\ Cardinality(open) \in Nat /\ Rank(p) <= Cardinality(open)
BY Counted DEF Rank

LEMMA RankAgain ==
    ASSUME NEW p, IsFiniteSet(open')
    PROVE  Rank(p)' \in Nat /\ (p \in open' /\ p >= p => Rank(p)' >= 1)
BY Counted DEF Rank

LEMMA RankGrows ==
    ASSUME NEW p, IsFiniteSet(open'),
           {q \in open : q >= p} \subseteq {q \in open' : q >= p}
    PROVE  Rank(p)' >= Rank(p)
<1> DEFINE N == {q \in open : q >= p}
           M == {q \in open' : q >= p}
<1>1. IsFiniteSet(M)
  <2>1. M \in SUBSET open'
    OBVIOUS
  <2> HIDE DEF M
  <2> QED
    BY <2>1, FS_Subset
<1>2. N \in SUBSET M
  OBVIOUS
<1> HIDE DEF N, M
<1>3. IsFiniteSet(N) /\ Cardinality(N) <= Cardinality(M)
  BY <1>1, <1>2, FS_Subset
<1>4. Cardinality(N) \in Nat /\ Cardinality(M) \in Nat
  BY <1>1, <1>3, FS_CardinalityType
<1> QED
  BY <1>3, <1>4 DEF Rank, N, M

LEMMA Places == PullTypeOK => PullPage * page \in Nat /\ PullPage * (page - 1) \in Int
BY PullAssumption DEF PullTypeOK

LEMMA EventTyped == Event /\ PullTypeOK => pullOps' \in 0 .. MaxPullOps
BY PullAssumption DEF Event, PullTypeOK

(***************************************************************************)
(* The invariant, action by action.                                        *)
(***************************************************************************)
LEMMA PullInitInv == PullInit => PullInv
<1> SUFFICES ASSUME PullInit PROVE PullInv
  OBVIOUS
<1>1. PullTypeOK
  BY PullAssumption DEF PullInit, PullTypeOK
<1> QED
  BY <1>1, FS_EmptySet DEF PullInit, PullInv

LEMMA OpenPullInv ==
    ASSUME NEW p \in Numbers, OpenPull(p), PullInv
    PROVE  PullInv'
<1>1. PullTypeOK'
  BY EventTyped DEF OpenPull, PullInv, PullTypeOK
<1>2. IsFiniteSet(open')
  BY FS_AddElement DEF OpenPull, PullInv
<1>3. \A q \in steady' : Active(q)'
  BY DEF OpenPull, PullInv, Active
<1>4. ASSUME mpc' = "pulls" PROVE page' >= 1 /\ FurtherDown'
  <2>1. SUFFICES ASSUME NEW q \in steady \intersect map
                 PROVE  Rank(q)' > PullPage * (page - 1)
    BY <1>4 DEF OpenPull, PullInv, FurtherDown
  <2>2. Rank(q) > PullPage * (page - 1)
    BY <1>4 DEF OpenPull, PullInv, FurtherDown
  <2>3. Rank(q)' >= Rank(q)
    BY <1>2, RankGrows DEF OpenPull
  <2>4. Rank(q) \in Nat /\ Rank(q)' \in Nat
    BY <1>2, RankBounds, RankAgain DEF PullInv
  <2> QED
    BY <2>2, <2>3, <2>4, Places DEF PullInv
<1>5. mpc' = "delete" => steady' \intersect map' = {}
  BY DEF OpenPull, PullInv
<1> QED
  BY <1>1, <1>2, <1>3, <1>4, <1>5 DEF PullInv

(* Closing one leaves those in place that are newer, and on the first page *)
(* everybody who is open has a place.                                      *)
LEMMA ClosePullInv ==
    ASSUME NEW p \in Numbers, ClosePull(p), PullInv
    PROVE  PullInv'
<1>1. PullTypeOK'
  BY EventTyped DEF ClosePull, PullInv, PullTypeOK
<1>2. IsFiniteSet(open')
  <2>1. open' = open \ {p} /\ IsFiniteSet(open)
    BY DEF ClosePull, PullInv
  <2> QED
    BY <2>1, FS_RemoveElement
<1>3. steady' \subseteq steady \ {p} /\ map' = map /\ page' = page /\ mpc' = mpc
  BY DEF ClosePull
<1>4. \A q \in steady' : Active(q)'
  BY <1>3 DEF ClosePull, PullInv, Active
<1>5. ASSUME mpc' = "pulls" PROVE page' >= 1 /\ FurtherDown'
  <2>1. page \in Nat /\ page >= 1
    BY <1>3, <1>5 DEF PullInv, PullTypeOK
  <2>2. SUFFICES ASSUME NEW q \in steady' \intersect map'
                 PROVE  Rank(q)' > PullPage * (page - 1)
    BY <1>3, <2>1 DEF FurtherDown
  <2>3. Rank(q) > PullPage * (page - 1)
    BY <1>3, <1>5 DEF PullInv, FurtherDown
  <2>4. q \in Nat /\ p \in Nat /\ q # p /\ q \in open'
    BY <1>1, <1>3, <1>4, PullAssumption DEF PullTypeOK, Active
  <2>5. CASE page = 1
    <3>1. Rank(q)' \in Nat /\ Rank(q)' >= 1
      BY <1>2, <2>4, RankAgain
    <3> QED
      BY <2>5, <3>1, PullAssumption
  <2>6. CASE page > 1
    <3>1. q > p
      BY <2>4, <2>6 DEF ClosePull, MovesUp
    <3>2. {r \in open : r >= q} \subseteq {r \in open' : r >= q}
      <4>1. ~(p >= q)
        BY <2>4, <3>1
      <4> QED
        BY <4>1 DEF ClosePull
    <3>3. Rank(q)' >= Rank(q)
      BY <1>2, <3>2, RankGrows
    <3>4. Rank(q) \in Nat /\ Rank(q)' \in Nat
      BY <1>2, RankBounds, RankAgain DEF PullInv
    <3> QED
      BY <2>3, <3>3, <3>4, Places DEF PullInv
  <2> QED
    BY <2>1, <2>5, <2>6
<1>6. mpc' = "delete" => steady' \intersect map' = {}
  BY <1>3 DEF PullInv
<1> QED
  BY <1>1, <1>2, <1>4, <1>5, <1>6 DEF PullInv

(* What changes neither the list nor the map, and adds nobody to those     *)
(* that are active all the time.                                           *)
LEMMA SameListInv ==
    ASSUME PullInv, PullTypeOK', open' = open, steady' \subseteq steady, map' = map,
           UNCHANGED <<mpc, page>>, \A q \in steady' : Active(q)'
    PROVE  PullInv'
BY DEF PullInv, FurtherDown, Rank

LEMMA QuietEventInv ==
    ASSUME NEW p \in Numbers, PullInv,
           GoDormant(p) \/ Wake(p) \/ PushBinary(p)
    PROVE  PullInv'
<1> USE DEF PullInv
<1>1. CASE GoDormant(p)
  <2>1. PullTypeOK'
    BY <1>1, EventTyped DEF GoDormant, PullTypeOK
  <2> QED
    BY <1>1, <2>1, SameListInv DEF GoDormant, Active
<1>2. CASE Wake(p)
  <2>1. PullTypeOK'
    BY <1>2, EventTyped DEF Wake, PullTypeOK
  <2> QED
    BY <1>2, <2>1, SameListInv DEF Wake, Active
<1>3. CASE PushBinary(p)
  <2>1. PullTypeOK'
    BY <1>3, EventTyped DEF PushBinary, PullTypeOK
  <2> QED
    BY <1>3, <2>1, SameListInv DEF PushBinary, Active
<1> QED
  BY <1>1, <1>2, <1>3

LEMMA ListMirrorsInv == ListMirrors /\ PullInv => PullInv'
<1> SUFFICES ASSUME ListMirrors, PullInv PROVE PullInv'
  OBVIOUS
<1>1. PullTypeOK'
  BY DEF ListMirrors, PullInv, PullTypeOK, pWorld, Active
<1>2. IsFiniteSet(open') /\ \A q \in steady' : Active(q)'
  BY DEF ListMirrors, PullInv, pWorld, Active
<1>3. ASSUME NEW q \in steady' PROVE Rank(q)' \in Nat /\ Rank(q)' >= 1
  <2>1. q \in open' /\ q >= q
    BY <1>1, <1>2, <1>3, PullAssumption DEF PullTypeOK, Active
  <2> QED
    BY <1>2, <2>1, RankAgain
<1>4. page' = 1 /\ mpc' = "pulls"
  BY DEF ListMirrors
<1> QED
  BY <1>1, <1>2, <1>3, <1>4, PullAssumption DEF PullInv, FurtherDown

(* A page takes those it lists out of the map; when it is the last one,    *)
(* nobody is left further down.                                            *)
LEMMA ReadPullsInv == ReadPulls /\ PullInv => PullInv'
<1> SUFFICES ASSUME ReadPulls, PullInv PROVE PullInv'
  OBVIOUS
<1>1. PullTypeOK'
  BY DEF ReadPulls, PullInv, PullTypeOK, pWorld
<1>2. open' = open /\ steady' = steady /\ \A q : Active(q)' <=> Active(q)
  BY DEF ReadPulls, pWorld, Active
<1>3. ASSUME NEW q \in steady' \intersect map'
      PROVE  Rank(q) \in Nat /\ Rank(q) > PullPage * page /\ Rank(q) <= Cardinality(open)
  <2>1. q \in steady /\ q \in map /\ ~Yielded(q)
    BY <1>2, <1>3 DEF ReadPulls
  <2>2. Rank(q) > PullPage * (page - 1)
    BY <2>1 DEF ReadPulls, PullInv, FurtherDown
  <2>3. ~(Rank(q) <= PullPage * page)
    BY <2>1, <2>2 DEF PullInv, Active, Yielded, OnPage
  <2> QED
    BY <2>3, RankBounds, Places DEF PullInv
<1>4. CASE Cardinality(open) > PullPage * page
  <2>1. page' = page + 1 /\ mpc' = "pulls" /\ page \in Nat
    BY <1>4 DEF ReadPulls, PullInv, PullTypeOK
  <2>2. PullPage * (page' - 1) = PullPage * page
    BY <2>1
  <2>3. FurtherDown'
    BY <1>2, <1>3, <2>2 DEF FurtherDown, Rank
  <2> QED
    BY <1>1, <1>2, <2>1, <2>3 DEF PullInv
<1>5. CASE ~(Cardinality(open) > PullPage * page)
  <2>1. mpc' = "delete"
    BY <1>5 DEF ReadPulls
  <2>2. steady' \intersect map' = {}
    <3>1. Cardinality(open) \in Nat
      BY FS_CardinalityType DEF PullInv
    <3> QED
      BY <1>3, <1>5, <3>1, Places DEF PullInv
  <2> QED
    BY <1>1, <1>2, <2>1, <2>2 DEF PullInv
<1> QED
  BY <1>4, <1>5

LEMMA DeletionInv ==
    ASSUME NEW p \in Numbers, DeleteMirror(p) \/ DeletePartly(p), PullInv
    PROVE  PullInv'
<1> USE DEF PullInv, FurtherDown, Rank, Active
<1>1. CASE DeleteMirror(p)
  <2>1. PullTypeOK'
    BY <1>1 DEF DeleteMirror, Deleted, PullTypeOK
  <2> QED
    BY <1>1, <2>1 DEF DeleteMirror
<1>2. CASE DeletePartly(p)
  <2>1. PullTypeOK'
    BY <1>2, EventTyped DEF DeletePartly, PullTypeOK
  <2> QED
    BY <1>2, <2>1 DEF DeletePartly
<1> QED
  BY <1>1, <1>2

LEMMA EndOfRunInv ==
    ASSUME FinishPulls \/ PullRunDies, PullInv
    PROVE  PullInv'
<1>1. EndPullRun /\ open' = open
  BY DEF FinishPulls, PullRunDies, pWorld
<1>2. PullTypeOK'
  BY EventTyped DEF FinishPulls, PullRunDies, EndPullRun, PullInv, PullTypeOK, pWorld
<1> QED
  BY <1>1, <1>2 DEF EndPullRun, PullInv

LEMMA PullNextInv == PullInv /\ [PullNext]_pVars => PullInv'
<1> SUFFICES ASSUME PullInv, [PullNext]_pVars PROVE PullInv'
  OBVIOUS
<1>1. CASE ListMirrors \/ ReadPulls \/ FinishPulls \/ PullRunDies
  BY <1>1, ListMirrorsInv, ReadPullsInv, EndOfRunInv
<1>2. ASSUME NEW p \in Numbers, PullEnv(p) PROVE PullInv'
  BY <1>2, OpenPullInv, ClosePullInv, QuietEventInv DEF PullEnv
<1>3. ASSUME NEW p \in Numbers, DeleteMirror(p) \/ DeletePartly(p) PROVE PullInv'
  BY <1>3, DeletionInv
<1>4. CASE UNCHANGED pVars
  BY <1>4 DEF pVars, pWorld, PullInv, PullTypeOK, FurtherDown, Rank, Active
<1> QED
  BY <1>1, <1>2, <1>3, <1>4 DEF PullNext, PullStep

(***************************************************************************)
(* What follows.                                                           *)
(***************************************************************************)
LEMMA PullInvariance == PullSpec => []PullInv
BY PullInitInv, PullNextInv, PTL DEF PullSpec

(* Mirrors are those of pull requests, whatever happens between two pages. *)
THEOREM PullTypeCorrect == PullSpec => []PullTypeOK
<1>1. PullInv => PullTypeOK
  BY DEF PullInv
<1> QED
  BY <1>1, PullInvariance, PTL

(* A pull request that stays active keeps its mirror for any number of     *)
(* pages, although the list moves under the run: what is opened moves it   *)
(* down, and the run reads down.                                           *)
THEOREM ActiveSpared == PullSpec => ActiveMirrorKept
<1>1. PullInv /\ [PullNext]_pVars => [SteadyKept]_pVars
  <2> SUFFICES ASSUME PullInv, PullNext PROVE SteadyKept
    BY DEF SteadyKept
  <2>1. ASSUME NEW p \in Numbers, DeleteMirror(p) PROVE SteadyKept
    BY <2>1 DEF DeleteMirror, Deleted, PullInv, SteadyKept
  <2>2. CASE mirrors \subseteq mirrors'
    BY <2>2 DEF SteadyKept
  <2> QED
    BY <2>1, <2>2
    DEF PullNext, PullStep, PullEnv, OpenPull, ClosePull, GoDormant, Wake, PushBinary, DeletePartly,
        ListMirrors, ReadPulls, FinishPulls, PullRunDies, pWorld
<1> QED
  BY <1>1, PullInvariance, PTL DEF PullSpec, ActiveMirrorKept

=============================================================================
