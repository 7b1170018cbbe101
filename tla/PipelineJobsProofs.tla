------------------------- MODULE PipelineJobsProofs -------------------------
(***************************************************************************)
(* Proofs about PipelineJobs, for any branches, stacks, commits, nodes and *)
(* bounds: the type correctness of every part, and the action properties   *)
(* of the janitors, the trigger retries and the node controller.  Each     *)
(* part is proved from its own specification; the composition implements   *)
(* the specification of each of its parts, and so inherits what they do.   *)
(***************************************************************************)
EXTENDS PipelineJobs, SequenceTheorems, TLAPS

(***************************************************************************)
(* Janitors.                                                               *)
(***************************************************************************)
(* What the run of the skipped pipelines job knows about a branch that     *)
(* stayed calm: it was pushed to within the hour before the run, by a push *)
(* whose event names it, or it has not been since; the head it was listed with is its head, or it is gone; *)
(* and a head that is to get a pipeline has none.                          *)
EventsStand == \A b \in calm : skpc # "idle" /\ (b \in pushed \/ b \notin recent)
HeadsStand ==
    \A h \in heads \union bare : h[1] \in calm => tip[h[1]] \in {h[2], 0}
BareStands ==
    \A h \in bare : h[1] \in calm => h[1] \notin pushed /\ h \notin tested

(* What a phase has not filled yet, or has used up, is empty.              *)
SkipPhases ==
    /\ skpc \in {"idle", "branches"} => heads = {}
    /\ skpc # "post" => bare = {}

JanitorInv == JanitorTypeOK /\ SkipPhases /\ EventsStand /\ HeadsStand /\ BareStands

LEMMA JanitorInitInv == JanitorInit => JanitorInv
<1> SUFFICES ASSUME JanitorInit PROVE JanitorInv
  OBVIOUS
<1>1. JanitorTypeOK
  BY JanitorAssumption DEF JanitorInit, JanitorTypeOK
<1> QED
  BY <1>1 DEF JanitorInit, JanitorInv, SkipPhases, EventsStand, HeadsStand, BareStands

LEMMA HeadTyped ==
    ASSUME JanitorTypeOK, NEW b \in Branches
    PROVE  /\ tip[b] \in 0 .. MaxTip
           /\ tip[b] # 0 => <<b, tip[b]>> \in Heads
BY JanitorAssumption DEF JanitorTypeOK, Heads

(* A further pipeline of the head of a branch.                             *)
LEMMA NewPipelineTyped ==
    ASSUME JanitorTypeOK, NEW b \in Branches, NewPipeline(b),
           UNCHANGED <<janOps, janFaults>> \/ JanOp \/ JanFault
    PROVE  /\ tested' = tested \union {<<b, tip[b]>>}
           /\ tested' \subseteq Heads /\ running' \subseteq tested'
           /\ stuck' \subseteq tested' /\ second' \subseteq tested'
           /\ UNCHANGED <<proposed, tip, pushes, recent, named, aged>>
           /\ janOps' \in 0 .. MaxJanOps /\ janFaults' \in 0 .. MaxJanFaults
<1>1. <<b, tip[b]>> \in Heads
  BY HeadTyped DEF NewPipeline
<1>2. janOps' \in 0 .. MaxJanOps /\ janFaults' \in 0 .. MaxJanFaults
  BY JanitorAssumption DEF JanitorTypeOK, JanOp, JanFault
<1> QED
  BY <1>1, <1>2 DEF NewPipeline, JanitorTypeOK

LEMMA JanCounters ==
    ASSUME JanitorTypeOK, UNCHANGED <<janOps, janFaults>> \/ JanOp \/ JanFault
    PROVE  janOps' \in 0 .. MaxJanOps /\ janFaults' \in 0 .. MaxJanFaults
BY JanitorAssumption DEF JanitorTypeOK, JanOp, JanFault

(* The end of the run of the skipped pipelines job, however it ends.       *)
LEMMA EndSkipInv ==
    ASSUME JanitorInv, EndSkip, UNCHANGED <<gitlab, otherRun>>,
           UNCHANGED <<janOps, janFaults>> \/ JanFault
    PROVE  JanitorInv'
<1>1. JanitorTypeOK'
  BY JanCounters DEF JanitorInv, JanitorTypeOK, EndSkip, gitlab, otherRun
<1> QED
  BY <1>1 DEF JanitorInv, EndSkip, SkipPhases, EventsStand, HeadsStand, BareStands

(* A push removes the branch from the calm ones.                           *)
LEMMA PushInv ==
    ASSUME JanitorInv, NEW b \in Branches, PushBranch(b),
           UNCHANGED <<janOps, janFaults>> \/ JanOp
    PROVE  JanitorInv'
<1>1. pushes[b] + 1 \in 0 .. MaxTip
  BY JanitorAssumption DEF PushBranch, JanitorInv, JanitorTypeOK
<1>2. JanitorTypeOK'
  BY <1>1, JanCounters DEF JanitorInv, JanitorTypeOK, PushBranch, otherRun
<1>3. \A c \in Branches \ {b} : tip'[c] = tip[c]
  BY DEF PushBranch, JanitorInv, JanitorTypeOK
<1>4. SkipPhases' /\ EventsStand'
  BY DEF JanitorInv, SkipPhases, EventsStand, PushBranch
<1>5. \A h \in heads \union bare : h[1] \in Branches
  BY DEF JanitorInv, JanitorTypeOK, Heads
<1>6. HeadsStand' /\ BareStands'
  BY <1>3, <1>5 DEF JanitorInv, HeadsStand, BareStands, PushBranch
<1> QED
  BY <1>2, <1>4, <1>6 DEF JanitorInv

LEMMA BranchEnvInv ==
    ASSUME JanitorInv, NEW b \in Branches, BranchEnv(b) \/ SyncRestore(b)
    PROVE  JanitorInv'
<1>1. CASE Propose(b)
  <2>1. JanitorTypeOK'
    BY <1>1, JanCounters
    DEF Propose, JanitorInv, JanitorTypeOK, skipRun, otherRun
  <2> QED
    BY <1>1, <2>1
    DEF Propose, JanitorInv, SkipPhases, EventsStand, HeadsStand, BareStands, skipRun
<1>2. CASE SyncUpdate(b) \/ SyncRestore(b)
  BY <1>2, PushInv DEF SyncUpdate, SyncRestore
<1>3. CASE GitLabStarts(b)
  <2>1. NewPipeline(b) /\ UNCHANGED <<janOps, janFaults, skipRun, otherRun>> /\ b \in recent
    BY <1>3 DEF GitLabStarts
  <2>2. /\ tested' = tested \union {<<b, tip[b]>>}
        /\ UNCHANGED <<proposed, tip, pushes, recent, named, aged>>
        /\ JanitorTypeOK'
    BY <2>1, NewPipelineTyped DEF JanitorInv, JanitorTypeOK, skipRun, otherRun
  <2>3. BareStands'
    <3> SUFFICES ASSUME NEW h \in bare, h[1] \in calm PROVE h[1] \notin pushed /\ h \notin tested'
      BY <2>1 DEF BareStands, skipRun
    <3>1. h[1] \notin pushed /\ h \notin tested /\ h[1] \notin recent
      BY DEF JanitorInv, BareStands, EventsStand
    <3>2. h # <<b, tip[b]>>
      BY <2>1, <3>1
    <3> QED
      BY <2>2, <3>1, <3>2
  <2> QED
    BY <2>1, <2>2, <2>3 DEF JanitorInv, SkipPhases, EventsStand, HeadsStand, skipRun
<1>4. CASE HourPasses(b)
  <2>1. JanitorTypeOK'
    BY <1>4 DEF HourPasses, JanitorInv, JanitorTypeOK, skipRun, otherRun
  <2> QED
    BY <1>4, <2>1
    DEF HourPasses, JanitorInv, SkipPhases, EventsStand, HeadsStand, BareStands, skipRun
<1>5. CASE MonthsPass(b)
  <2>1. JanitorTypeOK'
    BY <1>5, JanCounters DEF MonthsPass, JanitorInv, JanitorTypeOK, skipRun, otherRun
  <2> QED
    BY <1>5, <2>1
    DEF MonthsPass, JanitorInv, SkipPhases, EventsStand, HeadsStand, BareStands, skipRun
<1> QED
  BY <1>1, <1>2, <1>3, <1>4, <1>5 DEF BranchEnv

LEMMA PipelineEnvInv ==
    ASSUME JanitorInv, NEW h \in Heads, PipelineEnds(h) \/ PipelineHangs(h)
    PROVE  JanitorInv'
<1>1. JanitorTypeOK'
  BY JanCounters
  DEF PipelineEnds, PipelineHangs, JanitorInv, JanitorTypeOK, skipRun, otherRun
<1> QED
  BY <1>1 DEF PipelineEnds, PipelineHangs, JanitorInv, SkipPhases, EventsStand, HeadsStand,
              BareStands, skipRun

LEMMA SkipStepInv ==
    ASSUME JanitorInv, SkipStep PROVE JanitorInv'
<1>1. CASE ReadEvents
  <2>1. JanitorTypeOK'
    BY <1>1, JanCounters DEF ReadEvents, JanitorInv, JanitorTypeOK, gitlab, otherRun
  <2>2. SkipPhases' /\ EventsStand' /\ HeadsStand' /\ BareStands'
    BY <1>1 DEF ReadEvents, gitlab, JanitorInv, SkipPhases, EventsStand, HeadsStand, BareStands
  <2> QED
    BY <2>1, <2>2 DEF JanitorInv
<1>2. CASE ReadBranches
  <2>1. heads' \subseteq Heads /\ \A h \in heads' : h[2] = tip[h[1]]
    BY <1>2, HeadTyped DEF ReadBranches, ListedHeads, JanitorInv
  <2>2. JanitorTypeOK'
    BY <1>2, <2>1, JanCounters DEF ReadBranches, JanitorInv, JanitorTypeOK, gitlab, otherRun
  <2>3. SkipPhases' /\ EventsStand' /\ HeadsStand' /\ BareStands'
    BY <1>2, <2>1
    DEF ReadBranches, gitlab, JanitorInv, SkipPhases, EventsStand, HeadsStand, BareStands
  <2> QED
    BY <2>2, <2>3 DEF JanitorInv
<1>3. CASE FinishSkip
  BY <1>3, EndSkipInv DEF FinishSkip
<1>4. ASSUME NEW h \in Heads, CheckHead(h) PROVE JanitorInv'
  <2>1. /\ UNCHANGED <<gitlab, pushed, otherRun>>
        /\ skpc = "check" /\ h \in heads /\ heads' = heads \ {h} /\ calm' \subseteq calm
        /\ (UNCHANGED bare /\ skpc' = "check") \/ (bare' = {h} /\ skpc' = "post")
        /\ UNCHANGED <<janOps, janFaults>> \/ JanFault
    BY <1>4 DEF CheckHead
  <2>2. JanitorTypeOK'
    <3>1. bare' \in {{}} \union {{g} : g \in Heads}
      BY <2>1 DEF JanitorInv, JanitorTypeOK
    <3>2. janOps' \in 0 .. MaxJanOps /\ janFaults' \in 0 .. MaxJanFaults
      BY <2>1, JanCounters DEF JanitorInv
    <3> QED
      BY <2>1, <3>1, <3>2 DEF JanitorInv, JanitorTypeOK, gitlab, otherRun
  <2>3. SkipPhases' /\ EventsStand' /\ HeadsStand'
    BY <2>1 DEF gitlab, JanitorInv, SkipPhases, EventsStand, HeadsStand
  <2>4. bare' = {h} => h[1] \notin calm' \/ (h[1] \notin pushed /\ h \notin tested) \/ bare = {h}
    BY <1>4 DEF CheckHead, LeftOut, Known
  <2>5. BareStands'
    BY <2>1, <2>4 DEF gitlab, JanitorInv, SkipPhases, BareStands
  <2> QED
    BY <2>2, <2>3, <2>5 DEF JanitorInv
<1>5. ASSUME NEW h \in Heads, StartSkipped(h) PROVE JanitorInv'
  <2>1. /\ UNCHANGED <<pushed, heads, calm, otherRun>>
        /\ skpc = "post" /\ skpc' = "check" /\ bare' = {} /\ h[1] \in Branches
    BY <1>5 DEF StartSkipped, Heads
  <2>2. CASE NewPipeline(h[1]) /\ UNCHANGED <<janOps, janFaults>>
    BY <2>1, <2>2, NewPipelineTyped
    DEF JanitorInv, JanitorTypeOK, SkipPhases, EventsStand, HeadsStand, BareStands, otherRun
  <2>3. CASE UNCHANGED gitlab /\ (UNCHANGED <<janOps, janFaults>> \/ JanFault)
    BY <2>1, <2>3, JanCounters
    DEF JanitorInv, JanitorTypeOK, SkipPhases, EventsStand, HeadsStand, BareStands, gitlab,
        otherRun
  <2> QED
    BY <1>5, <2>2, <2>3 DEF StartSkipped
<1> QED
  BY <1>1, <1>2, <1>3, <1>4, <1>5 DEF SkipStep

LEMMA StuckStepInv ==
    ASSUME JanitorInv, StuckStep PROVE JanitorInv'
<1>1. CASE ListStuck
  BY <1>1 DEF ListStuck, gitlab, skipRun, JanitorInv, JanitorTypeOK, SkipPhases, EventsStand,
              HeadsStand, BareStands
<1>2. ASSUME NEW h \in Heads, RestartStuck(h) PROVE JanitorInv'
  <2>1. /\ UNCHANGED <<skpc, pushed, heads, bare, stuckTodo, staleTodo>>
        /\ restarted' = {h} /\ h \in stuckTodo /\ h[1] \in Branches
    BY <1>2 DEF RestartStuck, Heads
  <2>2. CASE NewPipeline(h[1]) /\ calm' = calm \ {h[1]} /\ UNCHANGED <<janOps, janFaults>>
    <3>1. /\ tested' = tested \union {<<h[1], tip[h[1]]>>}
          /\ UNCHANGED <<proposed, tip, pushes, recent, named, aged>>
          /\ JanitorTypeOK'
      BY <2>1, <2>2, NewPipelineTyped DEF JanitorInv, JanitorTypeOK
    <3>2. SkipPhases' /\ EventsStand' /\ HeadsStand' /\ BareStands'
      BY <2>1, <2>2, <3>1 DEF JanitorInv, SkipPhases, EventsStand, HeadsStand, BareStands
    <3> QED
      BY <3>1, <3>2 DEF JanitorInv
  <2>3. CASE UNCHANGED <<gitlab, calm>> /\ (UNCHANGED <<janOps, janFaults>> \/ JanFault)
    BY <2>1, <2>3, JanCounters
    DEF JanitorInv, JanitorTypeOK, SkipPhases, EventsStand, HeadsStand, BareStands, gitlab
  <2> QED
    BY <1>2, <2>2, <2>3 DEF RestartStuck
<1>3. ASSUME NEW h \in Heads, CancelStuck(h) PROVE JanitorInv'
  BY <1>3 DEF CancelStuck, skipRun, JanitorInv, JanitorTypeOK, SkipPhases, EventsStand,
              HeadsStand, BareStands
<1> QED
  BY <1>1, <1>2, <1>3 DEF StuckStep

LEMMA StaleStepInv ==
    ASSUME JanitorInv, StaleStep PROVE JanitorInv'
<1>1. CASE ListStale
  BY <1>1 DEF ListStale, gitlab, skipRun, JanitorInv, JanitorTypeOK, SkipPhases, EventsStand,
              HeadsStand, BareStands
<1>2. ASSUME NEW b \in Branches, DeleteStale(b) PROVE JanitorInv'
  <2>1. tip' \in [Branches -> 0 .. MaxTip] /\ \A c \in Branches : tip'[c] \in {tip[c], 0}
    BY <1>2, JanitorAssumption DEF DeleteStale, JanitorInv, JanitorTypeOK
  <2>2. JanitorTypeOK'
    BY <1>2, <2>1 DEF DeleteStale, JanitorInv, JanitorTypeOK, skipRun
  <2>3. \A h \in heads \union bare : h[1] \in Branches
    BY DEF JanitorInv, JanitorTypeOK, Heads
  <2> QED
    BY <1>2, <2>1, <2>2, <2>3
    DEF DeleteStale, skipRun, JanitorInv, SkipPhases, EventsStand, HeadsStand, BareStands
<1> QED
  BY <1>1, <1>2 DEF StaleStep

LEMMA JanitorNextInv == JanitorInv /\ [JanitorNext]_janVars => JanitorInv'
<1> SUFFICES ASSUME JanitorInv, [JanitorNext]_janVars PROVE JanitorInv'
  OBVIOUS
<1>1. CASE SkipDies
  BY <1>1, EndSkipInv DEF SkipDies
<1>2. CASE StaleDies \/ StuckDies
  <2>1. JanitorTypeOK'
    BY <1>2, JanCounters
    DEF StaleDies, StuckDies, gitlab, skipRun, JanitorInv, JanitorTypeOK
  <2> QED
    BY <1>2, <2>1 DEF StaleDies, StuckDies, gitlab, skipRun, JanitorInv, SkipPhases,
                      EventsStand, HeadsStand, BareStands
<1>3. CASE UNCHANGED janVars
  BY <1>3 DEF janVars, gitlab, skipRun, otherRun, JanitorInv, JanitorTypeOK, SkipPhases,
              EventsStand, HeadsStand, BareStands
<1> QED
  BY <1>1, <1>2, <1>3, SkipStepInv, StuckStepInv, StaleStepInv, BranchEnvInv, PipelineEnvInv
  DEF JanitorNext

THEOREM JanitorInvariance == JanitorSpec => []JanitorInv
BY JanitorInitInv, JanitorNextInv, PTL DEF JanitorSpec

(* A second pipeline of the job is one of a branch that was disturbed.     *)
LEMMA StepSecond == JanitorInv /\ [JanitorNext]_janVars => SecondWhenDisturbed
<1> SUFFICES ASSUME JanitorInv, [JanitorNext]_janVars, StartedBySkipped,
                    NEW g \in second' \ second, g[1] \in calm
             PROVE  FALSE
  BY DEF SecondWhenDisturbed
<1>1. PICK h \in Heads : StartSkipped(h)
  <2>1. ~SkipDies /\ ~FinishSkip /\ ~ReadEvents /\ ~ReadBranches
    BY DEF StartedBySkipped, SkipDies, FinishSkip, ReadEvents, ReadBranches, EndSkip
  <2>2. \A h \in Heads : ~CheckHead(h)
    BY DEF StartedBySkipped, CheckHead
  <2>3. ~UNCHANGED skpc
    BY DEF StartedBySkipped
  <2>4. ~StaleStep /\ ~StuckStep /\ ~StaleDies /\ ~StuckDies /\ ~UNCHANGED janVars
    BY <2>3 DEF StaleStep, ListStale, DeleteStale, StuckStep, ListStuck, RestartStuck,
                CancelStuck, StaleDies, StuckDies, skipRun, janVars
  <2>5. \A b \in Branches : ~BranchEnv(b) /\ ~SyncRestore(b)
    BY <2>3 DEF BranchEnv, Propose, SyncUpdate, SyncRestore, PushBranch, GitLabStarts,
                HourPasses, MonthsPass, skipRun
  <2>6. \A h \in Heads : ~PipelineEnds(h) /\ ~PipelineHangs(h)
    BY <2>3 DEF PipelineEnds, PipelineHangs, skipRun
  <2> QED
    BY <2>1, <2>2, <2>4, <2>5, <2>6 DEF JanitorNext, SkipStep
<1>2. /\ g = <<h[1], tip[h[1]]>> /\ g \in tested /\ tip[h[1]] # 0 /\ h \in bare
  BY <1>1 DEF StartSkipped, NewPipeline, gitlab
<1>3. h[1] \in calm /\ tip[h[1]] \in {h[2], 0} /\ h \notin tested
  BY <1>2 DEF JanitorInv, HeadsStand, BareStands
<1>4. h = <<h[1], h[2]>>
  BY DEF Heads
<1> QED
  BY <1>2, <1>3, <1>4

THEOREM NoSecondPipeline == JanitorSpec => SecondOnlyIfDisturbed
<1>1. JanitorInv /\ [JanitorNext]_janVars => [SecondWhenDisturbed]_janVars
  BY StepSecond
<1> QED
  BY <1>1, JanitorInvariance, PTL DEF JanitorSpec, SecondOnlyIfDisturbed

(***************************************************************************)
(* Trigger retries.                                                        *)
(***************************************************************************)
(* A job that was listed is the last of its trigger, or was retried since; *)
(* and a child without jobs stays as it is until its trigger is retried.   *)
BridgesStand ==
    \A w \in bridges :
        /\ w[2] <= attempt[w[1]]
        /\ w[2] = attempt[w[1]] /\ w[3] = "empty" => child[w[1]] = "empty"

TriggerInv == TriggerTypeOK /\ BridgesStand

LEMMA TriggerInitInv == TriggerInit => TriggerInv
<1> SUFFICES ASSUME TriggerInit PROVE TriggerInv
  OBVIOUS
<1>1. TriggerTypeOK
  BY TriggerAssumption DEF TriggerInit, TriggerTypeOK, Children
<1> QED
  BY <1>1 DEF TriggerInit, TriggerInv, BridgesStand

LEMMA BridgeTyped ==
    ASSUME TriggerTypeOK, NEW w \in bridges
    PROVE  w[1] \in TriggerStacks /\ w[2] \in 1 .. MaxAttempt /\ w[3] \in Children
BY DEF TriggerTypeOK

(* A retry gives the trigger a new id and no child.                        *)
LEMMA RetryKeeps ==
    ASSUME TriggerInv, NEW s \in TriggerStacks, NEW a \in 1 .. MaxAttempt, Retry(s, a)
    PROVE  /\ gen' \in [TriggerStacks -> SUBSET GenEnds]
           /\ attempt' \in [TriggerStacks -> 1 .. MaxAttempt]
           /\ child' \in [TriggerStacks -> Children] /\ quiet' \in 0 .. WindowRuns
           /\ attempt'[s] = attempt[s] + 1 /\ attempt[s] = a
           /\ \A r \in TriggerStacks \ {s} : attempt'[r] = attempt[r] /\ child'[r] = child[r]
           /\ \A w \in bridges :
                 /\ w[2] <= attempt'[w[1]]
                 /\ w[2] = attempt'[w[1]] /\ w[3] = "empty" => child'[w[1]] = "empty"
<1>1. attempt[s] + 1 \in 1 .. MaxAttempt
  BY TriggerAssumption DEF Retry, TriggerInv, TriggerTypeOK
<1>2. /\ gen' \in [TriggerStacks -> SUBSET GenEnds]
      /\ attempt' \in [TriggerStacks -> 1 .. MaxAttempt]
      /\ child' \in [TriggerStacks -> Children] /\ quiet' \in 0 .. WindowRuns
  BY <1>1, TriggerAssumption DEF Retry, TriggerInv, TriggerTypeOK, Children
<1>3. /\ attempt'[s] = attempt[s] + 1 /\ attempt[s] = a
      /\ \A r \in TriggerStacks \ {s} : attempt'[r] = attempt[r] /\ child'[r] = child[r]
  BY DEF Retry, TriggerInv, TriggerTypeOK
<1>4. ASSUME NEW w \in bridges
      PROVE  /\ w[2] <= attempt'[w[1]]
             /\ w[2] = attempt'[w[1]] /\ w[3] = "empty" => child'[w[1]] = "empty"
  <2>1. /\ w[1] \in TriggerStacks /\ w[2] \in 1 .. MaxAttempt
        /\ w[2] <= attempt[w[1]] /\ attempt[w[1]] \in 1 .. MaxAttempt
        /\ w[2] = attempt[w[1]] /\ w[3] = "empty" => child[w[1]] = "empty"
    BY BridgeTyped DEF TriggerInv, TriggerTypeOK, BridgesStand
  <2> QED
    BY <1>3, <2>1, TriggerAssumption
<1> QED
  BY <1>2, <1>3, <1>4

LEMMA TriggerEnvInv ==
    ASSUME TriggerInv, NEW s \in TriggerStacks, TriggerEnv(s)
    PROVE  TriggerInv'
<1>1. ASSUME NEW e \in GenEnds, GenerateEnds(s, e) PROVE TriggerInv'
  BY <1>1, TriggerAssumption DEF GenerateEnds, TriggerInv, TriggerTypeOK, BridgesStand
<1>2. CASE ChildCreated(s)
  <2>1. PICK c \in {"fine", "empty"} : child' = [child EXCEPT ![s] = c]
    BY <1>2 DEF ChildCreated
  <2>2. TriggerTypeOK'
    BY <1>2, <2>1, TriggerAssumption DEF ChildCreated, TriggerInv, TriggerTypeOK, Children
  <2>3. child[s] = "none" /\ \A r \in TriggerStacks \ {s} : child'[r] = child[r]
    BY <1>2, <2>1 DEF ChildCreated, TriggerInv, TriggerTypeOK
  <2>4. BridgesStand'
    BY <1>2, <2>3, BridgeTyped DEF ChildCreated, TriggerInv, BridgesStand
  <2> QED
    BY <2>2, <2>4 DEF TriggerInv
<1>3. CASE ChildFails(s)
  <2>1. TriggerTypeOK'
    BY <1>3, TriggerAssumption DEF ChildFails, TriggerInv, TriggerTypeOK, Children
  <2>2. child[s] = "fine" /\ \A r \in TriggerStacks \ {s} : child'[r] = child[r]
    BY <1>3 DEF ChildFails, TriggerInv, TriggerTypeOK
  <2>3. BridgesStand'
    BY <1>3, <2>2, BridgeTyped DEF ChildFails, TriggerInv, BridgesStand
  <2> QED
    BY <2>1, <2>3 DEF TriggerInv
<1>4. CASE OperatorRetries(s)
  <2>1. attempt[s] \in 1 .. MaxAttempt
    BY DEF TriggerInv, TriggerTypeOK
  <2> QED
    BY <1>4, <2>1, RetryKeeps DEF OperatorRetries, TriggerInv, TriggerTypeOK, BridgesStand
<1> QED
  BY <1>1, <1>2, <1>3, <1>4 DEF TriggerEnv

LEMMA TriggerNextInv == TriggerInv /\ [TriggerNext]_trigVars => TriggerInv'
<1> SUFFICES ASSUME TriggerInv, [TriggerNext]_trigVars PROVE TriggerInv'
  OBVIOUS
<1>1. CASE ListBridges
  <2>1. \A s \in TriggerStacks : attempt[s] \in 1 .. MaxAttempt /\ child[s] \in Children
    BY DEF TriggerInv, TriggerTypeOK
  <2>2. TriggerTypeOK'
    BY <1>1, <2>1 DEF ListBridges, trigGitLab, TriggerInv, TriggerTypeOK
  <2>3. BridgesStand'
    BY <1>1, <2>1 DEF ListBridges, trigGitLab, BridgesStand
  <2> QED
    BY <2>2, <2>3 DEF TriggerInv
<1>2. CASE FinishTrigger \/ TriggerDies
  <2>1. TriggerTypeOK'
    BY <1>2, TriggerAssumption
    DEF FinishTrigger, TriggerDies, EndTrigger, TriggerInv, TriggerTypeOK
  <2> QED
    BY <1>2, <2>1 DEF FinishTrigger, TriggerDies, EndTrigger, TriggerInv, BridgesStand
<1>3. ASSUME NEW w, PassBridge(w) PROVE TriggerInv'
  BY <1>3 DEF PassBridge, trigGitLab, TriggerInv, TriggerTypeOK, BridgesStand
<1>4. ASSUME NEW w, RetryTrigger(w) PROVE TriggerInv'
  <2>1. /\ w \in bridges /\ bridges' = bridges \ {w} /\ UNCHANGED <<trigFaults, tpc>>
        /\ w[1] \in TriggerStacks /\ w[2] \in 1 .. MaxAttempt
    BY <1>4, BridgeTyped DEF RetryTrigger, TriggerInv
  <2>2. CASE Retry(w[1], w[2])
    BY <2>1, <2>2, RetryKeeps DEF TriggerInv, TriggerTypeOK, BridgesStand
  <2>3. CASE UNCHANGED trigGitLab
    BY <2>1, <2>3 DEF trigGitLab, TriggerInv, TriggerTypeOK, BridgesStand
  <2> QED
    BY <1>4, <2>2, <2>3 DEF RetryTrigger
<1>5. CASE UNCHANGED trigVars
  BY <1>5 DEF trigVars, trigGitLab, TriggerInv, TriggerTypeOK, BridgesStand
<1> QED
  BY <1>1, <1>2, <1>3, <1>4, <1>5, TriggerEnvInv DEF TriggerNext, TriggerStep

THEOREM TriggerInvariance == TriggerSpec => []TriggerInv
BY TriggerInitInv, TriggerNextInv, PTL DEF TriggerSpec

(* Only RetryTrigger shortens the list and retries.                        *)
LEMMA StepEmpty == TriggerInv /\ [TriggerNext]_trigVars => EmptyByNow
<1> SUFFICES ASSUME TriggerInv, [TriggerNext]_trigVars, bridges' # bridges,
                    NEW s \in TriggerStacks, attempt'[s] # attempt[s]
             PROVE  child[s] = "empty"
  BY DEF EmptyByNow
<1>1. \A r \in TriggerStacks : ~TriggerEnv(r)
  BY DEF TriggerEnv, GenerateEnds, ChildCreated, ChildFails, OperatorRetries
<1>2. PICK w : RetryTrigger(w) /\ Retry(w[1], w[2])
  <2>1. ~ListBridges /\ ~FinishTrigger /\ ~TriggerDies /\ ~UNCHANGED trigVars
    BY DEF ListBridges, FinishTrigger, TriggerDies, trigVars, trigGitLab
  <2>2. \A w : ~PassBridge(w)
    BY DEF PassBridge, trigGitLab
  <2> QED
    BY <1>1, <2>1, <2>2 DEF TriggerNext, TriggerStep, RetryTrigger, trigGitLab
<1>3. /\ w \in bridges /\ w[3] = "empty" /\ attempt[w[1]] = w[2]
      /\ attempt' = [attempt EXCEPT ![w[1]] = w[2] + 1]
  BY <1>2 DEF RetryTrigger, NoJobs, Retry
<1>4. s = w[1]
  BY <1>3 DEF TriggerInv, TriggerTypeOK
<1> QED
  BY <1>3, <1>4 DEF TriggerInv, BridgesStand

THEOREM NothingElseRetried == TriggerSpec => OnlyEmptyRetried
<1>1. TriggerInv /\ [TriggerNext]_trigVars => [EmptyByNow]_trigVars
  BY StepEmpty
<1> QED
  BY <1>1, TriggerInvariance, PTL DEF TriggerSpec, OnlyEmptyRetried

(***************************************************************************)
(* Release tags.                                                           *)
(***************************************************************************)
LEMMA SnapshotInitTyped == SnapshotInit => SnapshotTypeOK
BY SnapshotAssumption DEF SnapshotInit, SnapshotTypeOK

LEMMA SnapshotStepTyped == SnapshotTypeOK /\ [SnapshotNext]_snapVars => SnapshotTypeOK'
<1> SUFFICES ASSUME SnapshotTypeOK, [SnapshotNext]_snapVars PROVE SnapshotTypeOK'
  OBVIOUS
<1> USE SnapshotAssumption DEF SnapshotTypeOK
<1>1. CASE NextDay
  BY <1>1 DEF NextDay, SnapSame, snapTags
<1>2. CASE CreateDevelop
  BY <1>2 DEF CreateDevelop, SnapSame, snapTags
<1>3. ASSUME NEW c \in Commits, Succeed(c) \/ Rerun(c) PROVE SnapshotTypeOK'
  <2>1. CASE Succeed(c)
    BY <2>1 DEF Succeed, SnapSame, snapTags
  <2>2. CASE Rerun(c)
    BY <2>2 DEF Rerun, SnapSame, snapTags
  <2> QED
    BY <1>3, <2>1, <2>2
<1>4. ASSUME NEW c \in Commits, FindNewest(c) PROVE SnapshotTypeOK'
  BY <1>4 DEF FindNewest, snapWorld, snapTags
<1>5. CASE GetLatest
  BY <1>5 DEF GetLatest, EndSnapshot, snapWorld, snapTags
<1>6. CASE SetLatest
  BY <1>6 DEF SetLatest, Moved, snapWorld
<1>7. CASE GetDated
  BY <1>7 DEF GetDated, EndSnapshot, snapWorld, snapTags
<1>8. CASE SetDated
  BY <1>8 DEF SetDated, EndSnapshot, snapWorld
<1>9. CASE SnapshotDies
  BY <1>9 DEF SnapshotDies, EndSnapshot, snapWorld, snapTags
<1>10. CASE UNCHANGED snapVars
  BY <1>10 DEF snapVars, snapWorld, snapTags
<1> QED
  BY <1>1, <1>2, <1>3, <1>4, <1>5, <1>6, <1>7, <1>8, <1>9, <1>10
  DEF SnapshotNext, SnapshotStep

THEOREM SnapshotTypeCorrect == Snapshots => []SnapshotTypeOK
BY SnapshotInitTyped, SnapshotStepTyped, PTL DEF Snapshots

(***************************************************************************)
(* Commit statuses.                                                        *)
(***************************************************************************)
LEMMA LinesFunction ==
    ASSUME lines \in Seq(Lines)
    PROVE  /\ Len(lines) \in Nat /\ lines \in [LineIds -> Lines] /\ LineIds = DOMAIN lines
BY LenProperties DEF LineIds

(* A list of as many pipelines is as well typed as its entries are.        *)
LEMMA LinesTyped ==
    ASSUME StatusTypeOK, lines' \in [LineIds -> Lines]
    PROVE  lines' \in Seq(Lines) /\ Len(lines') = Len(lines) /\ LineIds' = LineIds
<1>1. Len(lines) \in Nat
  BY LinesFunction DEF StatusTypeOK
<1>2. lines' \in Seq(Lines) /\ DOMAIN lines' = 1 .. Len(lines)
  BY <1>1, SeqDef DEF LineIds
<1>3. Len(lines') = Len(lines)
  BY <1>1, <1>2, LenProperties
<1> QED
  BY <1>2, <1>3 DEF LineIds

LEMMA OlderTyped ==
    ASSUME NEW r \in Lines PROVE [r EXCEPT !.age = @ + 1] \in Lines
BY DEF Lines

LEMMA NewestTyped ==
    ASSUME NEW h \in HeadsOfPR, NEW m \in Merges, NEW st \in States
    PROVE  [head |-> h, merge |-> m, state |-> st, age |-> 0, syncs |-> 0] \in Lines
<1>1. 0 \in 0 .. WindowSyncs
  BY StatusAssumption
<1> QED
  BY <1>1 DEF Lines

(* What stays of a pipeline: what it tests.                                *)
Ages(i) == lines'[i].head = lines[i].head /\ lines'[i].merge = lines[i].merge

LEMMA TurnTyped ==
    ASSUME StatusTypeOK, UNCHANGED <<turns, postFaults>> \/ Turn \/ PostFault
    PROVE  turns' \in 0 .. MaxTurns /\ postFaults' \in 0 .. MaxPostFaults
BY StatusAssumption DEF StatusTypeOK, Turn, PostFault

(* GitHub shows for a head a verdict of the synchronisation on it, or the  *)
(* state of a pipeline that tests it; and a run that holds the pull        *)
(* request back has no state of a pipeline to post.                        *)
ShownFits ==
    \A h \in HeadsOfPR : \A i \in LineIds :
        status[h][1] = i => lines[i].head = h
OneKind == sorted # "on GitLab" \/ syncpc # "post" => toPost = {}
StatusInv == StatusTypeOK /\ ShownFits /\ OneKind

LEMMA StatusInitInv == StatusInit => StatusInv
<1> SUFFICES ASSUME StatusInit PROVE StatusInv
  OBVIOUS
<1>1. lines \in Seq(Lines) /\ Len(lines) = 0
  <2>1. lines = <<>>
    BY DEF StatusInit
  <2> QED
    BY <2>1
<1>2. status \in [HeadsOfPR -> Shown] /\ sorted \in Sorts
  <2>1. status = [h \in HeadsOfPR |-> NoStatus] /\ sorted = "left out"
    BY DEF StatusInit
  <2> QED
    BY <2>1 DEF Shown, Sorts
<1>3. /\ Len(lines) <= MaxPipelines /\ again \in 0 .. MaxReports /\ turns \in 0 .. MaxTurns
      /\ postFaults \in 0 .. MaxPostFaults
  <2>1. again = 0 /\ turns = 0 /\ postFaults = 0
    BY DEF StatusInit
  <2> QED
    BY <1>1, <2>1, StatusAssumption
<1>4. StatusTypeOK
  BY <1>1, <1>2, <1>3 DEF StatusTypeOK, StatusInit
<1>5. LineIds = {}
  BY <1>1 DEF LineIds
<1> QED
  BY <1>4, <1>5 DEF StatusInv, ShownFits, OneKind, StatusInit

(* Steps that change pipelines, none of which gets another head, and leave *)
(* GitHub and the run alone.                                               *)
LEMMA LinesInv ==
    ASSUME StatusInv, lines' \in Seq(Lines), LineIds \subseteq LineIds', Len(lines') <= MaxPipelines,
           \A i \in LineIds : Ages(i), again' \in 0 .. MaxReports, GitHubSame,
           \A h \in HeadsOfPR : status[h][1] \in LineIds' => status[h][1] \in LineIds
    PROVE  StatusInv'
<1>1. StatusTypeOK'
  BY DEF StatusInv, StatusTypeOK, GitHubSame, syncRun, Shown, Posts
<1> QED
  BY <1>1 DEF StatusInv, ShownFits, OneKind, GitHubSame, syncRun, Ages

LEMMA ShownIds ==
    ASSUME StatusTypeOK, NEW h \in HeadsOfPR
    PROVE  status[h][1] \in LineIds \/ status[h][1] = 0
BY DEF StatusTypeOK, Shown, NoStatus

LEMMA UpdatedInv ==
    ASSUME StatusInv, NEW i \in LineIds, NEW st \in States, Updated(i, st),
           again' \in 0 .. MaxReports
    PROVE  StatusInv'
<1>1. lines \in [LineIds -> Lines]
  BY LinesFunction DEF StatusInv, StatusTypeOK
<1>2. [head |-> lines[i].head, merge |-> lines[i].merge, state |-> st,
       age |-> 0, syncs |-> 0] \in Lines
  <2>1. lines[i].head \in HeadsOfPR /\ lines[i].merge \in Merges
    BY <1>1 DEF Lines
  <2> QED
    BY <2>1, NewestTyped
<1>3. \A j \in LineIds : lines[j] \in Lines /\ [lines[j] EXCEPT !.age = @ + 1] \in Lines
  BY <1>1, OlderTyped
<1>4. lines' \in [LineIds -> Lines]
  BY <1>2, <1>3 DEF Updated
<1>5. lines' \in Seq(Lines) /\ Len(lines') = Len(lines) /\ LineIds' = LineIds
  BY <1>4, LinesTyped DEF StatusInv
<1>6. \A j \in LineIds : Ages(j)
  BY <1>3 DEF Updated, Ages, Lines
<1> QED
  BY <1>5, <1>6, LinesInv DEF Updated, StatusInv, StatusTypeOK

LEMMA LaunchInv ==
    ASSUME StatusInv, LaunchPipeline PROVE StatusInv'
<1> DEFINE old == [j \in LineIds |-> [lines[j] EXCEPT !.age = @ + 1]]
           new == [head |-> branch[1], merge |-> branch[2], state |-> "running", age |-> 0, syncs |-> 0]
<1>1. Len(lines) \in Nat /\ lines \in [LineIds -> Lines] /\ Len(lines) < MaxPipelines
  BY LinesFunction DEF StatusInv, StatusTypeOK, LaunchPipeline
<1>2. new \in Lines
  <2>1. branch[1] \in HeadsOfPR /\ branch[2] \in Merges
    BY DEF StatusInv, StatusTypeOK, LaunchPipeline
  <2> QED
    BY <2>1, NewestTyped DEF States
<1>3. old \in [LineIds -> Lines]
  BY <1>1, OlderTyped
<1>4. old \in Seq(Lines) /\ DOMAIN old = 1 .. Len(lines)
  BY <1>1, <1>3, SeqDef DEF LineIds
<1>5. lines' = Append(old, new)
  BY DEF LaunchPipeline
<1>6. \A j \in LineIds : old[j].head = lines[j].head /\ old[j].merge = lines[j].merge
  BY <1>1 DEF Lines
<1> HIDE DEF old, new
<1>7. Len(old) = Len(lines)
  BY <1>1, <1>4, LenProperties
<1>8. /\ lines' \in Seq(Lines) /\ Len(lines') = Len(lines) + 1
      /\ \A j \in 1 .. Len(lines) : lines'[j] = old[j]
  BY <1>1, <1>2, <1>4, <1>5, <1>7, AppendProperties
<1>9. LineIds \subseteq LineIds' /\ Len(lines') <= MaxPipelines /\ 0 \notin LineIds'
  BY <1>1, <1>8, StatusAssumption DEF LineIds
<1>10. \A i \in LineIds : Ages(i)
  BY <1>6, <1>8 DEF Ages, LineIds
<1>11. \A h \in HeadsOfPR : status[h][1] \in LineIds' => status[h][1] \in LineIds
  BY <1>9, ShownIds DEF StatusInv
<1> QED
  BY <1>8, <1>9, <1>10, <1>11, LinesInv DEF LaunchPipeline, StatusInv, StatusTypeOK

(* The end of a run, however it ends.                                      *)
LEMMA EndPostingInv ==
    ASSUME StatusInv, EndPosting, UNCHANGED <<turns, postFaults>> \/ PostFault
    PROVE  StatusInv'
<1>1. lines \in [LineIds -> Lines]
  BY LinesFunction DEF StatusInv, StatusTypeOK
<1>2. ASSUME NEW i \in LineIds
      PROVE  /\ [lines[i] EXCEPT !.syncs = IF InAnswer(i) THEN @ + 1 ELSE @] \in Lines
             /\ [lines[i] EXCEPT !.syncs = IF InAnswer(i) THEN @ + 1 ELSE @].head = lines[i].head
  BY <1>1, StatusAssumption DEF Lines, InAnswer
<1>3. lines' \in [LineIds -> Lines] /\ \A i \in LineIds : lines'[i].head = lines[i].head
  BY <1>2 DEF EndPosting
<1>4. lines' \in Seq(Lines) /\ Len(lines') = Len(lines) /\ LineIds' = LineIds
  BY <1>3, LinesTyped DEF StatusInv
<1>5. StatusTypeOK'
  BY <1>4, TurnTyped DEF StatusInv, StatusTypeOK, EndPosting, Posts, Shown, Sorts
<1> QED
  BY <1>3, <1>4, <1>5 DEF StatusInv, ShownFits, OneKind, EndPosting

LEMMA StatusStepInv == StatusInv /\ [StatusNext]_statusVars => StatusInv'
<1> SUFFICES ASSUME StatusInv, [StatusNext]_statusVars PROVE StatusInv'
  OBVIOUS
<1>1. StatusTypeOK /\ ShownFits /\ OneKind
  BY DEF StatusInv
<1>2. ASSUME UNCHANGED <<lines, status, again>>, OneKind',
             UNCHANGED <<turns, postFaults>> \/ Turn \/ PostFault,
             pull' \in [head : HeadsOfPR, ready : BOOLEAN],
             branch' \in (HeadsOfPR \X Merges) \union {NoMerge},
             syncpc' \in {"idle", "sorted", "post"}, sorted' \in Sorts,
             sortedHead' \in HeadsOfPR, toPost' \subseteq Posts
      PROVE  StatusInv'
  <2>1. turns' \in 0 .. MaxTurns /\ postFaults' \in 0 .. MaxPostFaults
    BY <1>1, <1>2, TurnTyped
  <2>2. StatusTypeOK'
    BY <1>1, <1>2, <2>1 DEF StatusTypeOK, LineIds, Posts, Shown
  <2> QED
    BY <1>1, <1>2, <2>2 DEF StatusInv, ShownFits, LineIds
<1>3. ASSUME NEW h \in HeadsOfPR, NEW ready \in BOOLEAN, TurnPull(h, ready) PROVE StatusInv'
  BY <1>1, <1>2, <1>3 DEF TurnPull, gitlabLines, syncRun, StatusTypeOK, OneKind
<1>4. CASE DropBranch
  BY <1>1, <1>2, <1>4 DEF DropBranch, syncRun, StatusTypeOK, OneKind
<1>5. CASE LaunchPipeline
  BY <1>5, LaunchInv
<1>6. ASSUME NEW i \in LineIds, RunAgain(i) PROVE StatusInv'
  BY <1>1, <1>6, UpdatedInv, StatusAssumption DEF RunAgain, States, StatusTypeOK
<1>7. ASSUME NEW i \in LineIds, NEW st \in Finished, EndPipeline(i, st) PROVE StatusInv'
  BY <1>1, <1>7, UpdatedInv DEF EndPipeline, States, StatusTypeOK
<1>8. CASE SortPull
  BY <1>1, <1>2, <1>8 DEF SortPull, gitlabLines, StatusTypeOK, OneKind
<1>9. ASSUME NEW m \in Merges, PushMerge(m) PROVE StatusInv'
  BY <1>1, <1>2, <1>9 DEF PushMerge, StatusTypeOK, OneKind, Sorts, Synchronised
<1>10. CASE QueryStatus
  <2>1. toPost' \subseteq Posts /\ UNCHANGED <<lines, again, status, pull, branch, sorted, sortedHead>>
    BY <1>10 DEF QueryStatus, Dedupe, gitlabLines
  <2>2. OneKind'
    BY <1>10 DEF QueryStatus, OneKind, Synchronised
  <2> QED
    BY <1>1, <1>2, <1>10, <2>1, <2>2 DEF QueryStatus, StatusTypeOK
<1>11. ASSUME NEW w \in toPost, PostNext(w) PROVE StatusInv'
  <2>1. w.line \in LineIds /\ w.state \in States
    BY <1>1 DEF StatusTypeOK, Posts
  <2>2. /\ UNCHANGED <<pull, lines, branch, again, syncpc, sorted, sortedHead>>
        /\ toPost' = toPost \ {w} /\ (UNCHANGED <<turns, postFaults>> \/ PostFault)
    BY <1>11 DEF PostNext, gitlabLines
  <2>3. CASE UNCHANGED status
    BY <1>1, <1>2, <2>2, <2>3 DEF StatusTypeOK, OneKind
  <2>4. CASE status' = [status EXCEPT ![lines[w.line].head] = <<w.line, w.state>>]
    <3>1. status' \in [HeadsOfPR -> Shown]
      BY <1>1, <2>1, <2>4 DEF StatusTypeOK, Shown
    <3>2. StatusTypeOK'
      BY <1>1, <2>2, <3>1, TurnTyped DEF StatusTypeOK, LineIds, Posts, Shown
    <3>3. ShownFits'
      BY <1>1, <2>1, <2>2, <2>4 DEF StatusTypeOK, ShownFits, LineIds
    <3> QED
      BY <1>1, <2>2, <3>2, <3>3 DEF StatusInv, OneKind
  <2> QED
    BY <1>11, <2>3, <2>4 DEF PostNext
<1>12. CASE PostVerdict
  <2>1. /\ UNCHANGED <<pull, lines, branch, again, syncpc, sortedHead, toPost>>
        /\ sorted' = "left out" /\ (UNCHANGED <<turns, postFaults>> \/ PostFault)
        /\ sorted \in Verdicts
    BY <1>12 DEF PostVerdict, gitlabLines
  <2>2. OneKind'
    BY <1>1, <2>1 DEF OneKind, Verdicts
  <2>3. CASE UNCHANGED status
    BY <1>1, <1>2, <2>1, <2>2, <2>3 DEF StatusTypeOK, Sorts
  <2>4. CASE status' = [status EXCEPT ![sortedHead] = <<0, Word[sorted]>>]
    <3>1. status' \in [HeadsOfPR -> Shown]
      BY <1>1, <2>1, <2>4 DEF StatusTypeOK, Shown
    <3>2. StatusTypeOK'
      BY <1>1, <2>1, <3>1, TurnTyped DEF StatusTypeOK, LineIds, Posts, Shown, Sorts
    <3>3. \A i \in LineIds : i # 0
      BY DEF LineIds
    <3>4. ShownFits'
      BY <1>1, <2>1, <2>4, <3>3 DEF StatusTypeOK, ShownFits, LineIds
    <3> QED
      BY <2>2, <3>2, <3>4 DEF StatusInv
  <2> QED
    BY <1>12, <2>3, <2>4 DEF PostVerdict
<1>13. CASE FinishPosting \/ PostingDies
  BY <1>13, EndPostingInv DEF FinishPosting, PostingDies
<1>14. CASE UNCHANGED statusVars
  BY <1>1, <1>2, <1>14 DEF statusVars, gitlabLines, syncRun, StatusTypeOK, OneKind
<1> QED
  BY <1>3, <1>4, <1>5, <1>6, <1>7, <1>8, <1>9, <1>10, <1>11, <1>12, <1>13, <1>14
  DEF StatusNext, StatusStep

(* What GitHub shows for a head is the state of a pipeline that tests that *)
(* head, or the verdict of a run on it; and no run that holds the pull     *)
(* request back posts the state of a pipeline.                             *)
THEOREM StatusInvariance == StatusSpec => []StatusInv
BY StatusInitInv, StatusStepInv, PTL DEF StatusSpec

(***************************************************************************)
(* The node controller.                                                    *)
(***************************************************************************)
(* While nothing was written to the node since it was read, the copy is    *)
(* what the node carries, and the node is there.                           *)
CopyFollows ==
    nodeCurrent => /\ nodeCur # {}
                   /\ \A n \in nodeCur : Up(n) /\ nodeCopy = nodeTaints[n]

NodeInv == NodeTypeOK /\ CopyFollows

(***************************************************************************)
(* What a step of the controller leaves alone.                             *)
(***************************************************************************)
LEMMA FreshTyped == EndNodeRun /\ UNCHANGED nodeCluster /\ NodeTypeOK => NodeInv'
BY DEF EndNodeRun, nodeCluster, NodeTypeOK, NodeInv, CopyFollows, Calls

LEMMA KeepTaintInv == KeepTaint /\ NodeInv => NodeInv'
BY DEF KeepTaint, nodeCluster, NodeTypeOK, NodeInv, CopyFollows, Calls

LEMMA GotoInv ==
    ASSUME NEW call \in Calls, Goto(call), NodeInv
    PROVE  NodeInv'
BY DEF Goto, nodeCluster, NodeTypeOK, NodeInv, CopyFollows, Up

(***************************************************************************)
(* The inductive invariant.                                                *)
(***************************************************************************)
LEMMA NodeInitInv == NodeInit => NodeInv
<1> SUFFICES ASSUME NodeInit PROVE NodeInv
  OBVIOUS
<1>1. nodeState \in [Nodes -> Conditions \union {Absent}]
  BY DEF NodeInit
<1>2. nodeTaints \in [Nodes -> SUBSET Taints]
  BY DEF NodeInit
<1>3. CopyFollows
  BY DEF NodeInit, NodeFresh, CopyFollows
<1>4. nodeCSRs \subseteq Nodes /\ nodeOps \in 0 .. MaxNodeOps
  BY NodeAssumption DEF NodeInit
<1>5. nodeTodo \subseteq Nodes /\ nodeCall \in Calls /\ nodeCur \in {{}} \union {{n} : n \in Nodes}
  BY DEF NodeInit, NodeFresh, Calls
<1>6. nodeCopy \subseteq Taints /\ nodeCurrent \in BOOLEAN
  BY DEF NodeInit, NodeFresh
<1> QED
  BY <1>1, <1>2, <1>3, <1>4, <1>5, <1>6 DEF NodeInv, NodeTypeOK

LEMMA NodeEnvInv ==
    ASSUME NEW n \in Nodes, NodeEnv(n), NodeInv
    PROVE  NodeInv'
<1> USE NodeAssumption DEF NodeInv, NodeTypeOK
<1>1. CASE NodeJoins(n)
  <2>1. NodeTypeOK'
    BY <1>1 DEF NodeJoins, nodeRun, Conditions, Taints
  <2>2. n \notin nodeCur \/ ~nodeCurrent
    BY <1>1 DEF NodeJoins, CopyFollows, Up
  <2>3. CopyFollows'
    BY <1>1, <2>2 DEF NodeJoins, nodeRun, CopyFollows, Up
  <2> QED
    BY <2>1, <2>3
<1>2. CASE ApproveCSR(n)
  BY <1>2 DEF ApproveCSR, nodeRun, CopyFollows, Up
<1>3. CASE Report(n)
  <2>1. NodeTypeOK'
    BY <1>3 DEF Report, Touch, Conditions
  <2>2. CopyFollows'
    BY <1>3 DEF Report, Touch, CopyFollows, Up
  <2> QED
    BY <2>1, <2>2
<1>4. CASE SetOtherTaint(n)
  <2>1. NodeTypeOK'
    BY <1>4 DEF SetOtherTaint, Touch, Taints
  <2>2. CopyFollows'
    BY <1>4 DEF SetOtherTaint, Touch, CopyFollows, Up
  <2> QED
    BY <2>1, <2>2
<1>5. CASE NodeLeaves(n)
  <2>1. NodeTypeOK'
    BY <1>5 DEF NodeLeaves, Touch
  <2>2. CopyFollows'
    BY <1>5 DEF NodeLeaves, Touch, CopyFollows, Up
  <2> QED
    BY <2>1, <2>2
<1> QED
  BY <1>1, <1>2, <1>3, <1>4, <1>5 DEF NodeEnv

LEMMA NodeStepInv ==
    ASSUME NEW n \in Nodes, NodeStep(n), NodeInv
    PROVE  NodeInv'
<1>1. CASE NextNode(n)
  BY <1>1 DEF NextNode, nodeCluster, NodeInv, NodeTypeOK, CopyFollows, Up
<1>2. CASE CheckReady(n)
  BY <1>2, KeepTaintInv, GotoInv DEF CheckReady, Calls
<1>3. CASE CheckCSRs(n)
  BY <1>3, KeepTaintInv, GotoInv DEF CheckCSRs, Calls
<1>4. CASE CheckKubelet(n)
  BY <1>4, KeepTaintInv, GotoInv DEF CheckKubelet, Calls
<1>5. CASE CheckConditions(n)
  BY <1>5, KeepTaintInv, GotoInv DEF CheckConditions, Calls
<1>6. CASE ReadNode(n)
  BY <1>6 DEF ReadNode, At, nodeCluster, NodeInv, NodeTypeOK, CopyFollows, Up, Calls
<1>7. CASE PatchNode(n)
  <2>1. CASE KeepTaint
    BY <2>1, KeepTaintInv
  <2>2. CASE ~KeepTaint
    BY <1>7, <2>2 DEF PatchNode, NodeInv, NodeTypeOK, CopyFollows, Calls
  <2> QED
    BY <2>1, <2>2
<1> QED
  BY <1>1, <1>2, <1>3, <1>4, <1>5, <1>6, <1>7 DEF NodeStep

LEMMA NodeNextInv == NodeInv /\ [NodeNext]_nodeVars => NodeInv'
<1> SUFFICES ASSUME NodeInv, [NodeNext]_nodeVars PROVE NodeInv'
  OBVIOUS
<1>1. CASE ListTainted
  BY <1>1 DEF ListTainted, nodeCluster, NodeInv, NodeTypeOK, CopyFollows, Up
<1>2. CASE NodeRunDies
  BY <1>2, FreshTyped DEF NodeRunDies, NodeInv
<1>3. CASE UNCHANGED nodeVars
  BY <1>3 DEF nodeVars, nodeCluster, nodeRun, NodeInv, NodeTypeOK, CopyFollows, Up
<1> QED
  BY <1>1, <1>2, <1>3, NodeEnvInv, NodeStepInv DEF NodeNext, NodeController

(* The copy is current whenever the API server accepts the patch.          *)
THEOREM NodeInvariance == NodeSpec => []NodeInv
BY NodeInitInv, NodeNextInv, PTL DEF NodeSpec

(* Nodes carry known taints, and a run is at one node at most.             *)
THEOREM NodeTypeCorrect == NodeSpec => []NodeTypeOK
BY NodeInvariance, PTL DEF NodeInv

(***************************************************************************)
(* Other controllers' taints.                                              *)
(***************************************************************************)
LEMMA OnlyPatchLiftsCert ==
    ASSUME NodeInv, NodeNext, NEW m \in Nodes,
           Cert \in nodeTaints[m], Cert \notin nodeTaints'[m]
    PROVE  PatchNode(m) /\ ~KeepTaint
<1>1. nodeTaints' # nodeTaints
  OBVIOUS
<1>2. PICK n \in Nodes : NodeJoins(n) \/ SetOtherTaint(n) \/ (PatchNode(n) /\ ~KeepTaint)
  <2>1. ~ListTainted /\ ~NodeRunDies
    BY <1>1 DEF ListTainted, NodeRunDies, nodeCluster
  <2>2. ~KeepTaint /\ \A call : ~Goto(call)
    BY <1>1 DEF KeepTaint, Goto, nodeCluster
  <2>3. ASSUME NEW n \in Nodes, NodeStep(n) PROVE PatchNode(n)
    BY <1>1, <2>2, <2>3
    DEF NodeStep, NextNode, CheckReady, CheckCSRs, CheckKubelet, CheckConditions, ReadNode, nodeCluster
  <2>4. ASSUME NEW n \in Nodes, NodeEnv(n) PROVE NodeJoins(n) \/ SetOtherTaint(n)
    BY <1>1, <2>4 DEF NodeEnv, ApproveCSR, Report, NodeLeaves
  <2> QED
    BY <2>1, <2>2, <2>3, <2>4 DEF NodeNext, NodeController
<1>3. ~NodeJoins(n)
  BY DEF NodeJoins, NodeInv, NodeTypeOK
<1>4. ~SetOtherTaint(n)
  BY DEF SetOtherTaint, NodeInv, NodeTypeOK, Cert, Other
<1>5. n = m
  BY <1>2, <1>3, <1>4 DEF PatchNode, NodeInv, NodeTypeOK
<1> QED
  BY <1>2, <1>3, <1>4, <1>5

(* Whatever other controllers do to a node between the read and the patch, *)
(* only the controller's own taint goes.                                   *)
THEOREM OthersKept == NodeSpec => NodeOthersKept
<1>1. NodeInv /\ [NodeNext]_nodeVars => [OnlyCertRemoved]_nodeVars
  <2> SUFFICES ASSUME NodeInv, NodeNext, NEW n \in Nodes,
                      Cert \in nodeTaints[n], Cert \notin nodeTaints'[n]
               PROVE  nodeTaints'[n] = nodeTaints[n] \ {Cert}
    BY DEF OnlyCertRemoved
  <2>1. PatchNode(n) /\ ~KeepTaint
    BY OnlyPatchLiftsCert
  <2>2. nodeTaints'[n] = nodeCopy \ {Cert} /\ nodeCurrent /\ n \in nodeCur
    BY <2>1 DEF PatchNode, MayPatch, At, NodeInv, NodeTypeOK
  <2> QED
    BY <2>2 DEF NodeInv, CopyFollows
<1> QED
  BY <1>1, NodeInvariance, PTL DEF NodeSpec, NodeOthersKept

(***************************************************************************)
(* The composition.                                                        *)
(***************************************************************************)
LEMMA PartsInit ==
    Init => JanitorInit /\ TriggerInit /\ SnapshotInit /\ StatusInit /\ NodeInit
BY DEF Init

LEMMA PartsStep ==
    [Next]_pipelineVars =>
        /\ [JanitorNext]_janVars /\ [TriggerNext]_trigVars /\ [SnapshotNext]_snapVars
        /\ [StatusNext]_statusVars /\ [NodeNext]_nodeVars
BY DEF Next, pipelineVars, JanitorsNext, TriggersNext, TagsNext, StatusesNext, NodesNext

(* Every behaviour of the jobs together is one of each of them.            *)
THEOREM PartsOfPipelineJobs ==
    Spec => JanitorSpec /\ TriggerSpec /\ Snapshots /\ StatusSpec /\ NodeSpec
BY PartsInit, PartsStep, PTL
DEF Spec, JanitorSpec, TriggerSpec, Snapshots, StatusSpec, NodeSpec

(* Whichever runs die and whatever their surroundings do meanwhile, every  *)
(* part keeps to its types.                                                *)
THEOREM PipelineTypeCorrect == Spec => []PipelineTypeOK
<1>1. JanitorInv /\ TriggerInv /\ SnapshotTypeOK /\ StatusInv /\ NodeTypeOK
        => PipelineTypeOK
  BY DEF JanitorInv, TriggerInv, StatusInv, PipelineTypeOK
<1> QED
  BY <1>1, PartsOfPipelineJobs, JanitorInvariance, TriggerInvariance, SnapshotTypeCorrect,
     StatusInvariance, NodeTypeCorrect, PTL

(* The skipped pipelines job decides on events, branches and pipelines it  *)
(* read one after the other, and still starts no second pipeline for a     *)
(* head unless the branch was pushed to or restarted, or a query failed.   *)
THEOREM SecondOnlyIfDisturbedHolds == Spec => SecondOnlyIfDisturbed
BY PartsOfPipelineJobs, NoSecondPipeline, PTL

(* A trigger is retried by the job only while its child still has no job,  *)
(* although the listing may be old: the id of the job has to be the last.  *)
THEOREM OnlyEmptyRetriedHolds == Spec => OnlyEmptyRetried
BY PartsOfPipelineJobs, NothingElseRetried, PTL

(* The taints of other controllers survive the read and the patch.         *)
THEOREM NodeOthersKeptHolds == Spec => NodeOthersKept
BY PartsOfPipelineJobs, OthersKept, PTL

=============================================================================
