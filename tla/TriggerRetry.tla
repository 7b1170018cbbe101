---------------------------- MODULE TriggerRetry ----------------------------
(***************************************************************************)
(* images/retry-trigger-jobs/retry_trigger_jobs.py, every 15 minutes: it   *)
(* retries the trigger jobs whose child pipeline failed before it had any  *)
(* job, once their generate job has succeeded after a failure.  Only       *)
(* pipelines updated in the last hours are looked at, and the first        *)
(* request that fails ends the run.  Jobs end, and operators retry them,   *)
(* between any two requests.  One parent pipeline is modelled.             *)
(***************************************************************************)
EXTENDS Integers

CONSTANTS
    TriggerStacks,  \* each has a generate job and a trigger job
    MaxAttempt,     \* bound: jobs a trigger becomes by being retried
    WindowRuns,     \* runs that end within the hours looked back
    MaxTrigFaults   \* bound: runs that die

ASSUME TriggerAssumption ==
    MaxAttempt \in Nat \ {0} /\ MaxTrigFaults \in Nat /\ WindowRuns \in Nat
    /\ MaxTrigFaults + 1 < WindowRuns

(* A trigger job has no downstream pipeline yet, or one that has jobs, or  *)
(* one that failed: after its jobs ran, or without any job.                *)
Children == {"none", "fine", "failed", "empty"}
GenEnds  == {"success", "failed"}

VARIABLES
    gen,            \* gen[s]: how attempts of the generate job have ended
    attempt,        \* attempt[s]: the id of its trigger job, new with each retry
    child,          \* child[s]: see Children
    quiet,          \* runs since the pipeline was last updated
    trigFaults,
    (* one run *)
    tpc, bridges    \* bridges: the <<s, attempt, child>> still to be looked at

trigGitLab == <<gen, attempt, child, quiet>>
trigVars   == <<trigGitLab, trigFaults, tpc, bridges>>

TriggerTypeOK ==
    /\ gen \in [TriggerStacks -> SUBSET GenEnds] /\ attempt \in [TriggerStacks -> 1 .. MaxAttempt]
    /\ child \in [TriggerStacks -> Children] /\ quiet \in 0 .. WindowRuns
    /\ trigFaults \in 0 .. MaxTrigFaults /\ tpc \in {"idle", "bridges"}
    /\ bridges \subseteq TriggerStacks \X (1 .. MaxAttempt) \X Children

TriggerInit ==
    /\ gen = [s \in TriggerStacks |-> {}] /\ attempt = [s \in TriggerStacks |-> 1]
    /\ child = [s \in TriggerStacks |-> "none"] /\ quiet = 0 /\ trigFaults = 0
    /\ tpc = "idle" /\ bridges = {}

-----------------------------------------------------------------------------
(***************************************************************************)
(* GitLab and its users.  Whatever happens to a job updates the pipeline.  *)
(***************************************************************************)
GenerateEnds(s, e) ==
    /\ e \notin gen[s] /\ gen' = [gen EXCEPT ![s] = gen[s] \union {e}]
    /\ quiet' = 0
    /\ UNCHANGED <<attempt, child, trigFaults, tpc, bridges>>

(* The child is created from what a generate job left behind.              *)
ChildCreated(s) ==
    /\ child[s] = "none" /\ gen[s] # {} /\ quiet < WindowRuns
    /\ \E c \in {"fine", "empty"} :
          /\ c = "fine" => "success" \in gen[s]
          /\ c = "empty" => "failed" \in gen[s]
          /\ child' = [child EXCEPT ![s] = c]
    /\ quiet' = 0
    /\ UNCHANGED <<gen, attempt, trigFaults, tpc, bridges>>

ChildFails(s) ==
    /\ child[s] = "fine" /\ child' = [child EXCEPT ![s] = "failed"]
    /\ quiet' = 0
    /\ UNCHANGED <<gen, attempt, trigFaults, tpc, bridges>>

(* A job that was retried cannot be retried again: its successor can.      *)
Retry(s, a) ==
    /\ attempt[s] = a /\ attempt[s] < MaxAttempt
    /\ attempt' = [attempt EXCEPT ![s] = a + 1]
    /\ child' = [child EXCEPT ![s] = "none"] /\ quiet' = 0
    /\ UNCHANGED gen

OperatorRetries(s) ==
    /\ child[s] \in {"failed", "empty"} /\ Retry(s, attempt[s])
    /\ UNCHANGED <<trigFaults, tpc, bridges>>

-----------------------------------------------------------------------------
(***************************************************************************)
(* One run of retry_trigger_jobs.                                          *)
(***************************************************************************)
EndTrigger ==
    /\ tpc' = "idle" /\ bridges' = {}
    /\ quiet' = IF quiet < WindowRuns THEN quiet + 1 ELSE quiet

(* The pipeline is in the window; so are its bridges.                      *)
ListBridges ==
    /\ tpc = "idle" /\ quiet < WindowRuns
    /\ tpc' = "bridges"
    /\ bridges' = {<<s, attempt[s], child[s]>> : s \in TriggerStacks}
    /\ UNCHANGED <<trigGitLab, trigFaults>>

(* 1), 2): as listed; 3): the jobs of the child, of which it has none.     *)
FailedChild(w) == w[3] \in {"failed", "empty"}
NoJobsUnasked(w) == FailedChild(w)   \* faulty variant: 3) is left out
NoJobs(w) == w[3] = "empty"

(* 4): asked of the parent's jobs by now.                                  *)
GeneratedListed(s) == FALSE   \* faulty variant: only the last job is listed, never both ends
GeneratedAfterAll(s) == gen[s] = GenEnds

PassBridge(w) ==
    /\ tpc = "bridges" /\ w \in bridges
    /\ ~(FailedChild(w) /\ NoJobs(w)) \/ ~GeneratedAfterAll(w[1])
    /\ bridges' = bridges \ {w}
    /\ UNCHANGED <<trigGitLab, trigFaults, tpc>>

RetryTrigger(w) ==
    /\ tpc = "bridges" /\ w \in bridges
    /\ FailedChild(w) /\ NoJobs(w) /\ GeneratedAfterAll(w[1])
    /\ \/ Retry(w[1], w[2])
       \/ (attempt[w[1]] # w[2] \/ w[2] = MaxAttempt) /\ UNCHANGED trigGitLab
    /\ bridges' = bridges \ {w}
    /\ UNCHANGED <<trigFaults, tpc>>

FinishTrigger ==
    /\ tpc = "bridges" /\ bridges = {}
    /\ EndTrigger
    /\ UNCHANGED <<gen, attempt, child, trigFaults>>

TriggerDies ==
    /\ tpc # "idle" /\ trigFaults < MaxTrigFaults /\ trigFaults' = trigFaults + 1
    /\ EndTrigger
    /\ UNCHANGED <<gen, attempt, child>>

-----------------------------------------------------------------------------
TriggerEnv(s) ==
    \/ ChildCreated(s) \/ ChildFails(s) \/ OperatorRetries(s)
    \/ \E e \in GenEnds : GenerateEnds(s, e)

TriggerStep ==
    \/ ListBridges \/ FinishTrigger
    \/ \E s \in TriggerStacks, a \in 1 .. MaxAttempt, c \in Children :
          PassBridge(<<s, a, c>>) \/ RetryTrigger(<<s, a, c>>)

TriggerNext == TriggerStep \/ TriggerDies \/ \E s \in TriggerStacks : TriggerEnv(s)

TriggerSpec == TriggerInit /\ [][TriggerNext]_trigVars

-----------------------------------------------------------------------------
(* The job only ever retries a trigger whose child has failed without a    *)
(* job by then, although it decides on a listing: whoever retries the      *)
(* trigger meanwhile gives it another id.                                  *)
EmptyByNow ==
    tpc = "bridges" /\ bridges' # bridges =>
        \A s \in TriggerStacks : attempt'[s] # attempt[s] => child[s] = "empty"
OnlyEmptyRetried == [][EmptyByNow]_trigVars

(* A child pipeline without jobs, whose generate job has both failed and   *)
(* succeeded, does not stay that way, although runs die and although the   *)
(* pipeline drops out of the window when nothing happens to it.            *)
Stranded(s) == child[s] = "empty" /\ gen[s] = GenEnds /\ attempt[s] < MaxAttempt
EmptyRetried == \A s \in TriggerStacks : Stranded(s) ~> ~Stranded(s)
=============================================================================
