------------------------------ MODULE RetryInfo ------------------------------
(***************************************************************************)
(* analytics/job_processor/utils.py, get_job_retry_data: which attempt of  *)
(* its job a finished attempt was, and whether GitLab is going to retry it.*)
(* The web hook can be late and out of order, so the attempts GitLab has   *)
(* by then include later ones.  GitLab's own rule is modelled from the     *)
(* documentation the code links (keyword retry).                           *)
(***************************************************************************)
EXTENDS Integers, Sequences, FiniteSets

CONSTANTS
    Lines,          \* jobs of pipelines: a name in a pipeline
    Reasons,        \* failure reasons of GitLab
    Configs,        \* retry configurations: [table, max, when]
    MaxAttempts     \* bound: attempts in GitLab

ASSUME RetryAssumption ==
    /\ MaxAttempts \in Nat /\ Configs # {}
    /\ {"always", "success", "running"} \intersect Reasons = {}
    /\ \A c \in Configs : /\ c.table \in {"new", "old", "none"} /\ c.max \in Nat
                          /\ c.when \subseteq Reasons \union {"always"}
                          /\ c.table = "none" => c.max = 0

NoInfo == [attempt |-> 0, final |-> FALSE, manual |-> FALSE]

VARIABLES
    config,         \* config[l]: the retry configuration of the job
    attempts,       \* attempts[i]: the attempt with id i, of any job
    info            \* info[i]: what was recorded for it, or NoInfo

retryVars == <<config, attempts, info>>

AttemptIds == 1 .. Len(attempts)
Finished(i) == attempts[i].result # "running"
Failed(i)   == attempts[i].result \in Reasons

RetryInit ==
    /\ config \in [Lines -> Configs]
    /\ attempts = <<>> /\ info = <<>>

-----------------------------------------------------------------------------
(***************************************************************************)
(* GitLab.                                                                 *)
(***************************************************************************)
OfLine(l) == {i \in AttemptIds : attempts[i].line = l}
Latest(l) == CHOOSE i \in OfLine(l) : \A j \in OfLine(l) : j <= i

NewAttempt(s, l, by) == Append(s, [line |-> l, result |-> "running", by |-> by])

PipelineCreates(l) ==
    /\ OfLine(l) = {} /\ Len(attempts) < MaxAttempts
    /\ attempts' = NewAttempt(attempts, l, "pipeline")
    /\ info' = Append(info, NoInfo)
    /\ UNCHANGED config

AttemptSucceeds(i) ==
    /\ ~Finished(i)
    /\ attempts' = [attempts EXCEPT ![i].result = "success"]
    /\ UNCHANGED <<config, info>>

(* GitLab retries a failed attempt for a configured reason, as long as the *)
(* job was retried less than max times.                                    *)
GitLabRetries(l, reason) ==
    LET c == config[l]
    IN  {"always", reason} \intersect c.when # {} /\ Cardinality(OfLine(l)) - 1 < c.max

AttemptFails(i, reason) ==
    LET l == attempts[i].line
        failed == [attempts EXCEPT ![i].result = reason]
    IN  /\ ~Finished(i) /\ Len(attempts) < MaxAttempts
        /\ IF GitLabRetries(l, reason)
           THEN attempts' = NewAttempt(failed, l, "gitlab") /\ info' = Append(info, NoInfo)
           ELSE attempts' = failed /\ UNCHANGED info
        /\ UNCHANGED config

UserRetries(l) ==
    /\ OfLine(l) # {} /\ Finished(Latest(l)) /\ Len(attempts) < MaxAttempts
    /\ attempts' = NewAttempt(attempts, l, "user")
    /\ info' = Append(info, NoInfo)
    /\ UNCHANGED config

-----------------------------------------------------------------------------
(***************************************************************************)
(* get_job_retry_data.                                                     *)
(***************************************************************************)
(* The attempts GitLab lists of the same job: those with a lower id.       *)
EarlierAny(i) == OfLine(attempts[i].line) \ {i}   \* faulty variant
Earlier(i)    == {j \in OfLine(attempts[i].line) : j < i}

(* The table of job definitions, then the one used before November 2025,   *)
(* then GitLab's default; both tables hold the same.                       *)
ConfigOf(i) ==
    LET c == config[attempts[i].line]
    IN  IF c.table # "none" THEN [max |-> c.max, when |-> c.when]
        ELSE [max |-> 0, when |-> {"always"}]

RetryReasons(c) == IF c.max = 0 THEN {} ELSE c.when

(* is_retry, which is attempt > 1, is left out.                            *)
RetryData(i) ==
    LET c == ConfigOf(i)
        attempt == Cardinality(Earlier(i)) + 1
        byReason == {"always", attempts[i].result} \intersect RetryReasons(c) # {}
    IN  [attempt |-> attempt, final |-> ~(byReason /\ attempt <= c.max),
         manual |-> attempt > c.max + 1]

(* create_job_retry_dimension, whenever the task of this attempt runs.     *)
RecordRetry(i) ==
    /\ Finished(i) /\ info[i] = NoInfo
    /\ info' = [info EXCEPT ![i] = RetryData(i)]
    /\ UNCHANGED <<config, attempts>>

-----------------------------------------------------------------------------
RetryLine(l) == PipelineCreates(l) \/ UserRetries(l)
RetryAttempt(i) ==
    AttemptSucceeds(i) \/ RecordRetry(i) \/ \E r \in Reasons : AttemptFails(i, r)

RetryNext == (\E l \in Lines : RetryLine(l)) \/ (\E i \in AttemptIds : RetryAttempt(i))

RetrySpec == RetryInit /\ [][RetryNext]_retryVars

-----------------------------------------------------------------------------
(* However late and in whatever order the web hooks are processed, and     *)
(* whoever retries meanwhile: the attempts of a job are numbered in the    *)
(* order GitLab made them, a failed attempt is recorded as final if and    *)
(* only if GitLab did not retry it, and one recorded as a manual retry was *)
(* made by a user (a user's retry within the limit is not recorded as one).*)
RetriedByGitLab(i) ==
    \E j \in OfLine(attempts[i].line) :
        /\ j > i /\ attempts[j].by = "gitlab"
        /\ ~\E k \in OfLine(attempts[i].line) : i < k /\ k < j

RetryInfoExact ==
    \A i \in AttemptIds : info[i] # NoInfo =>
        /\ info[i].attempt = Cardinality({j \in 1 .. i : attempts[j].line = attempts[i].line})
        /\ Failed(i) => (info[i].final <=> ~RetriedByGitLab(i))
        /\ info[i].manual => attempts[i].by = "user"
=============================================================================
