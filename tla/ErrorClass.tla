----------------------------- MODULE ErrorClass -----------------------------
(***************************************************************************)
(* The class of error of a failed job, found twice: by                     *)
(* scripts/error-classification.py, over a table of jobs, column by column *)
(* (get-logs, classify, deconflict), and by _assign_error_taxonomy of the  *)
(* job processor, job by job, each with a taxonomy and an order of         *)
(* preference of its own.  A class stands for its patterns.                *)
(***************************************************************************)
EXTENDS Integers, Sequences

CONSTANTS
    FailedJobs,         \* the rows of the CSV
    Missing,            \* the class of a log that could not be fetched
    Taxonomy,           \* the classes that have patterns, as the taxonomy lists them
    DeconflictOrder,    \* the same classes, in order of preference
    ProcessorOrder      \* the deconflict_order of error_taxonomy.yaml

OtherErrors == "other"
Classes == {Taxonomy[k] : k \in DOMAIN Taxonomy}
NoLog   == {OtherErrors}    \* no file of the job in the directory of logs
ProcessorClasses == {ProcessorOrder[k] : k \in DOMAIN ProcessorOrder}

ASSUME ErrorAssumption ==
    /\ Taxonomy \in Seq(Classes) /\ DeconflictOrder \in Seq(Classes)
    /\ Classes = {DeconflictOrder[k] : k \in DOMAIN DeconflictOrder}
    /\ Len(Taxonomy) = Len(DeconflictOrder)
    /\ Missing \in Classes /\ OtherErrors \notin Classes
    /\ ProcessorOrder \in Seq(ProcessorClasses)
    /\ \A k, l \in DOMAIN ProcessorOrder : ProcessorOrder[k] = ProcessorOrder[l] => k = l

VARIABLES
    logs,           \* logs[j]: the classes with a pattern in the file of job j
    reason,         \* reason[j]: "timeout" or "script", the reason GitLab gives
    columns,        \* columns[c]: the jobs marked with class c
    stage, done     \* the command that runs, and the columns it has done

errorVars == <<logs, reason, columns, stage, done>>

Columns == Classes \union {OtherErrors}
Unmarked == [c \in Columns |-> {}]

ErrorInit ==
    /\ logs = [j \in FailedJobs |-> NoLog]
    /\ reason \in [FailedJobs -> {"timeout", "script"}]
    /\ columns = Unmarked /\ stage = "get-logs" /\ done = 0

-----------------------------------------------------------------------------
(* get-logs, JobLogScraper.scrape: a log that is empty or is answered with *)
(* an error is replaced by a line the taxonomy knows; a row with a bad     *)
(* link is skipped.                                                        *)
ScrapeLog(j) ==
    /\ stage = "get-logs" /\ logs[j] = NoLog
    /\ \E matches \in (SUBSET (Classes \ {Missing})) \union {{Missing}} :
          logs' = [logs EXCEPT ![j] = matches]
    /\ UNCHANGED <<reason, columns, stage, done>>

(* The command ends, or is stopped.  classify refuses to start while a     *)
(* job of the CSV has no log: the user runs get-logs again.                *)
StartClassify ==
    /\ stage = "get-logs" /\ \A j \in FailedJobs : logs[j] # NoLog
    /\ stage' = "classify" /\ done' = 0
    /\ UNCHANGED <<logs, reason, columns>>

(* One column of the data frame: the jobs whose log one of the patterns    *)
(* of the class matches; "other" is the last one, and a function of the    *)
(* others.  With --no-deconflict the table is saved as it then is.         *)
Grepped(c)  == {j \in FailedJobs : c \in logs[j]}
OtherJobs   == {j \in FailedJobs : \A c \in Classes : j \notin columns[c]}

ClassifyColumn ==
    /\ stage = "classify"
    /\ IF done < Len(Taxonomy)
       THEN LET c == Taxonomy[done + 1]
            IN  columns' = [columns EXCEPT ![c] = Grepped(c)] /\ done' = done + 1 /\ UNCHANGED stage
       ELSE columns' = [columns EXCEPT ![OtherErrors] = OtherJobs] /\ done' = 0
            /\ stage' \in {"deconflict", "classified"}
    /\ UNCHANGED <<logs, reason>>

(* _deconflict: a marked job loses its other marks.                        *)
Prefer(cols, c) ==
    [d \in Columns |-> IF d = c THEN cols[d] ELSE cols[d] \ cols[c]]

PreferredListed(k) == Taxonomy[k]   \* faulty variant: in the order of the taxonomy
PreferredClass(k)  == DeconflictOrder[k]

DeconflictColumn ==
    /\ stage = "deconflict"
    /\ IF done < Len(DeconflictOrder)
       THEN columns' = Prefer(columns, PreferredClass(done + 1)) /\ done' = done + 1 /\ UNCHANGED stage
       ELSE columns' = Prefer(columns, OtherErrors) /\ done' = 0 /\ stage' = "saved"
    /\ UNCHANGED <<logs, reason>>

(* The annotated CSV, deconflicted or not, can be given to deconflict, or  *)
(* the classes be found again from the logs.                               *)
Annotated == stage \in {"classified", "saved"}

DeconflictTable ==
    /\ Annotated /\ stage' = "deconflict"
    /\ UNCHANGED <<logs, reason, columns, done>>

ClassifyAgain ==
    /\ Annotated /\ stage' = "classify" /\ columns' = Unmarked
    /\ UNCHANGED <<logs, reason, done>>

ErrorNext ==
    \/ \E j \in FailedJobs : ScrapeLog(j)
    \/ StartClassify \/ ClassifyColumn \/ DeconflictColumn \/ DeconflictTable \/ ClassifyAgain

ErrorSpec == ErrorInit /\ [][ErrorNext]_errorVars

-----------------------------------------------------------------------------
(* The first class of an order among those that match.                     *)
FirstIn(order, matching) ==
    order[CHOOSE k \in DOMAIN order :
             order[k] \in matching /\ \A l \in 1 .. k - 1 : order[l] \notin matching]

(* _assign_error_taxonomy: the class of highest preference that matches,   *)
(* or what GitLab says of a job that none matches.                         *)
AssignErrorTaxonomy(matching, why) ==
    IF matching # {} THEN FirstIn(ProcessorOrder, matching)
    ELSE IF why = "timeout" THEN why ELSE OtherErrors

Marks(j) == {c \in Columns : j \in columns[c]}

Before(order, c, d) == \E k, l \in DOMAIN order : k < l /\ order[k] = c /\ order[l] = d
RankedAlike(matching) ==
    \A c, d \in matching : Before(DeconflictOrder, c, d) => Before(ProcessorOrder, c, d)

(* However often a table was classified, saved with several marks and      *)
(* deconflicted: in one that deconflict saved, every job has exactly the   *)
(* class of its log that the script's own order prefers.  It is the class  *)
(* the job processor records of the same matches when both programs know   *)
(* them and rank them alike, which they do not for oom and build_error.    *)
ClassedAlike ==
    stage = "saved" =>
        \A j \in FailedJobs :
            IF logs[j] = {} THEN Marks(j) = {OtherErrors}
            ELSE /\ Marks(j) = {FirstIn(DeconflictOrder, logs[j])}
                 /\ logs[j] \subseteq ProcessorClasses /\ RankedAlike(logs[j]) =>
                       Marks(j) = {AssignErrorTaxonomy(logs[j], reason[j])}
=============================================================================
