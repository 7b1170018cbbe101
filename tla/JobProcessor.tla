---------------------------- MODULE JobProcessor ----------------------------
(***************************************************************************)
(* analytics/job_processor: Celery workers turn the webhook of a finished  *)
(* GitLab job into rows of a PostgreSQL database, and the command          *)
(* backfill_jobs does the same for jobs that have none.  process_job runs  *)
(* two transactions: one for the job's fact and the dimension rows it      *)
(* refers to, one for the timings of a successful build.                   *)
(*                                                                         *)
(* The database is read committed.  An INSERT waits while another          *)
(* transaction holds an uncommitted row with the same unique key, and      *)
(* conflicts if the row is committed.                                      *)
(*                                                                         *)
(* Data: dates and times are one table of days; of the dimension tables    *)
(* with a unique constraint that are filled by get_or_create, which        *)
(* recovers from a conflict, nothing is kept; the row of a job's result is *)
(* told apart by its status.  The list of jobs is of those that ended.     *)
(***************************************************************************)
EXTENDS Integers, FiniteSets, FiniteSetsExt, Sequences

CONSTANTS
    Jobs,           \* ids of finished GitLab jobs
    Outcome,        \* Outcome[j]: build_status of the webhook
    Started,        \* the jobs that have a start time
    Day,            \* Day[j]: key of the date (and time) of its start
    Specs,          \* Specs[j]: hashes of its specs, in order of traversal,
                    \* its own first; <<>> if it is not a build
    NoCompiler,     \* hashes of the specs that name no compiler
    Timings,        \* Timings[j]: hashes timed in its install_times.json, less
                    \* the installations of bootstrapped packages
    Workers,        \* Celery workers
    Backfill,       \* the process that runs backfill_jobs
    KnownResults,   \* statuses that had a result row before
    MaxRetries,     \* max_retries of process_job
    MaxDeliveries,  \* bound: MaxDeliveries[j] webhooks for job j
    Faults,         \* kinds of fault that happen: see Fault
    MaxFaults       \* bound: number of faults

Actors   == Workers \union {Backfill}
Outcomes == {"success", "failed"}
Days     == {Day[j] : j \in Jobs}
SpecsOf(j) == {Specs[j][i] : i \in DOMAIN Specs[j]}
Hashes   == UNION {SpecsOf(j) : j \in Jobs}

ASSUME ParametersAssumption ==
    /\ Jobs \subseteq Nat \ {0} /\ IsFiniteSet(Jobs) /\ Started \subseteq Jobs
    /\ Outcome \in [Jobs -> Outcomes] /\ KnownResults \subseteq Outcomes
    /\ Specs \in [Jobs -> Seq(Hashes)] /\ DOMAIN Day = Jobs
    /\ NoCompiler \subseteq Hashes /\ Timings \in [Jobs -> SUBSET Hashes]
    /\ MaxRetries \in Nat /\ MaxDeliveries \in [Jobs -> Nat] /\ MaxFaults \in Nat
ASSUME BackfillAssumption == Backfill \notin Workers

VARIABLES
    db,         \* db[t]: the committed rows of table t
    draft,      \* draft[w]: what the open transaction of w has written
    worker,     \* worker[w]: what w is processing, and where it is
    queue,      \* messages of the Celery broker
    sent,       \* sent[j]: webhooks received for j
    todo,       \* jobs the running backfill has still to process
    faults      \* faults so far

vars == <<db, draft, worker, queue, sent, todo, faults>>

(* "known": specs that have a row; "complete": those of which every field  *)
(* that the spec has is filled.  A row of "results" is named by who        *)
(* inserted it, one of "timers" by the job and the hash of what it timed.  *)
Tables == {"days", "results", "known", "complete", "facts", "timers"}
Rows == [t \in Tables |->
    CASE t = "days" -> Days
      [] t = "results" -> Outcomes \X (Actors \union {"migration"})
      [] t \in {"known", "complete"} -> Hashes
      [] t = "facts" -> Jobs
      [] t = "timers" -> Jobs \X Hashes]
NoRows == [t \in Tables |-> {}]

Messages == [job : Jobs, copy : Nat \ {0}, try : 0 .. MaxRetries]
Steps == {"fetch", "day", "addDay", "result", "addResult", "spec", "addSpec", "fillSpec",
          "fact", "addFact", "commitFact", "artifacts", "addSpecs",
          "addTimers", "commitTimers"}
Tasks == [pc : Steps, job : Jobs, copy : Nat, try : 0 .. MaxRetries, full : BOOLEAN, at : Nat]
Idle == [pc |-> "idle", job |-> 0, copy |-> 0, try |-> 0, full |-> FALSE, at |-> 0]

IsStore(s) == DOMAIN s = Tables /\ \A t \in Tables : s[t] \subseteq Rows[t]
TypeOK ==
    /\ IsStore(db)
    /\ DOMAIN draft = Actors /\ \A w \in Actors : IsStore(draft[w])
    /\ worker \in [Actors -> Tasks \union {Idle}]
    /\ \A w \in Workers : worker[w] # Idle => worker[w].copy # 0
    /\ queue \subseteq Messages /\ DOMAIN sent = Jobs
    /\ \A j \in Jobs : sent[j] \in 0 .. MaxDeliveries[j]
    /\ todo \subseteq Jobs /\ faults \in 0 .. MaxFaults

Init ==
    /\ db = [t \in Tables |-> IF t = "results" THEN KnownResults \X {"migration"} ELSE {}]
    /\ draft = [w \in Actors |-> NoRows]
    /\ worker = [w \in Actors |-> Idle]
    /\ queue = {} /\ sent = [j \in Jobs |-> 0] /\ todo = {} /\ faults = 0

-----------------------------------------------------------------------------
(***************************************************************************)
(* Where tasks come from.                                                  *)
(***************************************************************************)
(* webhook_handler: GitLab may deliver the webhook of a job late, more     *)
(* than once, or not at all.                                               *)
Webhook(j) ==
    /\ sent[j] < MaxDeliveries[j]
    /\ sent' = [sent EXCEPT ![j] = @ + 1]
    /\ queue' = queue \union {[job |-> j, copy |-> sent[j] + 1, try |-> 0]}
    /\ UNCHANGED <<db, draft, worker, todo, faults>>

Start(j, copy, try) ==
    [pc |-> "fetch", job |-> j, copy |-> copy, try |-> try, full |-> FALSE, at |-> 0]
Take(w, m) ==
    /\ w # Backfill /\ worker[w] = Idle /\ m \in queue
    /\ worker' = [worker EXCEPT ![w] = Start(m.job, m.copy, m.try)]
    /\ queue' = queue \ {m}
    /\ UNCHANGED <<db, draft, sent, todo, faults>>

(* backfill_jobs lists the finished jobs that have no fact...              *)
UnrecordedSilent == {j \in Jobs \ db.facts : sent[j] = 0}   \* faulty variant
Unrecorded == Jobs \ db.facts
StartBackfill ==
    /\ worker[Backfill] = Idle /\ todo = {}
    /\ todo' = Unrecorded
    /\ UNCHANGED <<db, draft, worker, queue, sent, faults>>

(* ...and calls process_job for each, in the order of their ids.           *)
NextBackfill ==
    /\ worker[Backfill] = Idle /\ todo # {}
    /\ LET j == Min(todo) IN
         /\ worker' = [worker EXCEPT ![Backfill] = Start(j, 0, 0)]
         /\ todo' = todo \ {j}
    /\ UNCHANGED <<db, draft, queue, sent, faults>>

-----------------------------------------------------------------------------
(***************************************************************************)
(* How a task ends.                                                        *)
(***************************************************************************)
At(w, pc) == worker[w].pc = pc
Goto(w, pc) ==
    /\ worker' = [worker EXCEPT ![w].pc = pc]
    /\ UNCHANGED <<queue, sent, todo, faults>>

Rollback(w) == draft' = [draft EXCEPT ![w] = NoRows] /\ UNCHANGED db
Commit(w) ==
    /\ db' = [t \in Tables |-> db[t] \union draft[w][t]]
    /\ draft' = [draft EXCEPT ![w] = NoRows]

(* An exception ends a task for good, and with it a whole backfill.        *)
Quit(w) ==
    /\ worker' = [worker EXCEPT ![w] = Idle]
    /\ todo' = IF w = Backfill THEN {} ELSE todo
    /\ UNCHANGED queue
Fail(w) == Quit(w) /\ Rollback(w) /\ UNCHANGED sent

(* The task is queued again; what was called directly cannot be.           *)
Requeue(w, try) ==
    /\ worker' = [worker EXCEPT ![w] = Idle]
    /\ queue' = queue \union {[job |-> worker[w].job, copy |-> worker[w].copy, try |-> try]}
    /\ UNCHANGED todo
RetriableAny(w) == worker[w].try < MaxRetries   \* faulty variant
Retriable(w) == w # Backfill /\ worker[w].try < MaxRetries

Fault(kind) == kind \in Faults /\ faults < MaxFaults /\ faults' = faults + 1

(* GitLab or Prometheus cannot be reached: when the job is fetched, when   *)
(* its runner is looked up, when its artifacts are downloaded.             *)
RequestFails(w) ==
    /\ worker[w].pc \in {"fetch", "spec", "artifacts"}
    /\ Fault("request")
    /\ IF Retriable(w) THEN Requeue(w, worker[w].try + 1) ELSE Quit(w)
    /\ Rollback(w) /\ UNCHANGED sent

(* Any other exception: they answer with an error.                         *)
TaskFails(w) ==
    /\ worker[w].pc \in {"fetch", "spec", "artifacts"}
    /\ Fault("error") /\ Fail(w)

(* A worker process dies: its message counts as acknowledged.              *)
ProcessLost(w) ==
    /\ worker[w] # Idle
    /\ Fault("process") /\ Fail(w)

(* A whole pod dies: the broker delivers its message again.                *)
PodLost(w) ==
    /\ w # Backfill /\ worker[w] # Idle
    /\ Fault("pod") /\ Requeue(w, worker[w].try) /\ Rollback(w) /\ UNCHANGED sent

-----------------------------------------------------------------------------
(***************************************************************************)
(* Reading and inserting rows.                                             *)
(***************************************************************************)
Job(w)  == worker[w].job
Hash(w) == Specs[Job(w)][1]
Sees(w, t) == db[t] \union draft[w][t]

(* The unique key w is about to insert, or the row it is about to update.  *)
TableOf(w) ==
    CASE At(w, "addDay")   -> "days"
      [] At(w, "fillSpec") -> "complete"
      [] At(w, "addFact")  -> "facts"
      [] OTHER             -> "known"
KeyOf(w) ==
    CASE At(w, "addDay")   -> Day[Job(w)]
      [] At(w, "addFact")  -> Job(w)
      [] At(w, "addSpecs") -> Specs[Job(w)][worker[w].at]
      [] OTHER             -> Hash(w)
Writing(w) ==
    \/ worker[w].pc \in {"addDay", "addSpec", "fillSpec", "addFact"}
    \/ At(w, "addSpecs") /\ KeyOf(w) \notin NoCompiler
WaitsFor(w, v) == v # w /\ Writing(w) /\ KeyOf(w) \in draft[v][TableOf(w)]
Free(w) == \A v \in Actors : ~WaitsFor(w, v)
Exists(w) == KeyOf(w) \in db[TableOf(w)]

Insert(w) ==
    /\ Free(w)
    /\ draft' = [draft EXCEPT ![w][TableOf(w)] = @ \union {KeyOf(w)}]
    /\ UNCHANGED db

(* The transaction fails on a conflict: ensure_exists, the spec and the    *)
(* fact are inserted after a check, by a plain INSERT.                     *)
Conflict(w) ==
    /\ worker[w].pc \in {"addDay", "addSpec", "addFact"}
    /\ Free(w) /\ Exists(w)
    /\ Fail(w) /\ UNCHANGED faults

(* PostgreSQL ends one of the transactions that wait for each other.       *)
Deadlocked(w) ==
    \E cycle \in SUBSET Actors :
        /\ w \in cycle
        /\ \A v \in cycle : /\ \E u \in cycle : WaitsFor(v, u)
                            /\ \E u \in cycle : WaitsFor(u, v)
EndDeadlock(w) == Deadlocked(w) /\ Fail(w) /\ UNCHANGED faults

-----------------------------------------------------------------------------
(***************************************************************************)
(* create_job_fact, in the first transaction.                              *)
(***************************************************************************)
(* A job that never started is skipped.                                    *)
Skip(w) ==
    /\ At(w, "fetch") /\ Job(w) \notin Started
    /\ worker' = [worker EXCEPT ![w] = Idle]
    /\ UNCHANGED <<db, draft, queue, sent, todo, faults>>

(* retrieve_job_info: of a failed build only the name and hash may be      *)
(* found.                                                                  *)
Fetch(w) ==
    /\ At(w, "fetch") /\ Job(w) \in Started
    /\ \E full \in BOOLEAN :
        /\ Outcome[Job(w)] = "success" => full
        /\ worker' = [worker EXCEPT ![w].pc = "day", ![w].full = full]
    /\ UNCHANGED <<db, draft, queue, sent, todo, faults>>

(* ensure_exists of the two dimensions of date and time.                   *)
FindDay(w) ==
    /\ At(w, "day")
    /\ Goto(w, IF Day[Job(w)] \in Sees(w, "days") THEN "result" ELSE "addDay")
    /\ UNCHANGED <<db, draft>>
AddDay(w) == At(w, "addDay") /\ ~Exists(w) /\ Insert(w) /\ Goto(w, "result")

(* create_job_result_dimension: get_or_create on a table without a unique  *)
(* constraint.  It raises if two rows match.                               *)
ResultRows(w) == {r \in Sees(w, "results") : r[1] = Outcome[Job(w)]}
FindResult(w) ==
    /\ At(w, "result") /\ Cardinality(ResultRows(w)) <= 1
    /\ Goto(w, IF ResultRows(w) = {} THEN "addResult" ELSE "spec")
    /\ UNCHANGED <<db, draft>>
AmbiguousResult(w) ==
    /\ At(w, "result") /\ Cardinality(ResultRows(w)) > 1
    /\ Fail(w) /\ UNCHANGED faults
AddResult(w) ==
    /\ At(w, "addResult")
    /\ draft' = [draft EXCEPT ![w].results = @ \union {<<Outcome[Job(w)], w>>}]
    /\ Goto(w, "spec")
    /\ UNCHANGED db

(* A faulty variant, which leaves an existing row as it is.                *)
FindSpecOnly(w) ==
    /\ At(w, "spec")
    /\ Goto(w, IF Specs[Job(w)] # <<>> /\ Hash(w) \notin Sees(w, "known")
               THEN "addSpec" ELSE "fact")
    /\ UNCHANGED <<db, draft>>
(* create_package_spec_dimension.                                          *)
FindSpec(w) ==
    /\ At(w, "spec")
    /\ Goto(w, IF Specs[Job(w)] = <<>> THEN "fact"
               ELSE IF Hash(w) \notin Sees(w, "known") THEN "addSpec"
               ELSE IF worker[w].full /\ Hash(w) \notin Sees(w, "complete") THEN "fillSpec"
               ELSE "fact")
    /\ UNCHANGED <<db, draft>>
AddSpec(w) ==
    /\ At(w, "addSpec") /\ ~Exists(w) /\ Free(w)
    /\ draft' = [draft EXCEPT
          ![w].known = @ \union {Hash(w)},
          ![w].complete = IF worker[w].full THEN @ \union {Hash(w)} ELSE @]
    /\ Goto(w, "fact")
    /\ UNCHANGED db
FillSpec(w) == At(w, "fillSpec") /\ Insert(w) /\ Goto(w, "fact")

(* The fact is created unless there is one.                                *)
FindFact(w) ==
    /\ At(w, "fact")
    /\ Goto(w, IF Job(w) \in Sees(w, "facts") THEN "commitFact" ELSE "addFact")
    /\ UNCHANGED <<db, draft>>
AddFact(w) == At(w, "addFact") /\ ~Exists(w) /\ Insert(w) /\ Goto(w, "commitFact")

HasTimers(w) == Outcome[Job(w)] = "success" /\ Specs[Job(w)] # <<>>
CommitFact(w) ==
    /\ At(w, "commitFact")
    /\ Commit(w)
    /\ worker' = [worker EXCEPT ![w] =
          IF HasTimers(w) THEN [@ EXCEPT !.pc = "artifacts", !.at = 1] ELSE Idle]
    /\ UNCHANGED <<queue, sent, todo, faults>>

-----------------------------------------------------------------------------
(***************************************************************************)
(* create_build_timing_facts, in the second transaction.                   *)
(***************************************************************************)
(* install_times.json is there or not.                                     *)
FindTimings(w) ==
    /\ At(w, "artifacts")
    /\ worker' = [worker EXCEPT ![w] = Idle] \/ worker' = [worker EXCEPT ![w].pc = "addSpecs"]
    /\ UNCHANGED <<db, draft, queue, sent, todo, faults>>

(* create_packages_and_specs: bulk_create with ignore_conflicts, row by    *)
(* row, of the specs that name a compiler.                                 *)
AddSpecs(w) ==
    /\ At(w, "addSpecs") /\ Free(w)
    /\ draft' = IF KeyOf(w) \in NoCompiler \/ Exists(w) THEN draft
                ELSE [draft EXCEPT ![w].known = @ \union {KeyOf(w)},
                                   ![w].complete = @ \union {KeyOf(w)}]
    /\ worker' = IF worker[w].at < Len(Specs[Job(w)])
                 THEN [worker EXCEPT ![w].at = @ + 1]
                 ELSE [worker EXCEPT ![w].pc = "addTimers"]
    /\ UNCHANGED <<db, queue, sent, todo, faults>>

(* The timings of every spec that has a row by now go the same way; those  *)
(* of the others are dropped.  They wait for another task of the same job. *)
(* The rows are read where they are used: a spec that another task commits *)
(* in between would be dropped too, as FactStore allows.                   *)
TimersOf(w, v) == {r \in draft[v].timers : r[1] = Job(w)}
AddTimers(w) ==
    /\ At(w, "addTimers")
    /\ \A v \in Actors \ {w} : TimersOf(w, v) = {}
    /\ draft' = [draft EXCEPT ![w].timers =
                    {Job(w)} \X (Timings[Job(w)] \intersect Sees(w, "known"))]
    /\ Goto(w, "commitTimers")
    /\ UNCHANGED db

CommitTimers(w) ==
    /\ At(w, "commitTimers")
    /\ Commit(w)
    /\ worker' = [worker EXCEPT ![w] = Idle]
    /\ UNCHANGED <<queue, sent, todo, faults>>

-----------------------------------------------------------------------------
RecordFact(w) ==
    \/ Skip(w) \/ Fetch(w) \/ FindDay(w) \/ AddDay(w)
    \/ FindResult(w) \/ AmbiguousResult(w) \/ AddResult(w)
    \/ FindSpec(w) \/ AddSpec(w) \/ FillSpec(w)
    \/ FindFact(w) \/ AddFact(w) \/ CommitFact(w)
RecordTimings(w) == FindTimings(w) \/ AddSpecs(w) \/ AddTimers(w) \/ CommitTimers(w)
Process(w) ==
    RecordFact(w) \/ RecordTimings(w) \/ Conflict(w) \/ EndDeadlock(w)
FaultNext(w) == RequestFails(w) \/ TaskFails(w) \/ ProcessLost(w) \/ PodLost(w)
BackfillNext == StartBackfill \/ NextBackfill

Next ==
    \/ \E j \in Jobs : Webhook(j)
    \/ \E w \in Workers, m \in queue : Take(w, m)
    \/ BackfillNext
    \/ \E w \in Actors : Process(w) \/ FaultNext(w)

Spec == Init /\ [][Next]_vars

(* Tasks go on, and backfill_jobs is run again and again.  Nothing is      *)
(* assumed of webhooks or of idle workers.                                 *)
BackfillSpec == Spec /\ WF_vars(BackfillNext) /\ \A w \in Actors : WF_vars(Process(w))

-----------------------------------------------------------------------------
(***************************************************************************)
(* Properties.                                                             *)
(***************************************************************************)
(* Whatever tasks do at the same time, and wherever they stop, the         *)
(* database only ever gets whole facts, and of each timed installation     *)
(* whose spec is known the timing: see FactStore.                          *)
Store == INSTANCE FactStore WITH facts <- db.facts, timers <- db.timers,
                                 known <- db.known, complete <- db.complete
ImplementsFactStore == Store!Spec

(* With backfill_jobs run again and again every job that started gets a    *)
(* fact, with or without a webhook: its result must have a row to begin    *)
(* with, or two rows may come up, and so must the results of the jobs      *)
(* before it, or one that fails ends each backfill before it is reached.   *)
StartedIsRecorded ==
    \A j \in Started :
        (\A i \in Started : i <= j => Outcome[i] \in KnownResults) => <>(j \in db.facts)
=============================================================================
