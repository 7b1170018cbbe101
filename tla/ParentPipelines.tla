-------------------------- MODULE ParentPipelines --------------------------
(***************************************************************************)
(* analytics/core/management/commands/update_parent_pipelines.py: rows of  *)
(* GitlabJobDataDimension made before the column parent_pipeline_id was    *)
(* added get the pipeline that triggered theirs, in batches, and rows of   *)
(* pipelines that nothing triggered get their own.  The job processor adds *)
(* rows meanwhile; an operator can stop the command and start it again.    *)
(***************************************************************************)
EXTENDS Integers, Sequences, FiniteSets

CONSTANTS
    PipelineIds,    \* ids of GitLab pipelines
    Tags,           \* what tells the rows of one pipeline apart
    BatchSize,      \* QUERY_BATCH_SIZE
    MaxStops        \* bound: commands that are stopped

ASSUME ParentAssumption ==
    /\ PipelineIds \subseteq Nat \ {0} /\ IsFiniteSet(PipelineIds)
    /\ BatchSize \in Nat \ {0} /\ MaxStops \in Nat

NoParent == 0       \* NULL

VARIABLES
    source,         \* source[p]: the pipeline that triggered p in GitLab, or NoParent
    rows,           \* the rows: [pipeline, tag, parent]
    stops,
    phase,          \* the command: "idle", "batches" or "roots"
    queue           \* pipelines it has listed and not yet looked up

parentVars == <<source, rows, stops, phase, queue>>

ParentRows == [pipeline : PipelineIds, tag : Tags, parent : PipelineIds \union {NoParent}]

(* Rows from before the migration have no parent; a child is newer.        *)
ParentInit ==
    /\ source \in [PipelineIds -> PipelineIds \union {NoParent}]
    /\ \A p \in PipelineIds : source[p] < p
    /\ \E old \in SUBSET (PipelineIds \X Tags) :
          rows = {[pipeline |-> r[1], tag |-> r[2], parent |-> NoParent] : r \in old}
    /\ stops = 0 /\ phase = "idle" /\ queue = {}

ParentOf(p) == IF source[p] = NoParent THEN p ELSE source[p]

-----------------------------------------------------------------------------
(* create_gitlab_job_data_dimension: the web hook names the pipeline that  *)
(* triggered the job's; the row is looked up with its parent, so one       *)
(* without stays beside it.                                                *)
JobArrives(p, tag) ==
    /\ rows' = rows \union {[pipeline |-> p, tag |-> tag, parent |-> ParentOf(p)]}
    /\ UNCHANGED <<source, stops, phase, queue>>

-----------------------------------------------------------------------------
Orphans == {r \in rows : r.parent = NoParent}

ListOrphans ==
    /\ phase = "idle" /\ Orphans # {}
    /\ phase' = "batches" /\ queue' = {r.pipeline : r \in Orphans}
    /\ UNCHANGED <<source, rows, stops>>

(* Two rows with the same values are refused by the database.              *)
SetParent(changed, parents) ==
    {[r EXCEPT !.parent = parents[r.pipeline]] : r \in changed}
Distinct(changed, parents) ==
    SetParent(changed, parents) \intersect (rows \ changed) = {}

(* One batch: all rows of its triggered pipelines are updated in one       *)
(* transaction, those that have a parent included.                         *)
Triggered(batch) == {p \in batch : source[p] # NoParent}
InBatch(batch)   == {r \in rows : r.pipeline \in Triggered(batch)}
NotUnique(batch) ==
    \E r \in InBatch(batch), s \in InBatch(batch) : r # s /\ r.pipeline = s.pipeline /\ r.tag = s.tag

(* A batch without a triggered pipeline is skipped.                        *)
AfterBatchStop(batch) == IF Triggered(batch) = {} THEN {} ELSE queue \ batch   \* faulty variant
AfterBatch(batch) == queue \ batch

UpdateBatch(batch) ==
    /\ phase = "batches" /\ batch # {} /\ batch \subseteq queue
    /\ Cardinality(batch) <= BatchSize
    /\ Cardinality(batch) < BatchSize => batch = queue
    /\ ~NotUnique(batch)
    /\ rows' = (rows \ InBatch(batch)) \union SetParent(InBatch(batch), source)
    /\ queue' = AfterBatch(batch)
    /\ UNCHANGED <<source, stops, phase>>

LastBatchDone ==
    /\ phase = "batches" /\ queue = {} /\ phase' = "roots"
    /\ UNCHANGED <<source, rows, stops, queue>>

(* All other rows: one statement of the database.                          *)
Own == [p \in PipelineIds |-> p]

UpdateRoots ==
    /\ phase = "roots" /\ Distinct(Orphans, Own)
    /\ rows' = (rows \ Orphans) \union SetParent(Orphans, Own)
    /\ phase' = "idle"
    /\ UNCHANGED <<source, stops, queue>>

(* The unique constraint, or the operator, ends the command.               *)
ParentsRefused ==
    /\ \/ phase = "roots" /\ ~Distinct(Orphans, Own)
       \/ phase = "batches" /\ \E p \in queue : NotUnique({p})
    /\ phase' = "idle" /\ queue' = {}
    /\ UNCHANGED <<source, rows, stops>>

ParentsStopped ==
    /\ phase # "idle" /\ stops < MaxStops
    /\ stops' = stops + 1 /\ phase' = "idle" /\ queue' = {}
    /\ UNCHANGED <<source, rows>>

ParentCommand ==
    \/ ListOrphans \/ LastBatchDone \/ UpdateRoots \/ ParentsRefused \/ ParentsStopped
    \/ \E batch \in SUBSET PipelineIds : UpdateBatch(batch)

ParentNext == ParentCommand \/ \E p \in PipelineIds, tag \in Tags : JobArrives(p, tag)

ParentSpec == ParentInit /\ [][ParentNext]_parentVars

-----------------------------------------------------------------------------
(* However often the command is stopped or refused and started again, and  *)
(* whatever jobs arrive: a parent that was set is the right one.  Only     *)
(* because every batch comes before the roots does no triggered pipeline   *)
(* become its own parent.                                                  *)
ParentsRight == \A r \in rows : r.parent \in {NoParent, ParentOf(r.pipeline)}
=============================================================================
