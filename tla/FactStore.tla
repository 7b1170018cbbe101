------------------------------ MODULE FactStore ------------------------------
(***************************************************************************)
(* What the analytics job processor promises of the database it fills.  A  *)
(* job is recorded once, together with the rows its fact refers to; the    *)
(* spec of a successful build is recorded in full.  Timings are recorded   *)
(* for successful builds only, after the job's fact and only of specs that *)
(* have a row; of the specs of the build none is missed but those that     *)
(* name no compiler, which get no row from their timings.  Nothing is ever *)
(* taken back.                                                             *)
(***************************************************************************)
EXTENDS Sequences

CONSTANTS Jobs,     \* ids of finished GitLab jobs
          Outcome,  \* Outcome[j]: "success" or "failed"
          Specs,    \* Specs[j]: hashes of the specs of a build, its own first
          NoCompiler,  \* hashes of the specs that name no compiler
          Timings   \* Timings[j]: hashes of the specs that were timed

VARIABLES facts,    \* jobs with a fact
          timers,   \* the timing facts: job and hash
          known,    \* hashes of the specs that have a row
          complete  \* hashes of the specs whose row lacks no field

vars == <<facts, timers, known, complete>>

SpecsOf(j) == {Specs[j][i] : i \in DOMAIN Specs[j]}
Built(j)   == IF Specs[j] = <<>> THEN {} ELSE {Specs[j][1]}

Init == facts = {} /\ timers = {} /\ known = {} /\ complete = {}

(* The hashes of a job get their rows; some rows lack fields.              *)
Describe(hashes) ==
    /\ known' = known \union hashes
    /\ \E filled \in SUBSET hashes : complete' = complete \union filled

RecordJob(j) ==
    /\ j \notin facts
    /\ facts' = facts \union {j}
    /\ Describe(Built(j))
    /\ Outcome[j] = "success" => Built(j) \subseteq complete'
    /\ UNCHANGED timers

(* A job that is processed again can tell more of its spec.                *)
CompleteSpec(j) ==
    /\ j \in facts
    /\ complete' = complete \union Built(j)
    /\ UNCHANGED <<facts, timers, known>>

RecordTimers(j) ==
    /\ j \in facts /\ Outcome[j] = "success" /\ Specs[j] # <<>>
    /\ Describe(SpecsOf(j) \ NoCompiler)
    /\ \E timed \in SUBSET (Timings[j] \intersect known') :
         /\ Timings[j] \intersect (Built(j) \union (SpecsOf(j) \ NoCompiler)) \subseteq timed
         /\ timers' = timers \union ({j} \X timed)
    /\ UNCHANGED facts

Next == \E j \in Jobs : RecordJob(j) \/ CompleteSpec(j) \/ RecordTimers(j)

Spec == Init /\ [][Next]_vars
=============================================================================
