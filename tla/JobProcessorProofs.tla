------------------------- MODULE JobProcessorProofs -------------------------
(***************************************************************************)
(* Proofs about JobProcessor, for any set of jobs, any number of workers   *)
(* and any bounds: type correctness, and that it implements FactStore.     *)
(***************************************************************************)
EXTENDS JobProcessor, WellFoundedInduction, TLAPS

(***************************************************************************)
(* Lemmas about the operators.                                             *)
(***************************************************************************)
(* The backfill takes a job that is on its list.                           *)
LEMMA MinIsMember ==
    ASSUME NEW S, S \subseteq Nat, S # {}
    PROVE  Min(S) \in S
<1>1. PICK x \in S : \A y \in S : ~(<<y, x>> \in OpToRel(<, Nat))
  BY NatLessThanWellFounded, WFMin
<1>2. \A y \in S : ~(y < x)
  BY <1>1 DEF OpToRel
<1>3. \A y \in S : x <= y
  BY <1>2
<1> QED
  BY <1>3 DEF Min

LEMMA HashesOf ==
    ASSUME NEW j \in Jobs
    PROVE  /\ SpecsOf(j) \subseteq Hashes
           /\ Specs[j] # <<>> => Specs[j][1] \in Hashes /\ Len(Specs[j]) >= 1
           /\ Len(Specs[j]) \in Nat
           /\ \A i \in 1 .. Len(Specs[j]) : Specs[j][i] \in SpecsOf(j)
<1>1. Specs[j] \in Seq(Hashes)
  BY ParametersAssumption
<1>2. DOMAIN Specs[j] = 1 .. Len(Specs[j]) /\ Len(Specs[j]) \in Nat
  BY <1>1
<1>3. Specs[j] # <<>> => Len(Specs[j]) >= 1
  BY <1>1, <1>2
<1> QED
  BY <1>1, <1>2, <1>3 DEF SpecsOf

LEMMA BusyIsTask ==
    ASSUME TypeOK, NEW w \in Actors, worker[w].pc \in Steps
    PROVE  worker[w] \in Tasks /\ Job(w) \in Jobs /\ worker[w] # Idle
BY DEF TypeOK, Steps, Idle, Tasks, Job

LEMMA EmptyTyped == IsStore(NoRows)
BY DEF IsStore, NoRows, Tables, Rows

(* The tables of a store, one by one.                                      *)
LEMMA StoreTables ==
    ASSUME NEW s
    PROVE  IsStore(s) <=>
             /\ DOMAIN s = Tables
             /\ s.days \subseteq Days
             /\ s.results \subseteq Outcomes \X (Actors \union {"migration"})
             /\ s.known \subseteq Hashes /\ s.complete \subseteq Hashes
             /\ s.facts \subseteq Jobs /\ s.timers \subseteq Jobs \X Hashes
BY DEF IsStore, Tables, Rows

(***************************************************************************)
(* Type correctness.                                                       *)
(***************************************************************************)
StoresTyped == IsStore(db) /\ DOMAIN draft = Actors /\ \A w \in Actors : IsStore(draft[w])
WorkersTyped ==
    /\ worker \in [Actors -> Tasks \union {Idle}]
    /\ \A w \in Workers : worker[w] # Idle => worker[w].copy # 0

LEMMA RollbackTyped ==
    ASSUME StoresTyped, NEW w \in Actors, Rollback(w)
    PROVE  StoresTyped'
BY EmptyTyped DEF StoresTyped, Rollback, IsStore

LEMMA CommitTyped ==
    ASSUME StoresTyped, NEW w \in Actors, Commit(w)
    PROVE  StoresTyped'
BY EmptyTyped DEF StoresTyped, Commit, IsStore

LEMMA GotoTyped ==
    ASSUME TypeOK, NEW w \in Actors, worker[w].pc \in Steps, NEW pc \in Steps, Goto(w, pc)
    PROVE  WorkersTyped'
<1>1. [worker[w] EXCEPT !.pc = pc] \in Tasks /\ [worker[w] EXCEPT !.pc = pc] # Idle
  BY BusyIsTask DEF Tasks, Idle, Steps
<1>2. [worker[w] EXCEPT !.pc = pc].copy = worker[w].copy
  BY BusyIsTask DEF Tasks
<1> QED
  BY <1>1, <1>2, BusyIsTask DEF Goto, WorkersTyped, TypeOK

LEMMA QuitTyped ==
    ASSUME TypeOK, NEW w \in Actors, Quit(w)
    PROVE  WorkersTyped' /\ queue' \subseteq Messages /\ todo' \subseteq Jobs
BY DEF TypeOK, WorkersTyped, Quit

LEMMA FailTyped ==
    ASSUME TypeOK, NEW w \in Actors, Fail(w), faults' \in 0 .. MaxFaults
    PROVE  TypeOK'
BY QuitTyped, RollbackTyped DEF TypeOK, StoresTyped, WorkersTyped, Fail

LEMMA RequeueTyped ==
    ASSUME TypeOK, NEW w \in Workers, worker[w] # Idle, NEW try \in 0 .. MaxRetries,
           Requeue(w, try)
    PROVE  WorkersTyped' /\ queue' \subseteq Messages /\ todo' \subseteq Jobs
<1>1. worker[w] \in Tasks /\ worker[w].copy # 0
  BY DEF TypeOK, Actors
<1>2. [job |-> worker[w].job, copy |-> worker[w].copy, try |-> try] \in Messages
  BY <1>1 DEF Tasks, Messages
<1> QED
  BY <1>2 DEF TypeOK, WorkersTyped, Requeue, Actors

LEMMA FaultTyped == ASSUME TypeOK, NEW kind, Fault(kind) PROVE faults' \in 0 .. MaxFaults
BY ParametersAssumption DEF TypeOK, Fault

(* One insertion, into the table and with the key w is at.                 *)
LEMMA KeyTyped ==
    ASSUME TypeOK, NEW w \in Actors, Writing(w),
           worker[w].pc \in {"addSpec", "fillSpec"} => Specs[Job(w)] # <<>>,
           At(w, "addSpecs") => worker[w].at \in 1 .. Len(Specs[Job(w)])
    PROVE  TableOf(w) \in Tables /\ KeyOf(w) \in Rows[TableOf(w)]
<1>1. Job(w) \in Jobs
  BY BusyIsTask DEF Writing, Steps, At
<1>2. CASE At(w, "addDay")
  BY <1>1, <1>2 DEF TableOf, KeyOf, Tables, Rows, Days, At
<1>3. CASE At(w, "addFact")
  BY <1>1, <1>3 DEF TableOf, KeyOf, Tables, Rows, At
<1>4. CASE At(w, "addSpec") \/ At(w, "fillSpec")
  BY <1>1, <1>4, HashesOf DEF TableOf, KeyOf, Tables, Rows, At, Hash
<1>5. CASE At(w, "addSpecs")
  BY <1>1, <1>5, HashesOf DEF TableOf, KeyOf, Tables, Rows, At
<1> QED
  BY <1>2, <1>3, <1>4, <1>5 DEF Writing, At

LEMMA InsertTyped ==
    ASSUME StoresTyped, NEW w \in Actors, Insert(w),
           TableOf(w) \in Tables, KeyOf(w) \in Rows[TableOf(w)]
    PROVE  StoresTyped'
BY DEF StoresTyped, IsStore, Insert

(* The invariant about one worker and the table of specs that type         *)
(* correctness needs: what w does next, it has the data for.               *)
Prepared(w) ==
    /\ worker[w].pc \in {"addSpec", "fillSpec"} => Specs[Job(w)] # <<>>
    /\ worker[w].pc = "artifacts" => worker[w].at = 1 /\ Specs[Job(w)] # <<>>
    /\ worker[w].pc = "addSpecs" => worker[w].at \in 1 .. Len(Specs[Job(w)])
AllPrepared == \A w \in Actors : Prepared(w)

LEMMA InitTyped == Init => TypeOK /\ AllPrepared
<1> SUFFICES ASSUME Init PROVE TypeOK /\ AllPrepared
  OBVIOUS
<1>1. IsStore(db) /\ \A w \in Actors : IsStore(draft[w])
  BY EmptyTyped, ParametersAssumption DEF Init, IsStore, Rows, Tables
<1>2. AllPrepared
  BY DEF Init, AllPrepared, Prepared, Idle
<1> QED
  BY <1>1, <1>2, ParametersAssumption DEF Init, TypeOK, Actors

(* Steps that change what a worker does, and not the stores.               *)
LEMMA QueueStepTyped ==
    ASSUME TypeOK, \/ \E j \in Jobs : Webhook(j)
                   \/ \E w \in Workers, m \in queue : Take(w, m)
                   \/ BackfillNext
    PROVE  TypeOK'
<1>1. ASSUME NEW j \in Jobs, Webhook(j) PROVE TypeOK'
  <2>1. [job |-> j, copy |-> sent[j] + 1, try |-> 0] \in Messages
    BY <1>1, ParametersAssumption DEF TypeOK, Messages
  <2>9. MaxDeliveries \in [Jobs -> Nat]
    BY ParametersAssumption
  <2>b. MaxDeliveries[j] \in Nat
    BY <2>9
  <2>2. sent[j] + 1 \in 0 .. MaxDeliveries[j]
    BY <1>1, <2>b DEF TypeOK, Webhook
  <2>3. DOMAIN sent' = Jobs /\ \A i \in Jobs : sent'[i] = IF i = j THEN sent[j] + 1 ELSE sent[i]
    BY <1>1 DEF TypeOK, Webhook
  <2> QED
    BY <1>1, <2>1, <2>2, <2>3 DEF TypeOK, Webhook
<1>2. ASSUME NEW w \in Workers, NEW m \in queue, Take(w, m) PROVE TypeOK'
  <2>1. m \in Messages
    BY DEF TypeOK
  <2>2. Start(m.job, m.copy, m.try) \in Tasks /\ Start(m.job, m.copy, m.try).copy # 0
    BY <2>1 DEF Messages, Tasks, Start, Steps
  <2> QED
    BY <1>2, <2>2 DEF TypeOK, Take, Actors
<1>3. CASE StartBackfill
  BY <1>3 DEF TypeOK, StartBackfill, Unrecorded
<1>4. CASE NextBackfill
  <2>1. Min(todo) \in Jobs
    BY <1>4, MinIsMember, ParametersAssumption DEF NextBackfill, TypeOK
  <2>2. Start(Min(todo), 0, 0) \in Tasks
    BY <2>1, ParametersAssumption DEF Tasks, Start, Steps
  <2> QED
    BY <1>4, <2>2, BackfillAssumption DEF TypeOK, NextBackfill, Actors
<1> QED
  BY <1>1, <1>2, <1>3, <1>4 DEF BackfillNext

LEMMA FaultStepTyped == ASSUME TypeOK, NEW w \in Actors, FaultNext(w) PROVE TypeOK'
<1>1. CASE RequestFails(w)
  <2>1. worker[w] \in Tasks /\ worker[w] # Idle
    BY <1>1, BusyIsTask DEF RequestFails, Steps
  <2>2. WorkersTyped' /\ queue' \subseteq Messages /\ todo' \subseteq Jobs
    <3>1. CASE Retriable(w)
      <4>1. w \in Workers /\ worker[w].try + 1 \in 0 .. MaxRetries
        BY <2>1, <3>1, ParametersAssumption DEF Retriable, Actors, Tasks
      <4> QED
        BY <1>1, <2>1, <3>1, <4>1, RequeueTyped DEF RequestFails
    <3>2. CASE ~Retriable(w)
      BY <1>1, <3>2, QuitTyped DEF RequestFails
    <3> QED
      BY <3>1, <3>2
  <2> QED
    BY <1>1, <2>2, FaultTyped, RollbackTyped DEF RequestFails, TypeOK, StoresTyped, WorkersTyped
<1>2. CASE TaskFails(w)
  BY <1>2, FailTyped, FaultTyped DEF TaskFails
<1>3. CASE ProcessLost(w)
  BY <1>3, FailTyped, FaultTyped DEF ProcessLost
<1>4. CASE PodLost(w)
  <2>1. w \in Workers /\ worker[w].try \in 0 .. MaxRetries
    BY <1>4 DEF PodLost, Actors, TypeOK, Tasks
  <2>2. WorkersTyped' /\ queue' \subseteq Messages /\ todo' \subseteq Jobs
    BY <1>4, <2>1, RequeueTyped DEF PodLost
  <2> QED
    BY <1>4, <2>2, FaultTyped, RollbackTyped DEF PodLost, TypeOK, StoresTyped, WorkersTyped
<1> QED
  BY <1>1, <1>2, <1>3, <1>4 DEF FaultNext

LEMMA ProcessStepTyped ==
    ASSUME TypeOK, AllPrepared, NEW w \in Actors, Process(w)
    PROVE  TypeOK'
<1> USE DEF At
<1>1. ASSUME NEW from \in Steps, NEW to \in Steps, At(w, from), Goto(w, to), StoresTyped'
      PROVE  TypeOK'
  BY <1>1, GotoTyped DEF TypeOK, StoresTyped, WorkersTyped, Goto
<1>2. ASSUME At(w, "addDay") \/ At(w, "addFact") \/ At(w, "fillSpec"), Insert(w)
      PROVE  StoresTyped'
  BY <1>2, KeyTyped, InsertTyped DEF AllPrepared, Prepared, Writing, TypeOK, StoresTyped
<1>3. ASSUME NEW task \in Tasks \union {Idle}, worker[w].pc \in Steps,
             task = Idle \/ task.copy = worker[w].copy,
             worker' = [worker EXCEPT ![w] = task], StoresTyped',
             UNCHANGED <<queue, sent, todo, faults>>
      PROVE  TypeOK'
  BY <1>3, BusyIsTask DEF TypeOK, StoresTyped
<1>4. CASE Skip(w)
  BY <1>3, <1>4 DEF Skip, TypeOK, StoresTyped, Steps
<1>5. CASE Fetch(w)
  <2>1. PICK full \in BOOLEAN :
            worker' = [worker EXCEPT ![w] = [worker[w] EXCEPT !.pc = "day", !.full = full]]
    BY <1>5, worker \in [Actors -> Tasks \union {Idle}] DEF Fetch, TypeOK
  <2>2. [worker[w] EXCEPT !.pc = "day", !.full = full] \in Tasks
    BY <1>5, BusyIsTask DEF Fetch, Tasks, Steps
  <2>3. [worker[w] EXCEPT !.pc = "day", !.full = full].copy = worker[w].copy
    BY <1>5, BusyIsTask DEF Fetch, Tasks, Steps
  <2> QED
    BY <1>3, <1>5, <2>1, <2>2, <2>3 DEF Fetch, TypeOK, StoresTyped, Steps
<1>6. CASE FindDay(w)
  BY <1>1, <1>6 DEF FindDay, TypeOK, StoresTyped, Steps
<1>7. CASE AddDay(w)
  BY <1>1, <1>2, <1>7 DEF AddDay, Steps
<1>8. CASE FindResult(w)
  BY <1>1, <1>8 DEF FindResult, TypeOK, StoresTyped, Steps
<1>9. CASE AmbiguousResult(w)
  BY <1>9, FailTyped DEF AmbiguousResult, TypeOK
<1>10. CASE AddResult(w)
  <2>1. Outcome[Job(w)] \in Outcomes
    BY <1>10, BusyIsTask, ParametersAssumption DEF AddResult, Steps
  <2>2. StoresTyped'
    BY <1>10, <2>1 DEF AddResult, StoresTyped, TypeOK, IsStore, Rows, Tables
  <2> QED
    BY <1>1, <1>10, <2>2 DEF AddResult, Steps
<1>11. CASE FindSpec(w)
  BY <1>1, <1>11 DEF FindSpec, TypeOK, StoresTyped, Steps
<1>12. CASE AddSpec(w)
  <2>1. Hash(w) \in Hashes
    BY <1>12, BusyIsTask, HashesOf DEF AddSpec, AllPrepared, Prepared, Hash, Steps
  <2>2. StoresTyped'
    BY <1>12, <2>1 DEF AddSpec, StoresTyped, TypeOK, IsStore, Rows, Tables
  <2> QED
    BY <1>1, <1>12, <2>2 DEF AddSpec, Steps
<1>13. CASE FillSpec(w)
  BY <1>1, <1>2, <1>13 DEF FillSpec, Steps
<1>14. CASE FindFact(w)
  BY <1>1, <1>14 DEF FindFact, TypeOK, StoresTyped, Steps
<1>15. CASE AddFact(w)
  BY <1>1, <1>2, <1>15 DEF AddFact, Steps
<1>16. CASE CommitFact(w)
  <2>1. StoresTyped'
    BY <1>16, CommitTyped DEF CommitFact, TypeOK, StoresTyped
  <2>2. [worker[w] EXCEPT !.pc = "artifacts", !.at = 1] \in Tasks
    BY <1>16, BusyIsTask DEF CommitFact, Tasks, Steps
  <2>3. [worker[w] EXCEPT !.pc = "artifacts", !.at = 1].copy = worker[w].copy
    BY <1>16, BusyIsTask DEF CommitFact, Tasks, Steps
  <2> QED
    BY <1>3, <1>16, <2>1, <2>2, <2>3 DEF CommitFact, Steps
<1>17. CASE FindTimings(w)
  <2>1. CASE worker' = [worker EXCEPT ![w] = Idle]
    BY <1>3, <1>17, <2>1 DEF FindTimings, TypeOK, StoresTyped, Steps
  <2>2. CASE worker' = [worker EXCEPT ![w].pc = "addSpecs"]
    BY <1>1, <1>17, <2>2 DEF FindTimings, Goto, TypeOK, StoresTyped, Steps
  <2> QED
    BY <1>17, <2>1, <2>2 DEF FindTimings
<1>18. CASE AddSpecs(w)
  <2>1. KeyOf(w) \in Hashes
    <3>1. KeyOf(w) = Specs[Job(w)][worker[w].at]
      BY <1>18 DEF AddSpecs, KeyOf
    <3> QED
      BY <1>18, <3>1, BusyIsTask, HashesOf DEF AddSpecs, AllPrepared, Prepared, Steps
  <2>2. StoresTyped'
    BY <1>18, <2>1 DEF AddSpecs, StoresTyped, TypeOK, IsStore, Rows, Tables
  <2>3. worker[w] \in Tasks
    BY <1>18, BusyIsTask DEF AddSpecs, Steps
  <2>4. CASE worker[w].at < Len(Specs[Job(w)])
    <3>1. worker' = [worker EXCEPT ![w] = [worker[w] EXCEPT !.at = worker[w].at + 1]]
      BY <1>18, <2>4 DEF AddSpecs, TypeOK, Job
    <3>a. worker[w].at + 1 \in Nat
      BY <2>3 DEF Tasks
    <3>b. \A n \in Nat : /\ [worker[w] EXCEPT !.at = n] \in Tasks
                        /\ [worker[w] EXCEPT !.at = n].copy = worker[w].copy
      BY <2>3 DEF Tasks
    <3>2. /\ [worker[w] EXCEPT !.at = worker[w].at + 1] \in Tasks
          /\ [worker[w] EXCEPT !.at = worker[w].at + 1].copy = worker[w].copy
      BY <3>a, <3>b
    <3> QED
      BY <1>3, <1>18, <2>2, <3>1, <3>2 DEF AddSpecs, Steps
  <2>5. CASE ~(worker[w].at < Len(Specs[Job(w)]))
    <3>1. worker' = [worker EXCEPT ![w] = [worker[w] EXCEPT !.pc = "addTimers"]]
      BY <1>18, <2>5 DEF AddSpecs, TypeOK, Job
    <3>2. /\ [worker[w] EXCEPT !.pc = "addTimers"] \in Tasks
          /\ [worker[w] EXCEPT !.pc = "addTimers"].copy = worker[w].copy
      BY <2>3 DEF Tasks, Steps
    <3> QED
      BY <1>3, <1>18, <2>2, <3>1, <3>2 DEF AddSpecs, Steps
  <2> QED
    BY <2>4, <2>5
<1>19. CASE AddTimers(w)
  <2>1. Job(w) \in Jobs /\ Timings[Job(w)] \subseteq Hashes
    BY <1>19, BusyIsTask, ParametersAssumption DEF AddTimers, Steps
  <2>2. {Job(w)} \X (Timings[Job(w)] \intersect Sees(w, "known")) \subseteq Rows["timers"]
    BY <2>1 DEF Rows, Tables
  <2>3. StoresTyped'
    BY <1>19, <2>2 DEF AddTimers, TypeOK, StoresTyped, IsStore, Tables
  <2> QED
    BY <1>1, <1>19, <2>3 DEF AddTimers, Steps
<1>20. CASE CommitTimers(w)
  <2>1. StoresTyped'
    BY <1>20, CommitTyped DEF CommitTimers, TypeOK, StoresTyped
  <2> QED
    BY <1>3, <1>20, <2>1 DEF CommitTimers, Steps
<1>21. CASE Conflict(w) \/ EndDeadlock(w)
  BY <1>21, FailTyped DEF Conflict, EndDeadlock, TypeOK
<1> QED
  BY <1>4, <1>5, <1>6, <1>7, <1>8, <1>9, <1>10, <1>11, <1>12, <1>13, <1>14, <1>15, <1>16,
     <1>17, <1>18, <1>19, <1>20, <1>21 DEF Process, RecordFact, RecordTimings

(***************************************************************************)
(* The inductive invariant.                                                *)
(***************************************************************************)
InFact(w)    == worker[w].pc \in {"fact", "addFact", "commitFact"}
InTimings(w) == worker[w].pc \in {"addSpecs", "addTimers", "commitTimers"}
Own(w) == Store!Built(Job(w))
Named(w) == Store!SpecsOf(Job(w)) \ NoCompiler     \* the specs that name a compiler

(* What the open transaction of w can have written where w is.             *)
Written(w) ==
    /\ ~At(w, "commitTimers") => draft[w].timers = {}
    /\ draft[w].facts \subseteq {Job(w)} /\ (~At(w, "commitFact") => draft[w].facts = {})
    /\ InFact(w) => draft[w].known \subseteq Own(w) /\ draft[w].complete \subseteq Own(w)
    /\ InTimings(w) => draft[w].known \subseteq Named(w) /\ draft[w].complete \subseteq Named(w)
    /\ ~InFact(w) /\ ~InTimings(w) => draft[w].known = {} /\ draft[w].complete = {}

(* What w has seen or written by then.                                     *)
Reached(w) ==
    /\ worker[w].pc \notin {"idle", "fetch"} /\ Outcome[Job(w)] = "success" => worker[w].full
    /\ At(w, "fillSpec") => Hash(w) \in db.known
    /\ InFact(w) => Own(w) \subseteq Sees(w, "known")
    /\ InFact(w) /\ Outcome[Job(w)] = "success" => Own(w) \subseteq Sees(w, "complete")
    /\ At(w, "commitFact") => Job(w) \in Sees(w, "facts")
    /\ At(w, "artifacts") \/ InTimings(w) => Job(w) \in db.facts /\ HasTimers(w)
    /\ At(w, "addSpecs") =>
          \A i \in 1 .. Len(Specs[Job(w)]) :
              i < worker[w].at => Specs[Job(w)][i] \in Sees(w, "known") \union NoCompiler
    /\ At(w, "addTimers") \/ At(w, "commitTimers") => Named(w) \subseteq Sees(w, "known")
    /\ At(w, "commitTimers") =>
          \E timed \in SUBSET (Timings[Job(w)] \intersect Sees(w, "known")) :
              /\ Timings[Job(w)] \intersect (Own(w) \union Named(w)) \subseteq timed
              /\ draft[w].timers = {Job(w)} \X timed

WorkerInv(w) == Prepared(w) /\ Written(w) /\ Reached(w)

(* No two transactions hold the same new row, and none holds a row that    *)
(* was committed.                                                          *)
Exclusive(t) ==
    /\ \A w \in Actors : draft[w][t] \intersect db[t] = {}
    /\ \A v, w \in Actors : v # w => draft[v][t] \intersect draft[w][t] = {}

Described == \A j \in db.facts : Store!Built(j) \subseteq db.known

IInv ==
    /\ TypeOK
    /\ \A w \in Actors : WorkerInv(w)
    /\ Exclusive("known") /\ Exclusive("facts")
    /\ Described

LEMMA InitInvariant == Init => IInv
<1> SUFFICES ASSUME Init PROVE IInv
  OBVIOUS
<1>1. \A w \in Actors : worker[w].pc = "idle" /\ draft[w] = NoRows
  BY DEF Init, Idle
<1>2. \A w \in Actors, t \in Tables : draft[w][t] = {}
  BY <1>1 DEF NoRows
<1>3. \A w \in Actors : WorkerInv(w)
  BY <1>1, <1>2 DEF WorkerInv, Prepared, Written, Reached, InFact, InTimings, At, Tables
<1>4. db.facts = {}
  BY DEF Init, Tables
<1> QED
  BY <1>2, <1>3, <1>4, InitTyped DEF IInv, Exclusive, Described, Tables

(* What a step of w leaves alone, and that rows are only ever added.       *)
Moves(w) ==
    \A v \in Actors : v # w => worker'[v] = worker[v] /\ draft'[v] = draft[v]
Grows ==
    db.known \subseteq db'.known /\ db.complete \subseteq db'.complete /\ db.facts \subseteq db'.facts

(* The invariant about a worker survives the steps of the others.          *)
LEMMA OthersKeepIt ==
    ASSUME IInv, NEW v \in Actors, worker'[v] = worker[v], draft'[v] = draft[v], Grows
    PROVE  WorkerInv(v)'
<1>1. WorkerInv(v)
  BY DEF IInv
<1>2. Prepared(v)'
  BY <1>1 DEF WorkerInv, Prepared, Job
<1>3. Written(v)'
  BY <1>1 DEF WorkerInv, Written, Job, At, InFact, InTimings, Own, Named
<1>4. Reached(v)'
  <2>1. Sees(v, "known") \subseteq Sees(v, "known")' /\ Sees(v, "complete") \subseteq Sees(v, "complete")'
        /\ Sees(v, "facts") \subseteq Sees(v, "facts")'
    BY DEF Sees, Grows
  <2>2. ASSUME At(v, "commitTimers")
        PROVE  \E timed \in SUBSET (Timings[Job(v)] \intersect Sees(v, "known")') :
                   /\ Timings[Job(v)] \intersect (Own(v) \union Named(v)) \subseteq timed
                   /\ draft[v].timers = {Job(v)} \X timed
    BY <1>1, <2>1, <2>2 DEF WorkerInv, Reached
  <2>3. Job(v)' = Job(v) /\ Own(v)' = Own(v) /\ Named(v)' = Named(v) /\ draft'[v].timers = draft[v].timers
    BY DEF Job, Own, Named
  <2> QED
    BY <1>1, <2>1, <2>2, <2>3
    DEF WorkerInv, Reached, Grows, Job, Hash, At, InFact, InTimings, HasTimers
<1> QED
  BY <1>2, <1>3, <1>4 DEF WorkerInv

(* A step that does not commit: what is left to show is about w itself.    *)
LEMMA LocalStep ==
    ASSUME IInv, TypeOK', NEW w \in Actors, Moves(w), UNCHANGED db, WorkerInv(w)',
           \A t \in {"known", "facts"} :
               \/ draft'[w][t] \subseteq draft[w][t]
               \/ \E k : /\ draft'[w][t] = draft[w][t] \union {k}
                         /\ k \notin db[t]
                         /\ \A v \in Actors : v # w => k \notin draft[v][t]
    PROVE  IInv'
<1>1. \A v \in Actors : WorkerInv(v)'
  BY OthersKeepIt DEF Moves, Grows
<1>2. Exclusive("known")'
  BY DEF IInv, Exclusive, Moves
<1>3. Exclusive("facts")'
  BY DEF IInv, Exclusive, Moves
<1>4. Described'
  BY DEF IInv, Described
<1> QED
  BY <1>1, <1>2, <1>3, <1>4 DEF IInv

(* A worker that has given up, or starts: it has written nothing.          *)
LEMMA BlankStep ==
    ASSUME IInv, TypeOK', NEW w \in Actors, Moves(w), UNCHANGED db,
           worker'[w].pc \in {"idle", "fetch"}, draft'[w] = NoRows
    PROVE  IInv'
<1>1. \A t \in Tables : draft'[w][t] = {}
  BY DEF NoRows
<1>2. WorkerInv(w)'
  BY <1>1 DEF WorkerInv, Prepared, Written, Reached, InFact, InTimings, At, Tables
<1> QED
  BY <1>1, <1>2, LocalStep DEF Tables

LEMMA IdleIsBlank ==
    ASSUME IInv, NEW w \in Actors, worker[w].pc \in {"idle", "fetch", "day"}
    PROVE  \A t \in {"known", "complete", "facts", "timers"} : draft[w][t] = {}
BY DEF IInv, WorkerInv, Written, InFact, InTimings, At

LEMMA FailInvariant ==
    ASSUME IInv, TypeOK', NEW w \in Actors, Fail(w)
    PROVE  IInv'
<1>1. Moves(w) /\ UNCHANGED db /\ worker'[w] = Idle /\ draft'[w] = NoRows
  BY DEF IInv, TypeOK, Moves, Fail, Quit, Rollback
<1> QED
  BY <1>1, BlankStep DEF Idle

LEMMA FaultInvariant ==
    ASSUME IInv, TypeOK', NEW w \in Actors, FaultNext(w)
    PROVE  IInv'
<1>1. Moves(w) /\ UNCHANGED db /\ worker'[w] = Idle /\ draft'[w] = NoRows
  BY DEF IInv, TypeOK, Moves, FaultNext, RequestFails, TaskFails, ProcessLost, PodLost,
         Fail, Quit, Requeue, Rollback
<1> QED
  BY <1>1, BlankStep DEF Idle

(* A worker takes a message, or the backfill the next job.                 *)
LEMMA StartInvariant ==
    ASSUME IInv, TypeOK', NEW w \in Actors, worker[w] = Idle, worker'[w].pc = "fetch",
           Moves(w), UNCHANGED <<db, draft>>
    PROVE  IInv'
<1>1. \A t \in {"known", "complete", "facts", "timers"} : draft'[w][t] = {}
  BY IdleIsBlank DEF Idle
<1>2. WorkerInv(w)'
  BY <1>1 DEF WorkerInv, Prepared, Written, Reached, InFact, InTimings, At
<1> QED
  BY <1>1, <1>2, LocalStep

LEMMA QueueInvariant ==
    ASSUME IInv, TypeOK', \/ \E j \in Jobs : Webhook(j)
                          \/ \E w \in Workers, m \in queue : Take(w, m)
                          \/ BackfillNext
    PROVE  IInv'
<1>1. CASE UNCHANGED <<db, draft, worker>>
  <2>1. \A v \in Actors : WorkerInv(v)'
    BY <1>1, OthersKeepIt DEF Grows
  <2> QED
    BY <1>1, <2>1 DEF IInv, Exclusive, Described
<1>2. ASSUME NEW j \in Jobs, Webhook(j) PROVE IInv'
  BY <1>1, <1>2 DEF Webhook
<1>3. ASSUME NEW w \in Workers, NEW m \in queue, Take(w, m) PROVE IInv'
  <2>1. Moves(w) /\ worker'[w].pc = "fetch" /\ w \in Actors
    BY <1>3 DEF Take, Moves, Start, IInv, TypeOK, Actors
  <2> QED
    BY <1>3, <2>1, StartInvariant DEF Take
<1>4. CASE StartBackfill
  BY <1>1, <1>4 DEF StartBackfill
<1>5. CASE NextBackfill
  <2>1. Moves(Backfill) /\ worker'[Backfill].pc = "fetch" /\ Backfill \in Actors
    BY <1>5 DEF NextBackfill, Moves, Start, IInv, TypeOK, Actors
  <2> QED
    BY <1>5, <2>1, StartInvariant DEF NextBackfill
<1> QED
  BY <1>2, <1>3, <1>4, <1>5 DEF BackfillNext

(* Steps that only change where a worker is.                               *)
LEMMA GotoMoves ==
    ASSUME IInv, NEW w \in Actors, NEW from \in Steps, NEW to, At(w, from), Goto(w, to)
    PROVE  /\ \A v \in Actors : v # w => worker'[v] = worker[v]
           /\ worker'[w] = [worker[w] EXCEPT !.pc = to]
           /\ worker'[w].pc = to /\ worker'[w].job = worker[w].job
           /\ worker'[w].full = worker[w].full /\ worker'[w].at = worker[w].at
<1>1. worker[w] \in Tasks
  BY BusyIsTask DEF IInv, At
<1> QED
  BY <1>1 DEF IInv, TypeOK, Goto, Tasks

LEMMA BuiltIs ==
    ASSUME NEW j \in Jobs
    PROVE  /\ Specs[j] = <<>> => Store!Built(j) = {}
           /\ Specs[j] # <<>> => Store!Built(j) = {Specs[j][1]}
           /\ Store!Built(j) \subseteq Store!SpecsOf(j)
           /\ Store!SpecsOf(j) = {Specs[j][i] : i \in 1 .. Len(Specs[j])}
<1>1. DOMAIN Specs[j] = 1 .. Len(Specs[j])
  BY ParametersAssumption
<1> QED
  BY <1>1, HashesOf DEF Store!Built, Store!SpecsOf

LEMMA ReadInvariant ==
    ASSUME IInv, TypeOK', NEW w \in Actors,
           Skip(w) \/ Fetch(w) \/ FindDay(w) \/ FindResult(w) \/ FindSpec(w) \/ FindFact(w)
               \/ FindTimings(w)
    PROVE  IInv'
<1> USE DEF At
<1>1. WorkerInv(w) /\ TypeOK
  BY DEF IInv
<1>2. ASSUME NEW from \in Steps, NEW to \in Steps, At(w, from), Goto(w, to),
             UNCHANGED <<db, draft>>, WorkerInv(w)'
      PROVE  IInv'
  <2>1. Moves(w)
    BY <1>2, GotoMoves DEF Moves
  <2> QED
    BY <1>2, <2>1, LocalStep
<1>3. CASE Skip(w)
  <2>1. Moves(w) /\ worker'[w] = Idle
    BY <1>1, <1>3 DEF Skip, Moves, TypeOK
  <2>2. \A t \in {"known", "complete", "facts", "timers"} : draft'[w][t] = {}
    BY <1>3, IdleIsBlank DEF Skip
  <2>3. WorkerInv(w)'
    BY <2>1, <2>2 DEF WorkerInv, Prepared, Written, Reached, InFact, InTimings, Idle
  <2> QED
    BY <1>3, <2>1, <2>3, LocalStep DEF Skip
<1>4. CASE Fetch(w)
  <2>1. PICK full \in BOOLEAN :
            /\ Outcome[Job(w)] = "success" => full
            /\ worker' = [worker EXCEPT ![w] = [worker[w] EXCEPT !.pc = "day", !.full = full]]
    BY <1>1, <1>4 DEF Fetch, TypeOK
  <2>2. Moves(w) /\ worker'[w].pc = "day" /\ worker'[w].full = full
            /\ worker'[w].job = worker[w].job
    BY <1>1, <1>4, <2>1, BusyIsTask DEF Fetch, Moves, TypeOK, Tasks, Steps
  <2>3. \A t \in {"known", "complete", "facts", "timers"} : draft'[w][t] = {}
    BY <1>4, IdleIsBlank DEF Fetch
  <2>4. WorkerInv(w)'
    BY <2>1, <2>2, <2>3 DEF WorkerInv, Prepared, Written, Reached, InFact, InTimings, Job
  <2> QED
    BY <1>4, <2>2, <2>4, LocalStep DEF Fetch
<1>5. ASSUME NEW from \in {"day", "result"}, NEW to \in {"addDay", "result", "addResult", "spec"},
             At(w, from), Goto(w, to), UNCHANGED <<db, draft>>
      PROVE  WorkerInv(w)'
  <2>1. worker'[w].pc = to /\ worker'[w].job = worker[w].job /\ worker'[w].full = worker[w].full
    BY <1>5, GotoMoves DEF Steps
  <2> QED
    BY <1>1, <1>5, <2>1
    DEF WorkerInv, Prepared, Written, Reached, InFact, InTimings, Job
<1>6. CASE FindDay(w)
  BY <1>2, <1>5, <1>6 DEF FindDay, Steps
<1>7. CASE FindResult(w)
  BY <1>2, <1>5, <1>7 DEF FindResult, Steps
<1>8. CASE FindSpec(w)
  <2>1. PICK to \in {"fact", "addSpec", "fillSpec"} :
            /\ Goto(w, to)
            /\ to = "addSpec" => Specs[Job(w)] # <<>>
            /\ to = "fillSpec" => Specs[Job(w)] # <<>> /\ Hash(w) \in Sees(w, "known")
            /\ to = "fact" /\ Specs[Job(w)] # <<>> =>
                  /\ Hash(w) \in Sees(w, "known")
                  /\ worker[w].full => Hash(w) \in Sees(w, "complete")
    BY <1>8 DEF FindSpec
  <2>2. worker'[w].pc = to /\ worker'[w].job = worker[w].job /\ worker'[w].full = worker[w].full
    BY <1>8, <2>1, GotoMoves DEF FindSpec, Steps
  <2>3. draft[w].known = {} /\ draft[w].complete = {} /\ draft[w].facts = {} /\ draft[w].timers = {}
    BY <1>1, <1>8 DEF FindSpec, WorkerInv, Written, InFact, InTimings
  <2>4. Job(w) \in Jobs
    BY <1>1, <1>8, BusyIsTask DEF FindSpec, Steps
  <2>5. UNCHANGED <<db, draft>> /\ (Outcome[Job(w)] = "success" => worker[w].full)
    BY <1>1, <1>8 DEF FindSpec, WorkerInv, Reached
  <2>6. Own(w) = IF Specs[Job(w)] = <<>> THEN {} ELSE {Hash(w)}
    BY <2>4, BuiltIs DEF Own, Hash
  <2>7. WorkerInv(w)'
    BY <2>1, <2>2, <2>3, <2>5, <2>6
    DEF WorkerInv, Prepared, Written, Reached, InFact, InTimings, Job, Own, Sees, Hash
  <2> QED
    BY <1>2, <1>8, <2>1, <2>7 DEF FindSpec, Steps
<1>9. CASE FindFact(w)
  <2>1. PICK to \in {"addFact", "commitFact"} :
            Goto(w, to) /\ (to = "commitFact" => Job(w) \in Sees(w, "facts"))
    BY <1>9 DEF FindFact
  <2>2. worker'[w].pc = to /\ worker'[w].job = worker[w].job /\ worker'[w].full = worker[w].full
    BY <1>9, <2>1, GotoMoves DEF FindFact, Steps
  <2>3. WorkerInv(w)'
    BY <1>1, <1>9, <2>1, <2>2
    DEF FindFact, WorkerInv, Prepared, Written, Reached, InFact, InTimings, Job, Own, Sees
  <2> QED
    BY <1>2, <1>9, <2>1, <2>3 DEF FindFact, Steps
<1>10. CASE FindTimings(w)
  <2>1. \A t \in {"known", "complete", "facts", "timers"} : draft'[w][t] = {}
    BY <1>1, <1>10 DEF FindTimings, WorkerInv, Written, InFact, InTimings
  <2>2. CASE worker' = [worker EXCEPT ![w] = Idle]
    <3>1. Moves(w) /\ worker'[w] = Idle
      BY <1>1, <1>10, <2>2 DEF FindTimings, Moves, TypeOK
    <3>2. WorkerInv(w)'
      BY <2>1, <3>1 DEF WorkerInv, Prepared, Written, Reached, InFact, InTimings, Idle
    <3> QED
      BY <1>10, <3>1, <3>2, LocalStep DEF FindTimings
  <2>3. CASE worker' = [worker EXCEPT ![w].pc = "addSpecs"]
    <3>1. Goto(w, "addSpecs")
      BY <1>10, <2>3 DEF FindTimings, Goto
    <3>2. /\ worker'[w].pc = "addSpecs" /\ worker'[w].job = worker[w].job
          /\ worker'[w].full = worker[w].full /\ worker'[w].at = 1
      BY <1>1, <1>10, <3>1, GotoMoves DEF FindTimings, Steps, WorkerInv, Prepared
    <3>3. 1 \in 1 .. Len(Specs[Job(w)])
      BY <1>1, <1>10, BusyIsTask, HashesOf DEF FindTimings, Steps, WorkerInv, Prepared
    <3>4. WorkerInv(w)'
      BY <1>1, <1>10, <2>1, <3>2, <3>3, BusyIsTask, HashesOf
      DEF FindTimings, WorkerInv, Prepared, Written, Reached, InFact, InTimings, Job, HasTimers, Steps
    <3> QED
      BY <1>2, <1>10, <3>1, <3>4 DEF FindTimings, Steps
  <2> QED
    BY <1>10, <2>2, <2>3 DEF FindTimings
<1> QED
  BY <1>3, <1>4, <1>6, <1>7, <1>8, <1>9, <1>10

(* Steps that write a row: the key was free and not committed.             *)
LEMMA WriteInvariant ==
    ASSUME IInv, TypeOK', NEW w \in Actors,
           AddDay(w) \/ AddResult(w) \/ AddSpec(w) \/ FillSpec(w) \/ AddFact(w)
    PROVE  IInv'
<1> USE DEF At
<1>1. WorkerInv(w) /\ TypeOK /\ IsStore(draft[w])
  BY DEF IInv, TypeOK
<1>2. PICK from \in {"addDay", "addResult", "addSpec", "fillSpec", "addFact"},
           to \in {"result", "spec", "fact", "commitFact"} :
          /\ At(w, from) /\ Goto(w, to) /\ UNCHANGED db
          /\ \/ from = "addDay" /\ to = "result"   /\ AddDay(w)
             \/ from = "addResult" /\ to = "spec"  /\ AddResult(w)
             \/ from = "addSpec" /\ to = "fact"    /\ AddSpec(w)
             \/ from = "fillSpec" /\ to = "fact"   /\ FillSpec(w)
             \/ from = "addFact" /\ to = "commitFact" /\ AddFact(w)
  BY DEF AddDay, AddResult, AddSpec, FillSpec, AddFact, Insert
<1>3. /\ \A v \in Actors : v # w => worker'[v] = worker[v]
      /\ worker'[w].pc = to /\ worker'[w].job = worker[w].job /\ worker'[w].full = worker[w].full
  BY <1>2, GotoMoves DEF Steps
<1>4. Job(w) \in Jobs
  BY <1>1, <1>2, BusyIsTask DEF Steps
<1>5. DOMAIN draft = Actors /\ DOMAIN draft[w] = Tables
  BY <1>1 DEF TypeOK, IsStore
<1>6. ASSUME NEW t \in Tables, NEW k, draft' = [draft EXCEPT ![w][t] = @ \union {k}]
      PROVE  /\ \A v \in Actors : v # w => draft'[v] = draft[v]
             /\ \A u \in Tables : draft'[w][u] = IF u = t THEN draft[w][u] \union {k}
                                                 ELSE draft[w][u]
  BY <1>5, <1>6
<1>7. CASE AddDay(w) /\ from = "addDay" /\ to = "result"
  <2>1. draft' = [draft EXCEPT ![w]["days"] = @ \union {KeyOf(w)}]
    BY <1>7 DEF AddDay, Insert, TableOf
  <2>2. Moves(w) /\ \A u \in Tables : u # "days" => draft'[w][u] = draft[w][u]
    BY <1>3, <1>6, <2>1 DEF Moves, Tables
  <2>3. WorkerInv(w)'
    BY <1>1, <1>2, <1>3, <1>7, <2>2
    DEF WorkerInv, Prepared, Written, Reached, InFact, InTimings, Job, Tables
  <2> QED
    BY <1>2, <2>2, <2>3, LocalStep DEF Tables
<1>8. CASE AddResult(w) /\ from = "addResult" /\ to = "spec"
  <2>1. draft' = [draft EXCEPT ![w]["results"] = @ \union {<<Outcome[Job(w)], w>>}]
    BY <1>8 DEF AddResult
  <2>2. Moves(w) /\ \A u \in Tables : u # "results" => draft'[w][u] = draft[w][u]
    BY <1>3, <1>6, <2>1 DEF Moves, Tables
  <2>3. WorkerInv(w)'
    BY <1>1, <1>2, <1>3, <1>8, <2>2
    DEF WorkerInv, Prepared, Written, Reached, InFact, InTimings, Job, Tables
  <2> QED
    BY <1>2, <2>2, <2>3, LocalStep DEF Tables
<1>9. CASE AddSpec(w) /\ from = "addSpec" /\ to = "fact"
  <2>1. Own(w) = {Hash(w)}
    BY <1>1, <1>4, <1>9, BuiltIs DEF AddSpec, WorkerInv, Prepared, Own, Hash
  <2>2. /\ draft[w].known = {} /\ draft[w].complete = {} /\ draft[w].facts = {}
        /\ draft[w].timers = {} /\ (Outcome[Job(w)] = "success" => worker[w].full)
    BY <1>1, <1>9 DEF AddSpec, WorkerInv, Written, Reached, InFact, InTimings
  <2>3. /\ \A v \in Actors : v # w => draft'[v] = draft[v]
        /\ draft'[w].known = {Hash(w)} /\ draft'[w].facts = {} /\ draft'[w].timers = {}
        /\ draft'[w].complete = IF worker[w].full THEN {Hash(w)} ELSE {}
    BY <1>5, <1>9, <2>2 DEF AddSpec, Tables
  <2>4. /\ Hash(w) \notin db.known
        /\ \A v \in Actors : v # w => Hash(w) \notin draft[v].known
    BY <1>9 DEF AddSpec, Exists, Free, WaitsFor, Writing, KeyOf, TableOf
  <2>5. Moves(w)
    BY <1>3, <2>3 DEF Moves
  <2>6. WorkerInv(w)'
    BY <1>2, <1>3, <1>9, <2>1, <2>2, <2>3
    DEF WorkerInv, Prepared, Written, Reached, InFact, InTimings, Job, Own, Sees
  <2> QED
    BY <1>2, <2>2, <2>3, <2>4, <2>5, <2>6, LocalStep
<1>10. CASE FillSpec(w) /\ from = "fillSpec" /\ to = "fact"
  <2>1. Own(w) = {Hash(w)}
    BY <1>1, <1>4, <1>10, BuiltIs DEF FillSpec, WorkerInv, Prepared, Own, Hash
  <2>2. /\ draft[w].known = {} /\ draft[w].complete = {} /\ draft[w].facts = {}
        /\ draft[w].timers = {} /\ Hash(w) \in db.known
        /\ (Outcome[Job(w)] = "success" => worker[w].full)
    BY <1>1, <1>10 DEF FillSpec, WorkerInv, Written, Reached, InFact, InTimings
  <2>3. draft' = [draft EXCEPT ![w]["complete"] = @ \union {Hash(w)}]
    BY <1>10 DEF FillSpec, Insert, KeyOf, TableOf
  <2>9. /\ \A v \in Actors : v # w => draft'[v] = draft[v]
        /\ \A u \in Tables : draft'[w][u] = IF u = "complete" THEN draft[w][u] \union {Hash(w)}
                                            ELSE draft[w][u]
    <3>1. "complete" \in Tables
      BY DEF Tables
    <3> QED
      BY ONLY <1>6, <2>3, <3>1
  <2>4. /\ Moves(w) /\ draft'[w].complete = {Hash(w)}
        /\ draft'[w].known = {} /\ draft'[w].facts = {} /\ draft'[w].timers = {}
    BY <1>3, <2>2, <2>9 DEF Moves, Tables
  <2>5. WorkerInv(w)'
    BY <1>2, <1>3, <1>10, <2>1, <2>2, <2>4
    DEF WorkerInv, Prepared, Written, Reached, InFact, InTimings, Job, Own, Sees
  <2> QED
    BY <1>2, <2>2, <2>4, <2>5, LocalStep
<1>11. CASE AddFact(w) /\ from = "addFact" /\ to = "commitFact"
  <2>1. draft' = [draft EXCEPT ![w]["facts"] = @ \union {Job(w)}]
    BY <1>11 DEF AddFact, Insert, KeyOf, TableOf
  <2>9. /\ \A v \in Actors : v # w => draft'[v] = draft[v]
        /\ \A u \in Tables : draft'[w][u] = IF u = "facts" THEN draft[w][u] \union {Job(w)}
                                            ELSE draft[w][u]
    <3>1. "facts" \in Tables
      BY DEF Tables
    <3> QED
      BY ONLY <1>6, <2>1, <3>1
  <2>2. /\ Moves(w) /\ draft'[w].facts = draft[w].facts \union {Job(w)}
        /\ \A u \in Tables : u # "facts" => draft'[w][u] = draft[w][u]
    BY <1>3, <2>9 DEF Moves, Tables
  <2>3. /\ Job(w) \notin db.facts
        /\ \A v \in Actors : v # w => Job(w) \notin draft[v].facts
    BY <1>11 DEF AddFact, Insert, Exists, Free, WaitsFor, Writing, KeyOf, TableOf
  <2>4. WorkerInv(w)'
    BY <1>1, <1>2, <1>3, <1>11, <2>2
    DEF WorkerInv, Prepared, Written, Reached, InFact, InTimings, Job, Own, Sees, Tables
  <2> QED
    BY <1>2, <2>2, <2>3, <2>4, LocalStep DEF Tables
<1> QED
  BY <1>2, <1>7, <1>8, <1>9, <1>10, <1>11

(* One spec of the second transaction.                                     *)
LEMMA AddSpecsInvariant ==
    ASSUME IInv, TypeOK', NEW w \in Actors, AddSpecs(w)
    PROVE  IInv'
<1> DEFINE h == Specs[Job(w)][worker[w].at]
<1>1. WorkerInv(w) /\ TypeOK /\ At(w, "addSpecs") /\ UNCHANGED db
  BY DEF IInv, AddSpecs
<1>2. worker[w] \in Tasks /\ Job(w) \in Jobs
  BY <1>1, BusyIsTask DEF At, Steps
<1>3. KeyOf(w) = h /\ TableOf(w) = "known" /\ (h \notin NoCompiler => Writing(w))
  BY <1>1 DEF KeyOf, TableOf, Writing, At
<1>4. h \in Store!SpecsOf(Job(w)) /\ worker[w].at \in 1 .. Len(Specs[Job(w)])
  BY <1>1, <1>2, BuiltIs DEF WorkerInv, Prepared, At
<1>5. \A v \in Actors : v # w => draft'[v] = draft[v] /\ worker'[v] = worker[v]
  BY <1>1 DEF AddSpecs, TypeOK
<1>6. /\ draft'[w].facts = draft[w].facts /\ draft'[w].timers = draft[w].timers
      /\ h \in db.known \union NoCompiler => draft'[w] = draft[w]
      /\ h \notin db.known \union NoCompiler =>
            /\ draft'[w].known = draft[w].known \union {h}
            /\ draft'[w].complete = draft[w].complete \union {h}
  BY <1>1, <1>3 DEF AddSpecs, Exists, TypeOK, IsStore, Tables
<1>7. h \notin NoCompiler => \A v \in Actors : v # w => h \notin draft[v].known
  BY <1>1, <1>3 DEF AddSpecs, Free, WaitsFor
<1>8. /\ draft[w].known \subseteq draft'[w].known
      /\ h \in db.known \union draft'[w].known \union NoCompiler
      /\ draft'[w].known \subseteq Named(w) /\ draft'[w].complete \subseteq Named(w)
      /\ draft'[w].facts = {} /\ draft'[w].timers = {}
  BY <1>1, <1>4, <1>6 DEF WorkerInv, Written, InTimings, At, Named
<1>9. /\ worker'[w].job = worker[w].job /\ worker'[w].full = worker[w].full
      /\ \/ /\ worker[w].at < Len(Specs[Job(w)]) /\ worker'[w].pc = "addSpecs"
            /\ worker'[w].at = worker[w].at + 1
         \/ ~(worker[w].at < Len(Specs[Job(w)])) /\ worker'[w].pc = "addTimers"
  BY <1>1, <1>2 DEF AddSpecs, TypeOK, Tasks, At
<1>10. \A i \in 1 .. Len(Specs[Job(w)]) :
          i <= worker[w].at => Specs[Job(w)][i] \in db.known \union draft'[w].known \union NoCompiler
  <2> SUFFICES ASSUME NEW i \in 1 .. Len(Specs[Job(w)]), i <= worker[w].at
               PROVE  Specs[Job(w)][i] \in db.known \union draft'[w].known \union NoCompiler
    OBVIOUS
  <2>1. CASE i = worker[w].at
    BY <1>8, <2>1
  <2>2. CASE i < worker[w].at
    BY <1>1, <1>8, <2>2 DEF WorkerInv, Reached, Sees
  <2> QED
    BY <1>4, <2>1, <2>2
<1> HIDE DEF h
<1>11. Job(w)' = Job(w) /\ Own(w)' = Own(w) /\ Named(w)' = Named(w)
  BY <1>9 DEF Job, Own, Named
<1>12. Written(w)'
  BY <1>8, <1>9, <1>11 DEF Written, InFact, InTimings, At
<1>13. Job(w) \in db.facts /\ HasTimers(w) /\ (Outcome[Job(w)] = "success" => worker[w].full)
  BY <1>1 DEF WorkerInv, Reached, InTimings, At
<1>14. CASE worker'[w].pc = "addSpecs" /\ worker'[w].at = worker[w].at + 1
                /\ worker[w].at < Len(Specs[Job(w)])
  <2>1. Prepared(w)'
    BY <1>2, <1>4, <1>9, <1>14, HashesOf DEF Prepared, Job
  <2>2. \A i \in 1 .. Len(Specs[Job(w)]) : i < worker[w].at + 1 => i <= worker[w].at
    BY <1>4
  <2>3. Reached(w)'
    BY <1>1, <1>9, <1>10, <1>13, <1>14, <2>2
    DEF Reached, InFact, InTimings, At, Job, Sees, HasTimers
  <2> QED
    BY <1>1, <1>5, <1>6, <1>7, <1>8, <1>12, <2>1, <2>3, LocalStep DEF WorkerInv, Moves
<1>15. CASE worker'[w].pc = "addTimers" /\ ~(worker[w].at < Len(Specs[Job(w)]))
  <2>1. Prepared(w)'
    BY <1>15 DEF Prepared
  <2>2. Len(Specs[Job(w)]) \in Nat
    BY <1>2, HashesOf
  <2>3. \A i \in 1 .. Len(Specs[Job(w)]) : i <= worker[w].at
    BY <1>4, <1>15, <2>2
  <2>4. Named(w) \subseteq db.known \union draft'[w].known
    BY <1>2, <1>10, <2>3, BuiltIs DEF Named
  <2>5. Reached(w)'
    BY <1>1, <1>9, <1>11, <1>13, <1>15, <2>4
    DEF Reached, InFact, InTimings, At, Job, Sees, HasTimers
  <2> QED
    BY <1>1, <1>5, <1>6, <1>7, <1>8, <1>12, <2>1, <2>5, LocalStep DEF WorkerInv, Moves
<1> QED
  BY <1>9, <1>14, <1>15

(* The timings of what has a row by now: of its own spec, which the first  *)
(* transaction recorded, and of those that name a compiler.                *)
LEMMA AddTimersInvariant ==
    ASSUME IInv, TypeOK', NEW w \in Actors, AddTimers(w)
    PROVE  IInv'
<1> DEFINE timed == Timings[Job(w)] \intersect Sees(w, "known")
<1>1. WorkerInv(w) /\ TypeOK /\ At(w, "addTimers") /\ UNCHANGED db
  BY DEF IInv, AddTimers
<1>2. worker[w] \in Tasks /\ Job(w) \in Jobs
  BY <1>1, BusyIsTask DEF At, Steps
<1>3. /\ Moves(w) /\ worker'[w].pc = "commitTimers"
      /\ worker'[w].job = worker[w].job /\ worker'[w].full = worker[w].full
  BY <1>1, GotoMoves DEF AddTimers, Moves, TypeOK, Steps
<1>4. /\ draft'[w].timers = {Job(w)} \X timed
      /\ \A t \in {"known", "complete", "facts"} : draft'[w][t] = draft[w][t]
  BY <1>1 DEF AddTimers, TypeOK, IsStore, Tables
<1>5. Job(w)' = Job(w) /\ Own(w)' = Own(w) /\ Named(w)' = Named(w)
      /\ Sees(w, "known")' = Sees(w, "known")
  BY <1>1, <1>3, <1>4 DEF Job, Own, Named, Sees
<1>6. Own(w) \subseteq Sees(w, "known") /\ Named(w) \subseteq Sees(w, "known")
  BY <1>1, <1>2 DEF IInv, Described, WorkerInv, Reached, InTimings, At, Own, Sees
<1>7. Timings[Job(w)] \intersect (Own(w) \union Named(w)) \subseteq timed
  BY <1>6
<1> HIDE DEF timed
<1>8. timed \in SUBSET (Timings[Job(w)] \intersect Sees(w, "known"))
  BY DEF timed
<1>9. Written(w)' /\ Prepared(w)'
  BY <1>1, <1>3, <1>4, <1>5 DEF WorkerInv, Written, Prepared, InFact, InTimings, At
<1>10. Reached(w)'
  <2>1. Job(w) \in db.facts /\ HasTimers(w) /\ (Outcome[Job(w)] = "success" => worker[w].full)
    BY <1>1 DEF WorkerInv, Reached, InTimings, At
  <2> QED
    BY <1>1, <1>3, <1>4, <1>5, <1>6, <1>7, <1>8, <2>1
    DEF Reached, InFact, InTimings, At, HasTimers
<1> QED
  BY <1>1, <1>3, <1>4, <1>9, <1>10, LocalStep DEF WorkerInv

(* A step that commits: what w wrote belongs to no other transaction.      *)
LEMMA CommitStep ==
    ASSUME IInv, TypeOK', NEW w \in Actors, Moves(w), draft'[w] = NoRows, WorkerInv(w)',
           \A t \in {"known", "complete", "facts"} : db'[t] = db[t] \union draft[w][t],
           draft[w].facts # {} => Own(w) \subseteq db'.known
    PROVE  IInv'
<1>1. WorkerInv(w) /\ Exclusive("known") /\ Exclusive("facts") /\ Described
  BY DEF IInv
<1>2. draft'[w].known = {} /\ draft'[w].facts = {}
  BY DEF NoRows, Tables
<1>3. Grows
  BY DEF Grows
<1>4. \A v \in Actors : WorkerInv(v)'
  BY <1>3, OthersKeepIt DEF Moves
<1>5. Exclusive("known")'
  BY <1>1, <1>2 DEF Exclusive, Moves
<1>6. Exclusive("facts")'
  BY <1>1, <1>2 DEF Exclusive, Moves
<1>7. Described'
  <2> SUFFICES ASSUME NEW j \in db'.facts PROVE Store!Built(j) \subseteq db'.known
    BY DEF Described
  <2>1. CASE j \in db.facts
    BY <1>1, <1>3, <2>1 DEF Described, Grows
  <2>2. CASE j \in draft[w].facts
    BY <1>1, <2>2 DEF WorkerInv, Written, Own
  <2> QED
    BY <2>1, <2>2
<1> QED
  BY <1>4, <1>5, <1>6, <1>7 DEF IInv

LEMMA CommitFactInvariant ==
    ASSUME IInv, TypeOK', NEW w \in Actors, CommitFact(w)
    PROVE  IInv'
<1>1. WorkerInv(w) /\ TypeOK /\ At(w, "commitFact")
  BY DEF IInv, CommitFact
<1>2. worker[w] \in Tasks
  BY <1>1, BusyIsTask DEF At, Steps
<1>3. Moves(w) /\ draft'[w] = NoRows
  BY <1>1 DEF CommitFact, Commit, TypeOK, Moves
<1>4. \A t \in {"known", "complete", "facts"} : db'[t] = db[t] \union draft[w][t]
  BY DEF CommitFact, Commit, Tables
<1>5. Own(w) \subseteq db'.known /\ Job(w) \in db'.facts
  BY <1>1, <1>4 DEF WorkerInv, Reached, InFact, At, Sees
<1>6. /\ draft'[w].known = {} /\ draft'[w].complete = {}
      /\ draft'[w].facts = {} /\ draft'[w].timers = {}
  BY <1>3 DEF NoRows, Tables
<1>7. WorkerInv(w)'
  <2>1. CASE HasTimers(w)
    <3>1. /\ worker'[w].pc = "artifacts" /\ worker'[w].at = 1
          /\ worker'[w].job = worker[w].job /\ worker'[w].full = worker[w].full
      BY <1>1, <1>2, <2>1 DEF CommitFact, TypeOK, Tasks
    <3>2. Outcome[Job(w)] = "success" => worker[w].full
      BY <1>1 DEF WorkerInv, Reached, At
    <3> QED
      BY <1>5, <1>6, <2>1, <3>1, <3>2
      DEF WorkerInv, Prepared, Written, Reached, InFact, InTimings, At, Job, HasTimers
  <2>2. CASE ~HasTimers(w)
    <3>1. worker'[w].pc = "idle"
      BY <1>1, <2>2 DEF CommitFact, TypeOK, Idle
    <3> QED
      BY <1>6, <3>1 DEF WorkerInv, Prepared, Written, Reached, InFact, InTimings, At
  <2> QED
    BY <2>1, <2>2
<1> QED
  BY <1>3, <1>4, <1>5, <1>7, CommitStep

LEMMA CommitTimersInvariant ==
    ASSUME IInv, TypeOK', NEW w \in Actors, CommitTimers(w)
    PROVE  IInv'
<1>1. WorkerInv(w) /\ TypeOK /\ At(w, "commitTimers")
  BY DEF IInv, CommitTimers
<1>2. Moves(w) /\ draft'[w] = NoRows /\ worker'[w].pc = "idle"
  BY <1>1 DEF CommitTimers, Commit, TypeOK, Moves, Idle
<1>3. \A t \in {"known", "complete", "facts"} : db'[t] = db[t] \union draft[w][t]
  BY DEF CommitTimers, Commit, Tables
<1>4. draft[w].facts = {}
  BY <1>1 DEF WorkerInv, Written, At
<1>5. \A t \in {"known", "complete", "facts", "timers"} : draft'[w][t] = {}
  BY <1>2 DEF NoRows, Tables
<1>6. WorkerInv(w)'
  BY <1>2, <1>5 DEF WorkerInv, Prepared, Written, Reached, InFact, InTimings, At
<1> QED
  BY <1>2, <1>3, <1>4, <1>6, CommitStep

(* Every step of the system keeps the invariant.                           *)
LEMMA StepInvariant == IInv /\ [Next]_vars => IInv'
<1> SUFFICES ASSUME IInv, [Next]_vars PROVE IInv'
  OBVIOUS
<1>1. TypeOK /\ AllPrepared
  BY DEF IInv, AllPrepared, WorkerInv
<1>2. CASE UNCHANGED vars
  <2>1. TypeOK'
    BY <1>1, <1>2 DEF TypeOK, vars
  <2>2. \A v \in Actors : WorkerInv(v)'
    BY <1>2, OthersKeepIt DEF Grows, vars
  <2> QED
    BY <1>2, <2>1, <2>2 DEF IInv, Exclusive, Described, vars
<1>3. CASE \/ \E j \in Jobs : Webhook(j)
           \/ \E w \in Workers, m \in queue : Take(w, m)
           \/ BackfillNext
  BY <1>1, <1>3, QueueStepTyped, QueueInvariant
<1>4. ASSUME NEW w \in Actors, FaultNext(w) PROVE IInv'
  BY <1>1, <1>4, FaultStepTyped, FaultInvariant
<1>5. ASSUME NEW w \in Actors, Process(w) PROVE IInv'
  <2>1. TypeOK'
    BY <1>1, <1>5, ProcessStepTyped
  <2>2. CASE Skip(w) \/ Fetch(w) \/ FindDay(w) \/ FindResult(w) \/ FindSpec(w) \/ FindFact(w)
               \/ FindTimings(w)
    BY <2>1, <2>2, ReadInvariant
  <2>3. CASE AddDay(w) \/ AddResult(w) \/ AddSpec(w) \/ FillSpec(w) \/ AddFact(w)
    BY <2>1, <2>3, WriteInvariant
  <2>4. CASE CommitFact(w) \/ CommitTimers(w)
    BY <2>1, <2>4, CommitFactInvariant, CommitTimersInvariant
  <2>5. CASE AddSpecs(w) \/ AddTimers(w)
    BY <2>1, <2>5, AddSpecsInvariant, AddTimersInvariant
  <2>6. CASE AmbiguousResult(w) \/ Conflict(w) \/ EndDeadlock(w)
    BY <2>1, <2>6, FailInvariant DEF AmbiguousResult, Conflict, EndDeadlock
  <2> QED
    BY <1>5, <2>2, <2>3, <2>4, <2>5, <2>6 DEF Process, RecordFact, RecordTimings
<1> QED
  BY <1>2, <1>3, <1>4, <1>5 DEF Next

(* What each open transaction of process_job has written, and what it has  *)
(* seen that others committed, fits the step it is at, and no two open     *)
(* transactions hold the same new spec or fact: the inductive invariant    *)
(* behind the two theorems below.                                          *)
THEOREM Invariance == Spec => []IInv
BY InitInvariant, StepInvariant, PTL DEF Spec

(* The stores hold rows of their tables, tasks are those of known jobs and *)
(* retries stay below max_retries.                                         *)
THEOREM TypeCorrect == Spec => []TypeOK
<1>1. IInv => TypeOK
  BY DEF IInv
<1> QED
  BY <1>1, Invariance, PTL

(***************************************************************************)
(* Refinement.                                                             *)
(***************************************************************************)
LEMMA InitRefines == Init => Store!Init
BY DEF Init, Store!Init, Tables

(* The commit of the first transaction records the job, or, if it has a    *)
(* fact already, adds nothing but the fields of its spec.                  *)
LEMMA CommitFactRefines ==
    ASSUME IInv, NEW w \in Actors, CommitFact(w)
    PROVE  Store!RecordJob(Job(w)) \/ Store!CompleteSpec(Job(w)) \/ UNCHANGED Store!vars
<1>1. /\ WorkerInv(w) /\ Exclusive("known") /\ Exclusive("facts") /\ Described
      /\ At(w, "commitFact")
  BY DEF IInv, CommitFact
<1>2. \A t \in {"known", "complete", "facts", "timers"} : db'[t] = db[t] \union draft[w][t]
  BY DEF CommitFact, Commit, Tables
<1>3. /\ draft[w].timers = {} /\ draft[w].facts \subseteq {Job(w)}
      /\ draft[w].known \subseteq Own(w) /\ draft[w].complete \subseteq Own(w)
  BY <1>1 DEF WorkerInv, Written, InFact, At
<1>4. /\ Own(w) \subseteq db'.known /\ Job(w) \in db'.facts
      /\ Outcome[Job(w)] = "success" => Own(w) \subseteq db'.complete
  BY <1>1, <1>2 DEF WorkerInv, Reached, InFact, At, Sees
<1>5. db'.timers = db.timers
  BY <1>2, <1>3
<1>6. CASE Job(w) \notin db.facts
  <2>1. db'.facts = db.facts \union {Job(w)}
    BY <1>2, <1>3, <1>4, <1>6
  <2>2. db'.known = db.known \union Own(w)
    BY <1>2, <1>3, <1>4
  <2>3. \E filled \in SUBSET Own(w) : db'.complete = db.complete \union filled
    BY <1>2, <1>3
  <2> QED
    BY <1>4, <1>5, <1>6, <2>1, <2>2, <2>3 DEF Store!RecordJob, Store!Describe, Own
<1>7. CASE Job(w) \in db.facts
  <2>1. draft[w].facts = {}
    BY <1>1, <1>3, <1>7 DEF Exclusive
  <2>2. draft[w].known = {}
    BY <1>1, <1>3, <1>7 DEF Exclusive, Described, Own
  <2>3. \A h1, h2 \in Own(w) : h1 = h2
    BY DEF Own, Store!Built
  <2>4. draft[w].complete = {} \/ draft[w].complete = Own(w)
    BY <1>3, <2>3
  <2> QED
    BY <1>2, <1>5, <1>7, <2>1, <2>2, <2>4 DEF Store!CompleteSpec, Store!vars, Own
<1> QED
  BY <1>6, <1>7

(* The commit of the second one records the timings of what is known.      *)
LEMMA CommitTimersRefines ==
    ASSUME IInv, NEW w \in Actors, CommitTimers(w)
    PROVE  Store!RecordTimers(Job(w))
<1>1. WorkerInv(w) /\ At(w, "commitTimers")
  BY DEF IInv, CommitTimers
<1>2. \A t \in {"known", "complete", "facts", "timers"} : db'[t] = db[t] \union draft[w][t]
  BY DEF CommitTimers, Commit, Tables
<1>3. draft[w].facts = {} /\ draft[w].known \subseteq Named(w) /\ draft[w].complete \subseteq Named(w)
  BY <1>1 DEF WorkerInv, Written, InTimings, At
<1>4. /\ Job(w) \in db.facts /\ Outcome[Job(w)] = "success" /\ Specs[Job(w)] # <<>>
      /\ Named(w) \subseteq db'.known /\ Sees(w, "known") = db'.known
  BY <1>1, <1>2 DEF WorkerInv, Reached, InTimings, At, Sees, HasTimers
<1>5. db'.known = db.known \union Named(w)
  BY <1>2, <1>3, <1>4
<1>6. \E filled \in SUBSET Named(w) : db'.complete = db.complete \union filled
  BY <1>2, <1>3
<1>7. PICK timed \in SUBSET (Timings[Job(w)] \intersect db'.known) :
         /\ Timings[Job(w)] \intersect (Own(w) \union Named(w)) \subseteq timed
         /\ draft[w].timers = {Job(w)} \X timed
  BY <1>1, <1>4 DEF WorkerInv, Reached, At
<1>8. db'.timers = db.timers \union ({Job(w)} \X timed) /\ db'.facts = db.facts
  BY <1>2, <1>3, <1>7
<1> QED
  BY <1>4, <1>5, <1>6, <1>7, <1>8 DEF Store!RecordTimers, Store!Describe, Own, Named

LEMMA StepRefines == IInv /\ [Next]_vars => [Store!Next]_(Store!vars)
<1> SUFFICES ASSUME IInv, [Next]_vars PROVE [Store!Next]_(Store!vars)
  OBVIOUS
<1>1. CASE UNCHANGED db
  BY <1>1 DEF Store!vars
<1>2. ASSUME NEW w \in Actors, CommitFact(w) PROVE [Store!Next]_(Store!vars)
  <2>1. Job(w) \in Jobs
    BY <1>2, BusyIsTask DEF IInv, CommitFact, At, Steps
  <2> QED
    BY <1>2, <2>1, CommitFactRefines DEF Store!Next
<1>3. ASSUME NEW w \in Actors, CommitTimers(w) PROVE [Store!Next]_(Store!vars)
  <2>1. Job(w) \in Jobs
    BY <1>3, BusyIsTask DEF IInv, CommitTimers, At, Steps
  <2> QED
    BY <1>3, <2>1, CommitTimersRefines DEF Store!Next
<1>4. CASE UNCHANGED vars
  BY <1>1, <1>4 DEF vars
<1>5. CASE \/ \E j \in Jobs : Webhook(j)
           \/ \E w \in Workers, m \in queue : Take(w, m)
           \/ BackfillNext
  BY <1>1, <1>5 DEF Webhook, Take, BackfillNext, StartBackfill, NextBackfill
<1>6. ASSUME NEW w \in Actors, FaultNext(w) PROVE UNCHANGED db
  BY <1>6 DEF FaultNext, RequestFails, TaskFails, ProcessLost, PodLost, Fail, Rollback
<1>7. ASSUME NEW w \in Actors, Process(w)
      PROVE  UNCHANGED db \/ CommitFact(w) \/ CommitTimers(w)
  BY <1>7 DEF Process, RecordFact, RecordTimings, Skip, Fetch, FindDay, AddDay, FindResult,
     AmbiguousResult, AddResult, FindSpec, AddSpec, FillSpec, FindFact, AddFact, FindTimings,
     AddSpecs, AddTimers, Conflict, EndDeadlock, Insert, Fail, Rollback
<1> QED
  BY <1>1, <1>2, <1>3, <1>4, <1>5, <1>6, <1>7 DEF Next

(* Whatever workers and the backfill do at the same time, however their    *)
(* messages are lost, repeated or retried and wherever a task stops, the   *)
(* database goes through whole facts only, each recorded once and with the *)
(* rows it refers to, and of the timings of a build only those are missing *)
(* whose spec has no row.                                                  *)
THEOREM Refinement == Spec => ImplementsFactStore
BY InitRefines, StepRefines, Invariance, PTL DEF Spec, ImplementsFactStore, Store!Spec
=============================================================================
