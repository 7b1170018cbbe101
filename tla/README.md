# A TLA+ model of spack-infrastructure

This directory models the programs that keep Spack's CI running: the cron jobs
and services under `images/`, `analytics/` and `k8s/` of this repository. They
are small, but each works on state that other programs change at the same time
(GitHub, GitLab, S3 mirrors, a Kubernetes cluster, a database), is killed by
deadlines, and is started again with no memory. That is what the models are
about. Line numbers below refer to the files of the repository.

## 1. Inventory

| Component | State it works on | Operations | Hard parts |
|---|---|---|---|
| `images/gh-gl-sync/SpackCIBridge.py`, every 5 minutes | GitHub main branch, open pull requests, check runs; GitLab branches and pipelines; commit statuses | fetch, query pipelines, read pull requests, defer or merge, push, post statuses | everything moves during a run; non-atomic push; runs die |
| `images/protected-publish/pkg/publish.py`, every 3 hours | stack mirrors, top-level mirror and its index in S3 | list, sync manifests, verify, copy three objects, re-index | verify then copy; partial copies; CI rebuilds and signs meanwhile |
| `images/protected-publish/pkg/migrate.py`, `validate_index.py` | a layout 2 mirror and its layout 3 copy | migrate each spec, keys, index | partial migration, repeated migration |
| `images/notary/sign.sh`, a CI job | one stack mirror | verify all, sign all | a failure leaves the stack unsigned |
| `images/ci-prune-buildcache`, weekly | S3 mirrors of `develop`'s stacks and of pull requests | keep lists from pipelines, prune, delete mirrors of closed pull requests | list, then delete; dies with a cache half pruned |
| `images/gitlab-skipped-pipelines`, `gitlab-clear-pipelines`, `retry-trigger-jobs`, `gitlab-delete-stale-branches`, `gitlab-stuckpods` | GitLab pipelines, jobs and branches | create, cancel, retry, delete | they act on listings that are stale, next to each other and to the sync |
| `images/snapshot-release-tags`, every 3 days | GitHub tags | tag the last develop commit that passed | dies between two tags; pipelines are run again |
| `images/runner-node-certificate-controller`, every minute | taints of Kubernetes nodes | look at conditions, approved certificate requests and the kubelet; remove a taint | nodes are written and leave between two calls; one that is gone ends the run |
| `images/cache-indexer`, `ci-key-clear`, `secrets-backup` | S3, a secret manager | list, delete, copy | pure input and output |
| `analytics/analytics` | webhooks, Celery tasks, a PostgreSQL star schema | create job facts, work out attempt, pod, cost and class of error; backfill; repair of parent pipelines | tasks run twice, late or not at all; what they read has moved on |
| `scripts/error-classification.py` | a table of failed jobs and their logs | fetch logs, classify, deconflict | must agree with the job processor |
| other `scripts/`, `secrets/` | none | a GitLab runner hook, an operator's tool | run by hand |
| `terraform/`, `k8s/*.yaml`, `gitlab-docker/` | configuration | none | not programs; deadlines, schedules and concurrency policies are read from the cron job manifests |

What makes each one correct:

- **sync**: GitLab only tests heads whose own prerequisite checks passed, merged
  onto a main commit that was tested; a head is not pushed twice; a running main
  pipeline is not interrupted; main commits get there; deferrals end.
- **publish**: the top of a mirror holds complete, properly signed binaries, each
  published once; everything signed gets there and into the index.
- **migrate**: a migrated spec keeps its identity and signature; repeating a
  migration is harmless; the index covers what was migrated.
- **prune**: nothing that a live pipeline or an open pull request needs is deleted.
- **pipeline janitors**: a branch tip ends up with one live pipeline, none is
  created or retried without end, no open pull request loses its branch for good.
- **node controller**: a node that stays healthy loses the taint, and the taints of
  others stay.
- **snapshot tags**: `develop-latest` gets to the newest commit that stays good.
- **analytics**: one fact per job however often its webhook is delivered; its
  attempt, cost, class of error and parent pipeline are right however late it is.

## 2. Modules

| Module | What it is |
|---|---|
| `SyncBridge` | one run of the GitHub to GitLab synchronisation, step by step, between GitHub, GitLab, other cron jobs and failures |
| `SyncStatus` | its last part: what it posts about the heads of a pull request, states of pipelines or why it is held back |
| `Publish` | one run of `publish()` for layout 3, with its worker threads, between CI pipelines, signing jobs and failures |
| `TopMirror` | what the publisher promises of the top-level mirror: the abstract specification |
| `PublishRefs` | `main()` of the publisher over several refs, and `publish()` for layout 2 |
| `Migrate` | the migration of a mirror from layout 2 to layout 3 |
| `KeepList`, `PRMirrors` | the two parts of the weekly pruning job |
| `Janitors` | the jobs that start skipped pipelines, restart stuck ones and delete stale branches, next to the synchronisation |
| `TriggerRetry` | the job that retries trigger jobs whose child never had a job |
| `SnapshotTags` | the job that tags snapshots of `develop` |
| `NodeCert` | the controller of the certificate taint of runner nodes |
| `JobProcessor` | the analytics tasks and the backfill, statement by statement, between repeated webhooks, retries, lost workers and each other's transactions |
| `FactStore` | what they promise of the database: the abstract specification |
| `RetryInfo`, `PodUsage`, `ErrorClass` | what a job's rows say: its attempt, its share of the node, its class of error |
| `ParentPipelines` | the command that repairs parent pipelines |
| `PipelineJobs` | composes `Janitors`, `TriggerRetry`, `SnapshotTags`, `SyncStatus`, `NodeCert` for TLC |
| `MirrorJobs` | composes `KeepList`, `PRMirrors`, `Migrate`, `PublishRefs` |
| `JobFacts` | composes `RetryInfo`, `PodUsage`, `ErrorClass`, `ParentPipelines` |
| `MCJobProcessor`, `MCMirrorJobs`, `MCJobFacts` | structured values of the constants for TLC |
| `SyncBridgeProofs`, `PublishProofs`, `JobProcessorProofs` | theorems of the module in their name, with proofs |
| `PruneProofs` | of `KeepList` and `PRMirrors` |
| `LayoutProofs` | of `Migrate` and `PublishRefs` |
| `PipelineJobsProofs`, `JobFactsProofs` | of the components of that composition, and of the composition |
| `MirrorJobsProofs` | of the composition, from `PruneProofs` and `LayoutProofs` |

The three compositions hold jobs that share no state: each has its own part of
GitLab, of S3 or of the database. Interleaving two of them would only multiply
states, so a variable `subject`, chosen in `Init` and never changed, says which
part a behaviour is about. Within a part the job interleaves with everything that
changes what it works on. No two runs of one job overlap: the manifests of the
cron jobs set `concurrencyPolicy: Forbid`.

### SyncBridge

The variables fall in three groups: GitHub (`ghMain`, `ghPR`, `ghMerge`,
`passed`), GitLab (`glMain`, `glPR`, `pipelines`) and the locals of one run
(`pc` and what follows). `everTested` is a history variable: the main commits of
which a pipeline ever completed. A main commit is its position in a linear
history, a pull request head is its revision and the last main commit it
contains, and the tip of a GitLab branch says which head was merged into which
commit, by the job (`via = "merge"`) or by GitHub.

One run is the sequence of actions below. Each reads what the code reads at that
point, and GitHub, GitLab and the other actors may act between any two.

| Action | Code | Reads |
|---|---|---|
| `Setup`, `FetchMain` | `setup_git_repo` 356-372 | GitLab branches, then GitHub main |
| `QueryPipelines` | `sync` 675-691, `dedupe_pipelines` 484-496 | the first page of main pipelines |
| `ReadPull(p)` | the paged listing, 155-170 | head, labels, merge commit of `p` |
| `PassOver`, `MergeLocally`, `TakeGitHubMerge`, `NothingTested` | the rest of the loop, 172-306 | check runs, and the head as git serves it by now |
| `FetchRefs` | 693-713 | GitHub main again |
| `Push`, `PushPartly` | 714-717, 26-41 | |
| `Abort` | the deadline, uncaught exceptions | |

`ProcessPR` reads GitHub once per pull request: the check runs and `git fetch` of
the same iteration see one state. That is sound for the properties below because
a head that was checked stays in `passed`, and the comparison with the head git
fetched is made on what was fetched.

The faulty variants next to some definitions (`InSyncAssumed`, ...) are not used
by any action. They are the changes of the code each property was shown to catch.

### Publish

`stack[s][h]` is the manifest of hash `h` in the mirror of stack `s`; it names
the build its blobs belong to and who signed it. `top`, `blobs` and `index` are
the top-level mirror. One run lists the bucket (`List`), syncs manifests stack by
stack (`SyncStack`, `SyncPartly`), chooses what to copy (`Plan`), and gives each
missing hash a task that a pool of `Parallel` threads executes: `Verify`,
`CopyArchive`, `CopyMeta`, `CopyManifest`, any of which may fail (`FailCopy`),
then `JoinWorkers` and `UpdateIndex`. `Crash` is the deadline or an exception.
`Build` and `Sign` are CI, and may happen at any time.

`CopyManifest` copies the manifest that the stack mirror holds *by then*, not
the one `Verify` looked at: the code passes S3 a source key, not the local file.

`TopMirror` is the promise: each hash is published once, as a good binary, and an
index lists what was there when it was rebuilt. The refinement mapping counts a
hash as served only if the blobs its manifest names are there.

### JobProcessor

`db` is the committed database and `draft[w]` what the open transaction of
worker `w` has written so far. `worker[w]` is the task it processes: the job, the
copy of the webhook that caused it, the retries so far, and in `pc` the next
statement. `queue` is the Celery broker, `todo` the rest of a running
`backfill_jobs`. A task is the sequence below, two transactions of it; another
worker, or the backfill, may act between any two steps.

| Action | Code |
|---|---|
| `Skip`, `Fetch` | `process_job` 161-165, `retrieve_job_info` |
| `FindDay`, `AddDay` | `ensure_exists` of the two dimensions, a check and a plain insert |
| `FindResult`, `AddResult`, `AmbiguousResult` | `get_or_create` where no constraint is unique |
| `FindSpec`, `AddSpec`, `FillSpec` | `create_package_spec_dimension` |
| `FindFact`, `AddFact`, `CommitFact` | `create_job_fact` 81-144, end of the first transaction |
| `FindTimings`, `AddSpecs`, `AddTimers`, `CommitTimers` | `create_build_timing_facts`, the second transaction |
| `Conflict`, `EndDeadlock` | what PostgreSQL raises; neither is retried |
| `RequestFails`, `TaskFails`, `ProcessLost`, `PodLost` | `autoretry_for`, other exceptions, `CELERY_TASK_REJECT_ON_WORKER_LOST`, `CELERY_TASK_ACKS_LATE` |

External, and modelled from how the code uses it: PostgreSQL at its default
isolation, read committed, where a plain read sees what is committed and an
insert waits for another transaction that holds the same unique key; Redis as
a broker that hands a message of a lost pod to another worker. The rows are
reduced to their keys. Tables filled by `get_or_create` under a unique constraint
recover from every conflict and are left out; dates and times are one table.
`NoCompiler` are the hashes whose node names no compiler: `AddSpecs` passes them
over (`build_timings.py:54-55`), so they have a row only where a build of their
own made one. `Timings[j]` is what `install_times.json` of a job times, after the
filter of line 120; `AddTimers` drops what has no row (line 138). It reads the rows
where it writes the timings, while the code reads them a few statements earlier: a
row that another task commits in between would be dropped too, which `FactStore`
allows.

`FactStore` is the promise: each job is recorded at most once, with the specs its
fact refers to; the spec of a successful build is complete; timings come after
the fact, for successful builds, and only of specs that have a row; of the specs
of the build none that was timed is missed, but those that name no compiler may
be; nothing is taken back.

### The jobs around GitLab and the nodes: PipelineJobs

**Janitors.** A head is a branch and the number of the push that made it.
`proposed` is GitHub, `tip` to `second` is GitLab; the rest are the locals of three
jobs that run at the same time, next to the synchronisation (`SyncUpdate`,
`SyncRestore`) and GitLab. `find_and_run_skipped_pipelines` reads push events
(`ReadEvents`), branches (`ReadBranches`), asks for each head whether it has a
pipeline (`CheckHead`) and starts one for the *branch* (`StartSkipped`), which may
have another head by then. `paginate()` answers a failed query with an empty list,
so a failure looks like "no pushes" or "no pipeline". `cancel_and_restart` starts
a new pipeline without looking at the answer and then cancels the old one
(`RestartStuck`, `CancelStuck`); its cron job is `suspend: true`, so nothing is
assumed of it. `delete_stale_branches` lists and deletes (`ListStale`,
`DeleteStale`). `calm` is a history variable: the branches left alone since the run
began, but not one whose last push, within the hour, came in an event that names
no branch: one `git push` of many refs is reported so, and lines 110-119 pass the
event over. `named` are the branches the events do name.

**TriggerRetry.** One parent pipeline with a generate and a trigger job per stack.
`ListBridges` is the listing of bridges, each then goes through the four
conditions (`PassBridge`, `RetryTrigger`): failed child and no job in it as listed,
generate job failed and later succeeded as asked by now. A retry gives a
trigger a new id, and GitLab refuses to retry an id that has a successor. `quiet`
counts runs since the pipeline was last updated: after `WindowRuns` of them the job
does not look at it any more.

**SnapshotTags.** `FindNewest`, then `create_or_update_ref` twice, a read and a
write each (`GetLatest`, `SetLatest`, `GetDated`, `SetDated`).

**SyncStatus.** One pull request, whose head changes and which may stop being open,
fresh and not a draft (`TurnPull`), GitLab's branch of it and its pipelines (`lines`,
the newest last), each with its `age`, the number of pipelines updated since it
was, and the runs that have ended since (`syncs`). `SortPull` is what
`list_github_prs` makes of it: synchronised (GitLab has the head, or `PushMerge`
pushes a merge of it), held back with a verdict, or left out; `MaySort` says what
follows from what, the checks, base and merge of a head that is not on GitLab
being free. `QueryStatus` asks for the pipelines of a synchronised one only, and
takes the answer with `dedupe_pipelines`: for each commit the pipeline updated
last, at the place of the first one listed, its `lead`. `PostNext` posts the state
of the newest lead, which may be old by then; `PostVerdict` posts, with the same
context, why the pull request is held back; `EndPosting` ends the run. A pipeline
that `WindowSyncs` runs have passed since its update is out of the answer.

**NodeCert.** `main()` lists the tainted nodes (`ListTainted`) and makes its calls on
one after the other: `CheckReady`, `CheckCSRs`, `CheckKubelet`, `CheckConditions`,
`ReadNode`, `PatchNode`. `nodeCurrent` says whether the resource version that the
patch carries is still that of the node; the API server refuses one that is not,
and that exception, like a 404, ends the run (`NodeRunDies`).

### The jobs on mirrors: MirrorJobs

**KeepList.** The pipelines of `develop` in the order of their creation, of which
`oldest .. newest` are in the window. `ListPipelines`, `ProcessPipeline` for each, in
any order (threads), `WriteLists`, then for each cache with a list `PruneCache` and
`UpdateIndex`, the top-level one last. `KeepRunDies` is `set -e` or an exception: it
can leave a cache partly pruned, and its index out of date.

**PRMirrors.** `ListMirrors`, `ReadPulls` once per page, then `DeleteMirror` or
`DeletePartly`. Whether a pull request is on page *k* depends on those open when
that page is asked for. `steady` is a history variable: the pull requests active
since the mirrors were listed, without those a newer one was closed above once the
first page was read (`MovesUp`).

**Migrate.** A worker per spec: `FetchMeta`, `VerifyMeta`, `RewriteMeta`,
`MigrateArchive`, `UploadMeta`, `UploadManifest`; `TransferFails` ends a task.
`JoinMigrate` goes on to the keys (`PushKey`, `PushKeyManifest`, `KeyFails`) and
`IndexMigrated` only when something was migrated. `file` is what the working
directory holds of a spec; it outlives the run when `shared` (option `-w`, chosen in
`Init` from `Sharing`), and a file that is there is not fetched again. gpg writes the
plain text of a signed file before it judges the signature, so `VerifyMeta` leaves
that text also when it fails. The listing of what is migrated is recursive
(`migrate.py:87-92`): `Nested` are the specs with a manifest in a mirror below. The
option `-f` is left out.

**PublishRefs.** `FindRefs` (`get_recently_run_protected_refs`), then each ref:
`StartRef` decides what is missing from the listing and takes the first stack that
has both objects of a hash (`IsFirst`), a thread per hash does `VerifySpec`,
`CopyFirst` (archive), `CopySecond` (metadata), `TaskFails2` ends one, `JoinTasks`,
`IndexRef`. `RefRaises` is an exception of `publish()`: it is kept, the other refs
follow, and `FinishRefs` raises it. `UploadArchive`, `UploadMetadata`, `SignMetadata`
are CI: each object says of which build it is and the metadata whether the signing
job has signed it. `VerifySpec` looks at the metadata the key holds then; the
copies take what the keys hold when they are made.

### What a job's rows say: JobFacts

**RetryInfo.** GitLab makes attempts, fails them for a reason and retries them
(`AttemptFails`, modelled from the `retry` keyword the code links); users retry too.
`RecordRetry` is `get_job_retry_data` of an attempt at any later time, and may see
attempts that came after it. `manual` is `is_manual_retry`; `is_retry` is left out, it
is that the attempt is not the first.

**PodUsage.** `Scrape` is Prometheus. `RetrieveJobInfo` asks once, after the job
ended, in a step of its choice; one query may fail, and what is not caught fails
the task (`Raised`). `Occupancy` is
`calculate_node_occupancy` as a fraction in units that every number of pods divides,
compared with the whole node, so no rounding is involved.

**ErrorClass.** The script works on a table: `ScrapeLog`, then one column of the
table per step of `ClassifyColumn` and `DeconflictColumn`. With `--no-deconflict` the
table is saved with several marks to a job (`classified`); either kind of table may
be given to `DeconflictTable`, or classified again. `AssignErrorTaxonomy` is the job
processor's decision on one job, by the order of `error_taxonomy.yaml`
(`ProcessorOrder`), which knows other classes than the script and ranks some
differently. A class stands for its patterns, which both programs are taken to
share.

**ParentPipelines.** `ListOrphans`, `UpdateBatch`, `UpdateRoots`, with the rows
that web hooks add meanwhile (`JobArrives`). `ParentsRefused` is the unique
constraint, `ParentsStopped` the operator: the next start begins anew.

## 3. Runs

| Run | Expect | Question | Bounds |
|---|---|---|---|
| `SyncSafety` | pass | is everything pushed checked, merged onto a tested commit, pushed once? | 2 pull requests, one of which may be urgent; 2 main commits; 2 revisions; one canceled pipeline or failed push |
| `SyncLive` | pass | do main commits and deferred pull requests get to GitLab, and is a lone running pipeline left alone? | 1 pull request, 2 main commits, 2 revisions, one of 5 interventions, 2 pipelines to a page |
| `SyncHiddenRunning` | violation | is a running pipeline never interrupted? | 3 main commits, one rerun |
| `SyncNothingTested` | violation | does the main branch always get to GitLab? | first pipeline canceled |
| `PublishSafety` | pass | does the publisher implement `TopMirror`? | 2 hashes, 2 stacks, 2 workers, 2 faults, no rebuild |
| `PublishLive` | pass | with rebuilds: only signed blobs, published once; does all get to the top and the index? | 1 hash, 2 stacks, 3 builds, 1 fault |
| `PublishStaleManifest` | violation | is everything at the top signed with the reputational key, with rebuilds? | 1 hash, 1 stack, 2 builds |
| `JobsRecorded` | pass | does the database only ever get whole facts, and does every job that started get one? | 1 worker and the backfill, 4 jobs, two webhooks of one, 1 fault |
| `PipelineJobs` | pass | does each head get a pipeline, and no second one; are only childless triggers retried; does the tag, the status, the node get there? | 1 branch, 3 pushes; 2 triggers; 3 commits, 2 days; 1 head, 2 merges, 2 pipelines, 1 turn of the pull request; 2 nodes; 1 fault each |
| `MirrorJobs` | pass | is nothing pruned that is wanted; does a migration, a publication leave only whole things, and get done? | 2 stacks, 2 specs, 2 pipelines; 3 pull requests, one to a page; 4 specs, 1 key, 2 faults, with and without a shared directory; 3 refs, 2 stacks, 2 hashes in 3 places, 1 of them built twice, 1 fault |
| `JobFacts` | pass | is what is recorded of a job right, however late and whatever is missing? | 4 attempts, 3 configurations; 3 pods, 3 scrapes; 3 failed jobs, 4 classes of the script, 5 of the job processor; 3 pipelines, 1 stop |
| `LonePod` | violation | is the usage of a pod found that was scraped at several points in time? | as `JobFacts` |

Why the bounds are enough. In `SyncBridge` a pull request interacts with another
only through the shared snapshot of tested commits and through a push that lands
some refs; two of them show both. Every deferral and every interruption needs
one main commit that is tested and one that is not. Two revisions are what a
force push between two reads needs. In `Publish` two stacks are needed for the
choice of a stack, two hashes and two workers for the interleaving of tasks, and
two faults for a failed copy followed by a dead run. In `JobProcessor` the jobs
are chosen so that each conflict can occur between a worker and the backfill: one
that never started, two builds that share specs in opposite orders (a deadlock),
and a failed build of a spec that a successful one completes. That spec names no
compiler, so only a build of its own gives it a row, and another build times it.

In `PipelineJobs` heads of one branch differ by their push, which is what the
skipped pipelines job can confuse; branches share nothing but the order of one
loop. Two triggers show that one retried by an operator does not disturb the
other; windows are longer than the faults, as the code's hours are longer than a
dead run. A tag that has to move twice needs three commits. A rerun of an older
pipeline after a newer one ended needs two pipelines of one merge, and a pull
request that is held back and returns one turn. Two nodes show that one does not
keep the other waiting. In `MirrorJobs` two pipelines and two stacks are the merge
of keep lists, three pull requests the listing next to pages; of the four specs
one can be migrated, one is unsigned, one is without metadata, one has a manifest
in a mirror below; of the three refs one is not protected and one can never be
cloned, and two stacks of `develop` build one hash, the first of them twice. Two
threads of one ref are not active at once there (each ref has one hash); the
theorem is about any number of them. In `JobFacts` a job can be retried as often
as its configuration allows (twice at most) while another job adds an attempt in
between. The theorems hold for all sizes.

The four violations are disagreements between the code and what the repository
says of it:

- **SyncHiddenRunning.** `dedupe_pipelines` keeps, per commit, the pipeline that
  was updated last. When a commit has two and the finished one was updated last,
  the running one is not seen and `develop` is pushed over it.
- **SyncNothingTested.** While no completed main pipeline is in the answer,
  `latest_tested_main_commit` is `None`; the first eligible pull request hands it
  to `subprocess.run`, and the `TypeError` ends the run before the push that
  would start a pipeline.
- **PublishStaleManifest.** A stack that rebuilds a hash between verification and
  copy gets a manifest signed with the CI key published.
- **LonePod.** The comment above `len(results) == 1` asks for more than one point in
  time, but `results` has one entry per pod. A pod that is alone on its node is
  refused however often it was scraped, and its job is recorded without node.

Further limits of the code show when a passing run is given more. They are why
some properties are not stronger.

- `PublishedIsIndexed` does not survive a run that dies between its copies and the
  index: later runs find nothing missing and return.
- `SignedIsPublished` needs every stack to be signed eventually: an unsigned copy in
  the first stack of the listing shadows a signed one in another.
- `StartedIsRecorded` speaks only of jobs whose result, and those of the jobs
  before them, had a row from the start. If not, two tasks may both insert the row
  of a result, after which `get_or_create` raises for every job with that result;
  and the backfill goes through jobs by id and ends at the first that raises. Two
  tasks of one job may both create its fact: the second dies of the conflict,
  which is not retried. A job whose second transaction fails for good keeps a fact
  without timings, and no backfill looks at it again
  (`job_processor/__init__.py:172`).
- `ActiveMirrorKept` does not speak of a pull request when a newer one is closed
  between two pages: it may move to the page that was read already, and then its
  mirror is deleted though it is open and active.
- `LoneNotInterrupted` speaks of a running pipeline that was on the page the job was
  answered. One that twenty newer pipelines have pushed off it is not seen, and the
  main branch is pushed over it.
- `SecondOnlyIfDisturbed` speaks of a head whose last push is older than an hour or
  has an event that names the branch. A push of many refs at once, which the
  synchronisation makes, can be reported without refs; a head pushed that way is
  looked at within the hour, and gets a second pipeline when GitLab has not created
  its first one by then.
- `AllMigrated` leaves out runs that share a working directory: a download that broke
  off, or a file already compressed in place, is taken for the spec's metadata and
  the migration never succeeds. It also leaves out specs with a manifest in a
  mirror below: the recursive listing takes that for theirs, so they count as
  migrated for ever. Keys and index follow only in a run that migrated something
  (`migrate.py:477`), so nothing is promised of them.
- `MigratedWhole` holds either way for what a manifest names. That the old signature
  was good is promised only where runs do not share a directory: the plain text that
  a bad signature left there (gpg writes it before it judges) is taken for verified
  by the next run.
- `TopDescribesArchive` promises signed metadata, of the build of the archive, where
  CI does not build the hash again. Otherwise layout 2 has the same race as layout 3
  (`PublishStaleManifest`): `publish.py:78-104` verifies a downloaded file and then
  copies what the keys hold by then. That metadata has its archive, of the same
  stack, holds with rebuilds too.
- `RefsGetPublished` promises the archive: a hash of layout 2 with one of its two
  objects at the top counts as present, so a copy broken off in between is not
  finished. It speaks of refs that stay active: one that gets quiet after a failed
  publication is not tried again. And it speaks of hashes whose first complete stack
  is signed: a later stack's signed copy does not help an unsigned first one.
- `TopIndexFollows` speaks of the top-level cache: a stack that left `develop` has no
  keep list any more, and an index that was left out of date there stays so.
- `StatusSettles` speaks of heads with one merge. Two merges of one head have two
  pipelines, and what is posted last wins. It also needs that every run, from one
  that ended within the hour after the pipeline last changed, synchronises the pull
  request. The pipelines of one that is held back (draft, checks, base, conflicts)
  are not asked for, and a pipeline that ends meanwhile is out of the answer later:
  GitHub may then show "pending" for a head whose pipeline has ended.
- `LatestFollows` is about `develop-latest`: when a run dies after moving it, the next
  one finds it in place and returns before the dated tag.
- `RetryInfoExact` assumes that a configuration has a number for `max`; one with null
  raises a `TypeError` (`utils.py:100`). A user's retry within the configured limit
  is not recorded as manual, so the property only says the converse.
- `retrieve_job_info` does not fall back on every error of a query: an HTTP error
  (`prometheus.py:136`), a pod without an expected label (`PodLabelNotFound`) and a
  node without one (a `KeyError`) end the task; in `PodUsage` they are `Raised`.
- `ClassedAlike` says that a deconflicted table has for each job the first class
  of the script's own order, and that this is the job processor's class where both
  know the classes the log matches and rank them alike. They do not in general:
  the script prefers `oom` to `build_error` (`error-classification.py:144-178`),
  the job processor `build_error` to `oom` (`error_taxonomy.yaml:282-345`), so a
  log with both is classed differently. Of a table saved with `--no-deconflict`
  nothing is said until it is deconflicted.

## 4. Fairness

- `FairSpec` of `SyncBridge`: the cron job is started every five minutes and takes
  its steps (`WF(SyncNext)`); GitLab runners start and finish pipelines. Nothing
  is assumed of authors, checks, operators or failures. `Abort` and `PushPartly`
  are bounded by `MaxOps`: a job that dies every time delivers nothing.
- `PublishFairSpec`: the job is started every three hours and takes its steps.
  `SigningFairSpec` adds that the signing job of every stack runs again after a
  failure. CI never owes a build.
- `BackfillSpec`: `backfill_jobs` is run again and again and tasks in progress go
  on. Nothing is assumed of webhooks, nor that a worker takes a message, so the
  property says what the backfill alone achieves while workers interfere.
- `Fairness` of `PipelineJobs` and of `MirrorJobs`: the job the behaviour is about is
  started again, by its schedule or, for a migration, by its operator, and takes
  its steps. For the janitors also: the synchronisation restores a branch that is
  gone, and an hour passes. Nothing is assumed of the jobs that delete branches and
  restart pipelines, nor of GitLab, people, Kubernetes and pipelines. Failures are
  bounded (`MaxJanFaults` and so on): a job that dies every time achieves nothing.
  `JobFacts` states safety only.

## 5. Theorems

Every safety property a passing run checks (type invariants, invariants, action
properties and the two refinements) is also a theorem, checked by TLAPS for all
values of the constants: `Spec => ...` of the very specification and definition the
run checks. They rest on the assumptions named in the modules, which every run
evaluates. Most say that bounds are naturals and that the "nothing" values are not
something. Those that say more:

| Assumption | What it says of the code |
|---|---|
| `PullAssumption` | pull requests are numbered and a page holds at least one |
| `RefsAssumption` | refs and what is built are among those there are; stacks are numbered in the order of the listing |
| `NoRebuild` in `PublishProofs` | no hash is built twice; only for the three theorems that name it |
| `RetryAssumption` | the rules hold a number and reasons GitLab knows; without a rule nothing is retried; `always`, `success`, `running` are not reasons |
| `PodAssumption` | the job's pod is a pod, and there are finitely many |
| `ErrorAssumption` | the script's taxonomy and order of deconfliction are sequences of classes, the second names them all and is as long as the first, one class stands for a missing log; the job processor's order names no class twice |

Within a module the argument has the same shape: an inductive invariant, a lemma
for each action that can disturb a part of it, and the property from it.

- `SyncBridgeProofs`: `TypeCorrect`; `Invariance` of `IInv`; from it
  `SafePushedOntoTested`, `SafePushedWasChecked` and `NeverMergedTwice`. The
  properties alone are not inductive: they speak of GitLab's branches, which
  `Push` copies from `outbox`, which `MergeLocally` fills from `tested` and
  `pulls`. `IInv` carries each fact along that path: what is in the outbox was
  checked and is onto a tested commit, `tested` is a commit of which a pipeline
  completed, every finished pipeline's commit is in `everTested`, and an outbox
  entry's head differs from the one in the snapshot `seen`, with what GitLab
  branches can have become since. `LonePipelineLeftAlone` is `Spec =>
  LoneNotInterrupted`. It needs `WatchHeld`: a pipeline that the answer showed running
  and that is the only one of its commit has set `busy` until the refs are fetched,
  and kept the main branch out of the outbox after that. Pipelines are only added, so
  one that is the only one at the push was the only one when the job asked.
- `PublishProofs`: `TypeCorrect`; `Invariance` of `IInv`, which says for each step
  of a task what has been verified and copied by then; from it `SafeBlobsSigned`
  and `SafePublishedOnce` with rebuilds, and, if no hash is rebuilt
  (`NoRebuild == MaxBuilds = 1`, an assumption of those theorems), `SafeTopSigned`,
  `SafeTopComplete` and `Refinement`, which is `Spec => ImplementsTopMirror`.
  `PublishStaleManifest` shows that the assumption cannot be dropped.
- `JobProcessorProofs`: `TypeCorrect`; `Invariance` of `IInv`; from it
  `Refinement`, which is `Spec => ImplementsFactStore`, with any number of
  workers, jobs, deliveries and faults. A commit shows as one step of `FactStore`
  only because of what the statements before it saw or wrote. `Written` bounds
  what the open transaction holds at each step, `Reached` says what the task may
  rely on there, also of rows that *others* committed, which stays true as rows
  are never deleted. Before the commit of timings that is a row for each spec of
  the build that names a compiler, and timings of specs with a row only.
  `Exclusive`, that no two transactions hold the same new spec or fact and none
  holds a committed one, makes the recording of a fact unique. It is kept by the
  waiting in `Insert`, and `Described` (each fact's spec has a row) by the
  commits.
- `PipelineJobsProofs`: `NoSecondPipeline` from `JanitorInv`. What the job read
  stays true of branches left alone whose last push was named or old: a push
  within the hour is one the job read (`EventsStand`), the head it listed is still
  the tip or the branch is gone (`HeadsStand`), and a head found without pipeline
  has none (`BareStands`). Each fact is about one of the three reads, and the
  conclusion needs all of them. `NothingElseRetried` from `BridgesStand`: a listed
  trigger whose id is still the last has the child it had in the listing, because
  every retry gives a new id. `OthersKept` from `CopyFollows`: a copy that is
  current is what the node carries, so every write by another must make the copy
  out of date, which is what the resource version in the patch does.
  `SnapshotTypeCorrect` is a type invariant. `StatusInvariance` says more: what
  GitHub shows for a head is the state of a pipeline that tests this head or a
  verdict (`ShownFits`), and a run that holds the pull request back has no state
  of a pipeline to post (`OneKind`).
- `PruneProofs`: `WantedStays` from `Merged`: a pipeline that was read has added
  what its successful generate jobs want, to the lists of their stacks and to
  `develop`'s; when all were read, the lists cover everything that is due.
  `ActiveSpared` from `PullInv`, for any size of a page. Its core is
  `FurtherDown`: a pull request that is steady and still to be taken off the map
  ranks below the pages read so far. Opening a pull request only increases ranks;
  closing one decreases those below it by one, and `MovesUp` is when that can
  carry one over the edge of a page. The cardinality lemmas above it say how ranks
  change.
- `LayoutProofs`: `Whole` from `WorkerInv`, which says what each step of a worker has
  uploaded, and that a worker past the verification has a spec whose old signature
  was good, unless runs share a directory. That needs a temporary directory to be
  empty when a run begins: within a run the text of a bad signature may lie there,
  but the task that left it is over. `DescribesArchive` from `PlaceInv` and `TaskInv`.
  The first says what CI keeps of a place in a stack: metadata is never of a later
  build than the archive, and a place that is not built again stays at its first
  build. The second follows a thread: the stack it has chosen held both objects, what
  it verified is still signed where nothing is built again, and the archive it copied
  is then of the build the metadata is of. Where CI builds again, only that metadata
  has an archive of the same stack is left.
- `JobFactsProofs`, four independent parts:
  - `RetryDataExact`. An attempt is judged when it fails, recorded later. `Rule` is
    the judgement as a function of the attempt's rank and the configuration, which
    nothing changes later; `RuleFollowed` says GitLab retried exactly the failed
    attempts it told to (with `OneRunning`: an attempt is over when the next of its
    job is made), `RecordedRight` that the row says what the rule says; and an attempt
    beyond the limit of the configuration, which is recorded as manual, was not made
    by GitLab or the pipeline.
  - `ShareIsAPart`. The arithmetic of `calculate_node_occupancy` for any number of
    pods and scrapes: the unit is at least the number of pods, so no share is zero
    (`UnitBounds`), and shares counted at points a step apart, the first one step
    after the start, sum to no more than the whole node over the duration
    (`SumBounds`). That is why one point has to be dropped.
  - `ScriptAgrees`. `MarkedWell`: while columns are cleared, a job still carries the
    first class of the script's order that its log matches, and nothing but that one
    once a class of its log has been gone through; a table saved with several marks
    starts there again. `FirstMatch` says which class is the first, for any order, and
    `SameFirst` that two orders that rank the matches alike have the same first.
  - `ParentsAreRight`. `TriggeredQueued`: a row of a triggered pipeline without
    parent is still in the queue of batches; so when the last statement makes all
    rows without one their own parents, none of them is of a triggered one.
- The compositions. `PartsOfPipelineJobs`, `PartsOfMirrorJobs` and `PartsOfJobFacts`
  say that a behaviour of the composition is one of each of its components: a
  step of one leaves the others as they are. From them and the theorems above
  follow `PipelineTypeCorrect`, `MirrorTypeCorrect` and the properties under the
  names of the runs (`SecondOnlyIfDisturbedHolds`, `MigratedWholeHolds`,
  `RetryInfoExactHolds` and so on).

Two facts about data needed induction: the sum of a sequence of any length and
the unit for any number of pods. The induction theorems of the
library take an operator as a parameter, which the provers here do not
instantiate. `JobFactsProofs` states it over sets instead: a nonempty set of
naturals has a least element (`LeastNat`), a set with zero and the successor of
each of its members holds all naturals (`AllNat`), and a recursive function on
them exists (`RecursionOnNat`).

Only model-checked is what needs fairness, as the prover has neither ENABLED nor
fairness rules here: `MainReachesGitLab`, `DeferralEnds`, `SignedIsPublished`,
`PublishedIsIndexed`, `StartedIsRecorded`, `OpenGetsTested`, `EmptyRetried`,
`LatestFollows`, `StatusSettles`, `NodeJoinsService`, `TopIndexFollows`,
`ClosedMirrorGone`, `AllMigrated` and `RefsGetPublished`. The violations
`SyncHiddenRunning`, `SyncNothingTested`, `PublishStaleManifest` and `LonePod` are
counterexamples TLC finds.

## 6. Plan

Done: all modules of section 2 with their runs, and a proof of each safety property
they check. Left, in this order:

1. A refinement from `PublishRefs` to an abstract top-level mirror of layout 2, in
   which a hash can stay half copied; `TopMirror` promises more than that layout
   keeps.
2. Safety lemmas under the liveness properties, for instance that a head found
   untested stays untested until a pipeline of it is created.
3. The refs `SyncBridge` pushes without a guard next to the main branch: tags and
   the other protected branches.
4. The section timers of a build log (`build_timings.py`, external format) and the
   tables of `JobProcessor` that a unique constraint protects.

## 7. Not modelled

- `cache-indexer`, `ci-key-clear`, `secrets-backup`: sequences of S3 or secret manager
  calls without a decision that depends on an earlier one.
- `gitlab-stuckpods` (a shell loop over `kubectl`), `validate_index.py` (reads an
  index and prints), the other scripts and `secrets/` (run by hand; they read and
  print, or copy one secret).
- The job log uploader of the analytics service, which `core/views.py` has switched
  off; section timers, the kind of a job and the columns that are copied.
- In the synchronisation: tags, protected branches other than the main one, and
  `--required-label`, which no cron job passes.
- Configuration (`terraform/`, `k8s/` manifests, `gitlab-docker/`), generated code
  (Django migrations), and the wording of statuses and log lines.

`PROJECT.json` lists every component with its reason.
