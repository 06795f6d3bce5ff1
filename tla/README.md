# Verification of Buildish Mammoth Cache

TLA+ models of the action in `src/src`, TLC runs that check them on small instances, and proofs
that TLAPS checks for every value of the constants. Paths below are relative to `src/`.

## 1. The system

The action restores a build tool's cache before a CI job's build and saves it afterwards. A job runs
it in two phases: **prepare** (`phases/prepare`) before the build and **finalize**
(`phases/finalize`) in the post phase, which the runner starts whatever happened in between. In the
distributed modes several *worker* jobs each upload the difference their build made as a delta
artifact (an *envelope*), and one *aggregator* job merges the deltas of the workers it depends on
into its own cache and saves the result as the next generation of the *base cache*.

| Component | Source | State it keeps | Operations | Talks to |
| --- | --- | --- | --- | --- |
| asynchronous work queue | `util/async-work-queue.ts` | queue array, cursor, active count, failure, settled | start, enqueue, settle, compact, answer | the manifest scan, by callbacks |
| phases | `phases/prepare/*`, `phases/finalize/*`, `cache/lifecycle.ts` | saved job state: manifest, lifecycle record | restore, select, apply, record; reconcile, upload, clean up, GC, save | everything below |
| delta discovery | `delta/discovery.ts` | none | select one envelope per worker | artifact store of the provider |
| base-cache service | `cache/service.ts`, `cache/backend.ts` | generations in the provider's store | restore, save | cache store of the provider |
| delta merge | `delta/apply.ts` | merged states, conflicts | merge packages, report conflicts | discovery, application |
| delta application | `delta/apply-execution.ts` | the files of the cache root | validate, look again, replace, delete, restore times | file system, build-tool daemons |
| delta packages | `delta/service.ts` | staged files, temporary directories | stage, upload, download, verify, clean up | artifact store |
| manifest difference | `cache/manifest-format.ts` | none | compare two manifests, read and write them | phases |
| manifest capture | `cache/manifest.ts` | none | scan partitions, capture stable entries | work queue, file system |
| timestamp GC | `cache/gc.ts` | the files of the cache root | scan, delete, prune directories | file system, build-tool daemons |
| single-run guard | `guard/job-single-run.ts` | guard file, saved state | claim, decide | both phases |
| build-result capture | `build-tool/gradle/build-results.ts`, `build-result-capture-scripts.ts` | capture files in `init.d`, result files of builds | install, record (in Gradle), report, remove | both phases, Gradle builds |
| cache model and keys | `cache/model.ts` | none | derive partitions, prefixes, keys anew in each phase | service |
| bootstrap, configuration | `phases/bootstrap.ts`, `config/*` | none | resolve and validate inputs | phases |
| provider | `ci/github/*` | none of its own | adapt client libraries | phases |
| wrapper provisioning | `build-tool/gradle/wrapper/*` | shared downloads, wrapper jars and their metadata files | download, verify, place, retain | servers, file system, build-tool adapter |
| job summary and log | `phases/finalize/reporting.ts` | none | collect issues, derive the overall status, format | finalize |
| build-tool adapters, utilities, scripts | rest | none | describe, format, helpers | — |

What is hard in it:

- **Concurrency.** The work queue's processors settle in any order and enqueue more. A build-tool
  daemon may write to the cache while deltas are applied, files are hashed or garbage is collected.
  Several uses of the action in one job race for the guard. Other workflow runs publish to the same
  lineage.
- **Failure.** A job may die between any two steps and still get its post phase, or not. A save or an
  upload may report failure with or without having happened. Any file operation may fail half way
  through a plan.
- **Order.** The merge is pairwise in the order of the dependent jobs. Consumed envelopes are deleted
  before the save. Times are read long before they are used.
- **The steps between the phases** are not the action's: they change managed files and the environment,
  run builds that load the installed capture files, and other jobs publish meanwhile.
- **Reruns.** Every job may be rerun in a later attempt, with artifacts, generations and, on persistent
  runners, guard files of earlier attempts still there.

What makes each component correct is stated as the properties of section 3; `PROJECT.json` lists the
hazards, each at its line, with the properties that would notice it going wrong.

## 2. Modules

| Module | Models | Composes |
| --- | --- | --- |
| `WorkPool` | what callers of the work queue rely on: a bag of items, at most one failure, one answer when nothing is in flight | |
| `AsyncWorkQueue` | `processAsyncWorkQueue` with its array, cursor, compaction and counter | refines `WorkPool` |
| `AggregationStore` | what the repository sees of a distributed run: envelopes and complete generations appear, each in one step | |
| `DistributedRun` | prepare and finalize of all jobs over rerun attempts, discovery, the decision to save, the stores | refines `AggregationStore` |
| `DeltaMerge` | `mergeDeltaArtifactPackages` | |
| `DeltaApply` | `applyMergedDeltaPlan` against a daemon | |
| `BaseCache` | the provider's generations, restore by family and lineage, the decision to publish and the save of `cache/*` | |
| `CacheLifecycle` | one job's base cache through bootstrap, prepare, the build, finalize and reruns | extends `BaseCache` |
| `SingleRunGuard` | guard and entry points of one job's invocations | |
| `BuildCapture` | capture files, the Groovy they contain as builds run it, and the report | |
| `JobCapture` | the invocations of one job, which install, report and remove the capture around its builds | extends `SingleRunGuard` and `BuildCapture` |
| `PartitionScan` | `scanCachePartitions`: patterns, roots, the walk and the captures, against a daemon | |
| `TimestampGc` | `collectTimestampCacheGarbage` against a daemon | extends `PartitionScan` |
| `FileCapture` | `captureStableFileEntry` and `copyAndVerifySourceFile` of one file against a daemon | |
| `ManifestDelta` | `computeCacheDelta` over two listings of a partition | |
| `DeltaEnvelope` | staging, upload, download and verification of delta packages, and their directories | |
| `WrapperProvision` | `provisionWrapperJars` over several properties files and runs | |
| `MC*` | the instances TLC checks | |
| `*Proofs` | inductive invariants, theorems and proofs of one component, or of two that belong together (section 4) | extend the modules they are about |

How state and actions correspond to the code:

**AsyncWorkQueue.** `queue`, `cursor` and the active count are the closure's variables. The synchronous
`schedule` is an operator: every action that enters the code (`Enqueue`, `Fulfil`, `Reject`, and the
`finally` callback) ends with it, since JavaScript runs it to completion. A processor's settlement
and its `finally` callback are separate microtasks, hence separate steps. The compaction threshold
is a constant (4096 in the code).

**DistributedRun.** A cache content maps every job to the version of the single file that job builds: 0,
the attempt, or `Foreign`. A build writes its job's file, deletes it or leaves it. An envelope carries the change
of its worker's file, `from` and `to`; equal ones make an empty envelope, and `to = 0` is a deletion. `pc` is a job's phase; `Crash` and a failing prepare lead to the post
phase or past it. Whatever a runner holds is lost at the end of its job. Restore hits the newest
generation or misses. A save or an upload that is reported as failed may have happened. The lifecycle
record is the decision data that prepare saves and finalize reads. Writing single files and metadata
are abstracted to one `ApplyEntry` per change; they are the subject of the next two modules.

**DeltaMerge.** The plan maps a path to its entry, its accepted previous states and the package whose
payload backs it. `MergePackage` folds in one package as the code's loop does; packages are chosen
when they are merged, so every order of every set is covered. A `content` stands for digest, size and
mode.

**DeltaApply.** Every `await` of the code that a daemon can slip into is a step boundary: inspection of
one target, the second look, staging of the payload, the replacement (or the removal and second
rename of platforms that refuse to replace), the restored times. Times count half milliseconds, since
manifests keep fractions and `new Date` drops them. `ApplyAgain` applies the plan to the same root
after it was done or failed.

**BaseCache and CacheLifecycle.** A content is the set of managed files present, and stands for its digest.
Of a cache family only the Java major varies, which every phase detects anew; `NoJava` is none or one
that cannot be parsed. A generation is its family, lineage, planned id and content, which together are its key.
Restore takes the newest generation of the current lineage, else of the default branch's; an archive is
laid over what is there, and a restore that stops half way leaves any part of one. `found` is what prepare holds
in memory, `lifecycle` the record it saves for finalize. `Prune` and `RestoreAgain` are the two further steps of
`restore-cleanup-mode`. Between the phases, `ChangeManagedFiles` changes files and Java version at will. Finalize
compares the identities, collects garbage (any files may be old), decides, saves, and
`Summarize` derives the status that the job summary shows. `exact` remembers that the
managed files were empty or pruned before the restore: without that a restore yields the union of
a generation and what was there, which no generation has, and which the code does not regard as new.
Creating a key and filling it is one step; the store evicts nothing, for which a miss stands.

**SingleRunGuard.** Exclusive creation of the guard file is one step; saving the flag and saving the owner
token are two, and the main phase may die between any of them. A rerun clears the saved state and
keeps the guard files.

**BuildCapture and JobCapture.** Prepare writes the init script and then the plugin; finalize removes both
after reading the results. Each may fail, which the code only warns of, and the process may die. A build runs
the installed Groovy: it draws an id, or takes that of the configuration cache it reuses, and writes
result and scan files under it unless they exist. `fault` is what was warned of, or died, since both files
were last in order. `JobCapture` lets several invocations run these between the guard's steps; `step` is the
progress within a phase of the guard, and the steps of the job are steps of the guard or leave its variables alone,
which is proved.

**PartitionScan.** The patterns are expanded in order, each to the directories that exist at that moment; a root
is walked to its end before the next. The items of a walk are done in any order, which is what the
work queue's concurrency comes to. They form a set, which loses nothing since none is queued twice (`SideBySide`). A file's checks, its capture and the entry in the
list are separated where the code awaits: `Visit` checks, `CaptureEntry` reads and lists. `listed` counts, so that a path listed
twice shows. A path of two partitions refuses the scan. The expansion of one pattern is one step; its
wildcards are abstracted to the set of directories it may name.

**TimestampGc.** A file is recent or not, and the scan remembers which files it found recent. The scan's steps, the check that a path is still a regular file, the
deletion and every `rmdir` are steps of their own; another process makes directories, writes, reads
and removes files, and removes empty directories, between them.

**FileCapture.** One file, read in two parts so that a read can be torn. `LookBefore` and `LookAfter` are the two
`lstat` calls around a read, `Open` the descriptor with its `stat`, `handle` the file a descriptor still
reads after the path got another one. The clock that stamps change times may stand still between two
changes, and an inode may be reused; the history variable `raced` says that a change came within the
tick of the change before it, which no look at the file can tell, and which both properties therefore
leave open. Staging of the same file follows.

**ManifestDelta.** A path has a version (digest, size, mode and time) or none in each manifest; `Load` is the
reader of the prepared manifest, which refuses entries that are not strictly sorted; the three branches
of the loop are three actions. `localeCompare` calls some different names equal (canonically equivalent
ones, for instance), so the order is a `Rank` that may coincide. Where it does within a manifest the reader refuses
it; where it does between the two, the walk pairs two different files. `NamesDiffer` excludes that
from both properties.

**DeltaEnvelope.** A worker's package is its manifest, its metadata and its payload files; a digest stands for
what it was computed from. Between upload and download parts may be missing, altered, or those of
another package; the store reports a hash or none. A cache identity has a family and a rest (runner, ref, lineage,
partition layout), and a worker may have another one than the aggregator. The artifact's name covers
producer, family and manifest (`src/delta/service.ts:306-321`); of the rest the metadata is the only
witness, and damage may alter it. So `AcceptedIsStaged` promises the family of what is applied always,
the rest for artifacts that are undamaged or whose store reports a hash. A temporary directory is a pair of the job that made it and the
worker it belongs to; every removal may fail, and is then reported.

**WrapperProvision.** A checksum and a signature stand for the bytes they are of, so that every comparison and
verification is a comparison of contents. The loop over the wrappers is `phase` and `current`; the
promises that wrappers of one version share are `fetches`, which proceed beside the loop; the two
metadata files are placed side by side, each by the steps of `placeFileAtomically`, and one goes on when
the other has failed. The process may die between any two steps, and another run meets whatever is
left. Two versions that name one source tag (such as `8.5` and `8.5.0`) would share the jar's download
only; the model lets versions share nothing.

## 3. Runs

All runs are exhaustive. The passing ones:

| Run | Instance | What it shows |
| --- | --- | --- |
| `async_work_queue` | 5 items, 2 of them queued at the start, concurrency 2, compaction threshold 2 | `BoundedConcurrency`, `ResolvedMeansAllProcessed` (nothing discovered is dropped by compaction or an early answer), `EventuallySettled`, and the refinement `ImplementsPool` (in particular, nothing starts after a failure and the answer waits for what is in flight) |
| `distributed_run` | 2 workers, 2 attempts, 1 foreign generation | `PublishedIsComplete` (no partial aggregation is published), `DroppedOnlyAfterEmptyMiss` (an aggregator that succeeds has made all it consumed durable, but for deletions consumed after a missed restore with nothing to save), `NoNewerEnvelopePassedOver`, and the refinement `ImplementsAtomicStore` |
| `delta_merge` | 1 path, 3 packages, 2 contents, 2 times, 2 layouts | `PayloadBacksEntry`, `NewestIsApplied`, `LosersPermitNothing`, `StrictMergeIsOrderFree` |
| `delta_apply` | 2 paths, 2 foreign writes, 2 applications | `RejectedPlanChangesNothing`, `LostOnlyAfterSecondLook`, `DoneMeansDesired` |
| `base_cache` | 2 files, Java 17 or none, 1 generation of other jobs, 2 attempts | `ExactBase` (the recorded base is a generation, also after the second restore), `UnsavedIsKnown`, `SuccessIsKept` (a green summary means that the state is kept), `SavedUnderItsBase` (no files cross families) |
| `job_capture` | 2 invocations, 2 attempts, 2 builds | `OneOwner`, `RejectedByAnother`, `OwnerFinalizes`; `BreakageIsAnnounced`, `NoHookLeftBehind`, `ReuseExplainsLoss` |
| `timestamp_gc` | 3 files in 2 nested directories, one protected, 2 partitions that overlap for one file, 3 patterns, 3 foreign actions | `EachPathOnce`, `StillFilesAreListed`, `RecentLostOnlyAfterScan`, `QuietGcIsComplete` |
| `file_capture` | 2 byte values in 2 parts, 2 capture attempts, 3 changes, 2 ticks | `EntryWasReal`, `PayloadWasReal` (no torn content is recorded or staged) |
| `manifest_delta` | 4 paths, two of which collate equal, 2 versions, every pair of manifests and listings | `DeltaIsDifference`, `DeltaIsReadable` |
| `delta_envelope` | 2 workers, an empty, a deleting and a mixed manifest, 3 identities of 2 families, 2 damages | `AcceptedIsStaged`, `NoDirectoryLeft` |
| `wrapper_provision` | 2 wrappers of 2 versions, good and bad bytes, 2 attempts per download, 2 runs | `OnlyVerifiedIsPlaced`, `SuccessMeansRetained` |

Why the bounds suffice. With a threshold of 2 and five items the queue compacts with items left and
with none, before, between and after starts. Two workers are one whose envelope is passed over and one
whose is not; two attempts are an earlier and a later one; a foreign generation can come at any point.
The merge treats paths independently, so one path is enough, and three packages give every order of a
tie and a winner. Two paths let one target of a plan be changed while the other is looked at. Two
attempts let a guard file outlive its attempt, and a capture left behind meet the next one; two builds share an id or do not. Two
files are a cache that grew, shrank or was exchanged, and one foreign generation comes before, between or after
the restores, in this or another family, with the job's own planned id or another. One
file of the scan is in the overlap of two patterns of a partition, another in that of two partitions; whether it exists decides if the scan is refused. Three changes are a torn read, its repair and one
more during staging; the second attempt of a capture is like every further one. Four paths let
additions, deletions, changes and a pair of equal rank meet in one walk. Two damages let a package's
metadata be replaced together with its manifest, or two packages be damaged. Two wrappers share their
downloads or do not, and a second run meets every state the first one can leave. Symmetry is used only in
runs without liveness properties, over sets whose members no definition tells apart. Runs whose system stops by design
(all jobs ended, no attempt left; the plan is done) set `CHECK_DEADLOCK FALSE`.

One run TLC must find violated: it states what a document says and the code does otherwise;
`PROJECT.json` quotes the lines:

| Run | What happens |
| --- | --- |
| `envelopes_deleted_before_save` | finalize deletes the consumed envelopes, then fails to save: the changes are nowhere, and a rerun of the aggregator finds no envelope |

More behaviours of the code are worth knowing. The models have them, without a run of their own, unless noted:

- A worker whose build failed still uploads an envelope, an empty one, which the aggregator takes
  (`docs/architecture/delta-protocol.md:198-199` names the case).
- An aggregator whose restore missed, and whose workers only deleted files, finds the files absent: the deletions are no
  mutations (`src/delta/apply-execution.ts:191-198`), an empty cache after a miss is not saved (`src/cache/lifecycle.ts:65-71`,
  and `docs/architecture/base-cache.md:111` says so), and the job succeeds with the envelopes deleted. A generation that
  still has the files may be restored later. It is the one exception in `DroppedOnlyAfterEmptyMiss`.
- Two older states of a path that tie refuse a merge although the path has one newest state.
- A file written behind the second look, while the payload is staged, is replaced without notice, which
  is all `LostOnlyAfterSecondLook` leaves open.
- A modification time with a fraction of a millisecond is restored without it (`src/delta/apply-execution.ts:418`);
  the same plan, applied again, is then rejected, which `DoneMeansDesired` allows. `test/delta/apply.test.ts:135` covers whole milliseconds.
- A download that times out, or breaks off, while its body is read fails at once, since only the request is retried
  (`build-tool/gradle/wrapper/download.ts:115-122` calls a timed-out attempt eligible for retry).
- After `restore-cleanup-mode` the output `restored-cache-key` names the first restored generation, although
  the files are those of the second restore (`src/phases/prepare/flow.ts:374`), which may be a newer one.
- A restore over managed files that were there already leaves a union that no generation has, and that
  finalize calls unchanged; hence `exact` in three properties.
- A build that reuses the configuration cache keeps the stored invocation id: its result is not written when the
  file exists, and its scan may join the earlier build (`src/build-tool/gradle/build-result-capture-scripts.ts:127-131`, `:291-295`).
- A capture whose init script was written and whose plugin was not breaks every Gradle build of the job,
  while the log says that reporting is skipped (`src/phases/prepare/flow.ts:127`).
- A finalize that throws for a missing record or on drift does so before the report, so that the capture files stay
  installed (`src/phases/finalize/flow.ts:88`, `:96`).

**Fairness.** `AsyncWorkQueue` assumes that every processor settles and that the event loop runs a ready
callback; `JobCapture` that the runner runs the main and the post phase of every
invocation to its end, which is weak fairness of each invocation's steps. Nothing requires a crash, a failure, a rerun, a build, a foreign action or an enqueue to happen. The
other modules state safety only and assume no fairness.

## 4. Proofs

For every specification below three facts are proved for all values of the constants, from the named
`ASSUME`s of the component's modules and nothing else: the initial states satisfy the inductive invariant, every step
(and stutter) preserves it, and it implies each property listed. The invariant is called `IInv`, or after the
component where one module of proofs has two of them.

| Module | Properties proved | Why the invariant is stronger |
| --- | --- | --- |
| `AsyncWorkQueueProofs` | `TypeOK`, `BoundedConcurrency`, `ResolvedMeansAllProcessed`, `SettledMeansQuiet`, `NoStartAfterFailure`, and the initial states and steps of `ImplementsPool` (`SpecPoolSteps`) | it counts the items in flight, and splits every item handed over into dropped by the cursor, waiting, in flight and processed |
| `DistributedRunProofs` | `TypeOK`, `PublishedIsComplete`, `ReadOnlyLeavesNoTrace`, `NoNewerEnvelopePassedOver`, `DroppedOnlyAfterEmptyMiss` and the refinement `ImplementsAtomicStore` | it follows the selected changes from selection over application into the record and the cache the build then sees: a job past "prepared" has a cache with every change of the envelopes in its record. Three more parts rest on it: no worker runs while the aggregator does (`SelectionInv`); what was restored and not mutated is still a generation, and the record knows whether it was restored (`DurableInv`); envelopes without a change leave what the base has (`Provenance`) |
| `DeltaMergeProofs` | `TypeOK`, `PayloadBacksEntry`, `NewestIsApplied`, `LosersPermitNothing`, `StrictMergeIsOrderFree` | every conflict is justified by two packages that disagree, and every merged package is covered by the plan or by a conflict |
| `DeltaApplyProofs` | `TypeOK`, `RejectedPlanChangesNothing`, `LostOnlyAfterSecondLook`, `DoneMeansDesired` | nothing is written before the last inspection; a path that is neither pending, waiting, being replaced nor disturbed is in its desired state |
| `JobProofs`, of `JobCapture` | `OneOwner`, `RejectedByAnother`, `BreakageIsAnnounced`, `NoHookLeftBehind`, `ReuseExplainsLoss`, and that every step of the job is one of the guard or leaves it alone (`SpecGuard`) | `JobInv`: an invocation past the creation of the file, or with a token, owns the guard of the attempt, and later attempts have no owner yet; so only one is at its capture, no fault means both capture files or none except while it is installing, and every file is of a build that ran under its id |
| `JobProofs`, of `CacheLifecycle` | `ExactBase`, `UnsavedIsKnown`, `SuccessIsKept`, `SavedUnderItsBase` | `LifecycleInv`: generations are never removed or replaced, so what was restored stays in the store, and in the family that the record names whatever the environment becomes; between the comparison and the end the two families are equal; success has few reasons, and each leaves the managed files published or none |
| `CaptureProofs`, of `FileCapture` | `TypeOK`, `EntryWasReal`, `PayloadWasReal` | `IInv`: as long as no change raced, an unchanged change time means an unchanged file, and what was read so far is a prefix of the bytes of the file that was opened |
| `CaptureProofs`, of `PartitionScan` and `TimestampGc` | `EachPathOnce`, `StillFilesAreListed`, `RecentLostOnlyAfterScan`, `QuietGcIsComplete`; beyond the runs `DeletesOnlyManaged`, and `SideBySide` (no item of a walk is above another or queued twice) | `GcInv`: a file that nobody touched is listed for every pattern before the last that covers it, and for the last one is listed or below something still to be walked; a file being captured is in no list; what is queued is below a root of its pattern; candidates of a quiet run are still to be deleted or gone, and a directory above a deleted one is to be pruned, or not empty with nothing left to prune below it |
| `DeltaPackageProofs`, of `ManifestDelta` | `TypeOK`, `DeltaIsDifference`, `DeltaIsReadable` | `IInv`: the entries so far are the difference of what lies before both indices, and rank below everything after them |
| `DeltaPackageProofs`, of `DeltaEnvelope` | `AcceptedIsStaged`, `NoDirectoryLeft` | `EnvelopeInv`: an artifact keeps the name its worker gave it whatever part of it is damaged, so that what matches its name is of the worker, its manifest and its family; an undamaged artifact has the worker's identity; merging starts with the packages of all workers; every temporary directory belongs to a phase that has still to remove it, or was reported |
| `WrapperProvisionProofs` | `TypeOK`, `OnlyVerifiedIsPlaced`, `SuccessMeansRetained` | what is to be put in place was verified when its phase was entered, a temporary file that is renamed holds it, wrappers before the current one are complete, and temporary files of the run belong to unfinished placements |

`SettledMeansQuiet` and `NoStartAfterFailure` follow from the refinement `ImplementsPool` and have no run of their own.

A type invariant is part of every inductive invariant; only three runs check it as a property of their own.

The proofs about the scan rest on facts about the directory tree. `Ancestors` is not defined by recursion but as what
every set has that holds the parent and, of each member, the parent; `ScanAssumption` says of the tree only that
from every directory the parents lead to the root, for which it demands that every non-empty set of directories closed
under parents contains the root. That an ancestor's ancestors are ancestors, that nothing is its own, and that between a directory and
a file below it there is a child of that directory (`StepDown`) follow without induction.

Every safety property that a passing run checks has a theorem. Only model-checked: liveness under fairness
(`EventuallySettled`, `OwnerFinalizes`, and the fairness of `ImplementsPool`), which the prover cannot do.

## 5. Plan, and what is not modelled

Next: what the models promise each other. `DistributedRun` applies changes one by one where `DeltaMerge` and `DeltaApply` have
the files, and `FileCapture` has the entry that `PartitionScan` lists; that the detailed modules implement the
step of the coarser one is argued in section 2 and not proved. Three hazards have no property that would notice them: the
envelope of an earlier attempt that a failing rerun of its worker leaves in the store (`src/delta/discovery.ts:123`), a change
of a file within the tick of its previous one (`src/cache/manifest.ts:555`), and the lost fraction of a modification time
(`src/delta/apply-execution.ts:418`). Three more are covered in part only: `BreakageIsAnnounced` asks for a warning and not for
its wording, `NoHookLeftBehind` is about a finalize that gets to its report, and `ReuseExplainsLoss` allows the loss that a
reused id causes.

Abstractions that bound what the runs say:

- `CacheLifecycle` has caching enabled and no dependent deltas; with those, the phases are in `DistributedRun`. Nothing but
  the action touches managed files while a phase runs, so a daemon's write between the final capture and the
  archive is not in it. The lineages of the current ref and of the default branch never overlap.
- `BuildCapture` assumes that `init.d` is in no managed partition, that a rerun starts with an empty `RUNNER_TEMP`, and
  Gradle versions that the capture supports.
- `PartitionScan` has regular files only: the code refuses links that it meets in a walk, and skips other special files.
- The file-level modules leave out links, directories in place of files and path validation.

Left out for good: configuration parsing and validation (`config/*`) and the static descriptions of the
build-tool adapters (no state over time), rendering of keys, tables and log lines (formatting), the parsing of properties
files, cryptography and archive formats (data formats and external tools), provider clients (external; their
contracts are the external actions of the modules), entry points (they wire the phases together), scripts and release tooling (not part of the action).
