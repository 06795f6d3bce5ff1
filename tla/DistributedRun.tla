--------------------------- MODULE DistributedRun ---------------------------
(***************************************************************************)
(* One workflow run with distributed worker jobs and an aggregator job,    *)
(* over its rerun attempts: the prepare and finalize phases of every job   *)
(* (src/src/phases/prepare/flow.ts, src/src/phases/finalize/flow.ts), the  *)
(* selection of worker envelopes (src/src/delta/discovery.ts), the         *)
(* decision to publish (src/src/cache/lifecycle.ts) and the base-cache     *)
(* service (src/src/cache/service.ts), against the artifact store and the  *)
(* cache store of the CI provider.                                         *)
(*                                                                         *)
(* A cache content maps every job to the version of the one file that job  *)
(* builds: 0 when absent, the attempt that built it, or Foreign when       *)
(* another run did.  A worker's delta is the change it made to its file:   *)
(* an addition, a modification or, with version 0, a deletion.             *)
(* Overlapping deltas, file metadata and the mechanics of writing one file *)
(* are in DeltaMerge and DeltaApply.  Configuration: cache-gc-mode and     *)
(* restore-cleanup-mode are off, and job names are unique.                 *)
(***************************************************************************)
EXTENDS Integers, Sequences, FiniteSets

CONSTANTS
  Worker,       \* the dependent-jobs of the aggregator
  Aggregator,   \* the aggregator job
  MaxAttempt,   \* bound: attempts of the workflow run
  MaxForeign    \* bound: generations other runs publish meanwhile

ASSUME RunAssumption ==
  /\ IsFiniteSet(Worker) /\ Aggregator \notin Worker
  /\ MaxAttempt \in Nat \ {0} /\ MaxForeign \in Nat

Job == Worker \cup {Aggregator}
Foreign == MaxAttempt + 1
Version == 0 .. Foreign
Content == [Job -> Version]
Empty == [j \in Job |-> 0]

\* One uploaded delta artifact; from = to is an empty envelope.
Envelope == [worker : Worker, attempt : 1 .. MaxAttempt, from : Version, to : Version]
IsEmptyEnvelope(e) == e.from = e.to

\* The persisted lifecycle record, as far as finalize uses it.
Record == [restored : BOOLEAN, pre : Content, consumed : SUBSET Envelope, mutations : Nat]
NoRecord == [restored |-> FALSE, pre |-> Empty, consumed |-> {}, mutations |-> -1]

VARIABLES
  attempt, readOnly,
  pc,           \* phase of every job in its latest execution
  cache,        \* the job's local cache directory
  restored,     \* the base cache was hit
  record,       \* lifecycle record in the job's state, or NoRecord
  selected,     \* aggregator: the downloaded envelopes
  todo,         \* aggregator: selected changes not yet written to its cache
  mutations,    \* aggregator: how many changes its plan mutates
  artifacts,    \* delta artifacts in the provider's store
  generations,  \* base-cache generations of the lineage, oldest first
  uploaded,     \* history: every envelope ever uploaded
  lastRun       \* history: the attempt of each job's latest execution

runVars == <<attempt, readOnly>>
jobVars == <<pc, cache, restored, record>>
planVars == <<selected, todo, mutations>>
storeVars == <<artifacts, generations, uploaded>>
vars == <<runVars, jobVars, planVars, storeVars, lastRun>>

\* The post phase runs from "built", and from "broken" when the build failed.
Phase == {"idle", "restored", "selected", "applying", "prepared", "built", "broken",
          "cleaned", "succeeded", "failed", "buildFailed"}

Ended(j) == pc[j] \in {"succeeded", "failed", "buildFailed"}
PostReached(j) == pc[j] \in {"built", "broken"}

Goto(j, phase) == pc' = [pc EXCEPT ![j] = phase]

\* The job ends, and what its runner held is gone.
End(j, result) ==
  /\ Goto(j, result)
  /\ cache' = [cache EXCEPT ![j] = Empty]
  /\ restored' = [restored EXCEPT ![j] = FALSE]
  /\ record' = [record EXCEPT ![j] = NoRecord]

-----------------------------------------------------------------------------
Init ==
  /\ attempt = 1 /\ readOnly \in BOOLEAN
  /\ pc = [j \in Job |-> "idle"]
  /\ cache = [j \in Job |-> Empty] /\ restored = [j \in Job |-> FALSE]
  /\ record = [j \in Job |-> NoRecord]
  /\ selected = {} /\ todo = {} /\ mutations = 0
  /\ artifacts = {} /\ generations = <<>> /\ uploaded = {}
  /\ lastRun = [j \in Job |-> 1]

\* The aggregator needs every worker and runs whatever their result.
CanStart(j) == pc[j] = "idle" /\ (j = Aggregator => \A w \in Worker : Ended(w))

\* prepare: claim, bootstrap and restoreBaseCache, which hits the newest
\* generation unless it was evicted or the service is unavailable.
StartPrepare(j) ==
  /\ CanStart(j)
  /\ Goto(j, "restored")
  /\ \/ UNCHANGED <<cache, restored>>
     \/ /\ generations # <<>>
        /\ cache' = [cache EXCEPT ![j] = generations[Len(generations)].content]
        /\ restored' = [restored EXCEPT ![j] = TRUE]
  /\ UNCHANGED <<runVars, record, planVars, storeVars, lastRun>>

\* prepare throws; the build is skipped and the post phase still runs.
FailPrepare(j) ==
  /\ pc[j] \in {"restored", "selected", "applying"}
  /\ Goto(j, "built")
  /\ UNCHANGED <<runVars, cache, restored, record, planVars, storeVars, lastRun>>

Eligible(w) == {e \in artifacts : e.worker = w /\ e.attempt <= attempt}
\* Mutants of Newest and Unambiguous: the oldest envelope is taken, a missing
\* one is skipped.
MutOldest(w) == {e \in Eligible(w) : \A f \in Eligible(w) : f.attempt >= e.attempt}
MutAtMostOne(envelopes) == Cardinality(envelopes) <= 1

Newest(w) == {e \in Eligible(w) : \A f \in Eligible(w) : f.attempt <= e.attempt}
Unambiguous(envelopes) == Cardinality(envelopes) = 1

\* selectDeltaArtifactsForProducerJobs and the downloads: one unambiguous
\* envelope of the newest eligible attempt for every worker, or failure.
SelectEnvelopes ==
  /\ pc[Aggregator] = "restored" /\ ~readOnly
  /\ \A w \in Worker : Unambiguous(Newest(w))
  /\ selected' = UNION {Newest(w) : w \in Worker}
  /\ Goto(Aggregator, "selected")
  /\ UNCHANGED <<runVars, cache, restored, record, todo, mutations, storeVars, lastRun>>

\* validateDeltaPreconditions: every target is in the state the worker
\* started from or already in the desired one, before any is changed.
ValidatePlan ==
  LET own == cache[Aggregator]
      changes == {e \in selected : ~IsEmptyEnvelope(e)}
  IN /\ pc[Aggregator] = "selected"
     /\ \A e \in changes : own[e.worker] \in {e.from, e.to}
     /\ todo' = {e \in changes : own[e.worker] # e.to}
     /\ mutations' = Cardinality(todo')
     /\ Goto(Aggregator, "applying")
     /\ UNCHANGED <<runVars, cache, restored, record, selected, storeVars, lastRun>>

ApplyEntry(e) ==
  /\ pc[Aggregator] = "applying" /\ e \in todo
  /\ cache' = [cache EXCEPT ![Aggregator][e.worker] = e.to]
  /\ todo' = todo \ {e}
  /\ UNCHANGED <<runVars, pc, restored, record, selected, mutations, storeVars, lastRun>>

AppliesDeltas(j) == j = Aggregator /\ ~readOnly

\* Mutant of PlanApplied: prepare goes on after an error half way.
MutPlanAppliedInPart == TRUE

PlanApplied == todo = {}

\* captureCacheManifest, persistPreBuildCacheManifest and
\* persistCacheLifecycleRecord end prepare.
PersistRecord(j) ==
  /\ IF AppliesDeltas(j) THEN pc[j] = "applying" /\ PlanApplied ELSE pc[j] = "restored"
  /\ record' = [record EXCEPT ![j] =
       [restored |-> restored[j], pre |-> cache[j],
        consumed |-> IF AppliesDeltas(j) THEN selected ELSE {},
        mutations |-> IF AppliesDeltas(j) THEN mutations ELSE 0]]
  /\ Goto(j, "prepared")
  /\ UNCHANGED <<runVars, cache, restored, planVars, storeVars, lastRun>>

\* The steps between prepare and the post phase: the build writes its own
\* file, deletes it or finds it up to date, and succeeds or fails.  The post
\* phase runs in both cases and does not ask which it was.
Build(j) ==
  /\ pc[j] = "prepared"
  /\ \/ UNCHANGED cache
     \/ \E version \in {attempt, 0} : cache' = [cache EXCEPT ![j][j] = version]
  /\ Goto(j, "built") \/ (j \in Worker /\ Goto(j, "broken"))
  /\ UNCHANGED <<runVars, restored, record, planVars, storeVars, lastRun>>

-----------------------------------------------------------------------------
\* reconcileCacheLifecycle: finalize refuses to go on without a record.
FinalizeWithoutRecord(j) ==
  /\ PostReached(j) /\ record[j] = NoRecord
  /\ End(j, "failed")
  /\ UNCHANGED <<runVars, planVars, storeVars, lastRun>>

\* Mutant of EnvelopeOf: the attempt is counted from the next one.
MutEnvelopeOfNextAttempt(w) ==
  [worker |-> w, attempt |-> lastRun[w] + 1, from |-> record[w].pre[w], to |-> cache[w][w]]

EnvelopeOf(w) ==
  [worker |-> w, attempt |-> lastRun[w], from |-> record[w].pre[w], to |-> cache[w][w]]

Store(e) == artifacts' = artifacts \cup {e} /\ uploaded' = uploaded \cup {e}

\* The result of a job whose post phase succeeds.
JobResult(j) == IF pc[j] = "broken" THEN "buildFailed" ELSE "succeeded"

\* uploadFinalizeArtifact: a writable worker uploads its envelope, also an
\* empty one, whatever the outcome of its build.  The upload may throw, with
\* or without the artifact having reached the store.
FinalizeWorker(w) ==
  /\ PostReached(w) /\ record[w] # NoRecord
  /\ \/ readOnly /\ End(w, JobResult(w)) /\ UNCHANGED <<artifacts, uploaded>>
     \/ /\ ~readOnly /\ Store(EnvelopeOf(w))
        /\ \E result \in {JobResult(w), "failed"} : End(w, result)
     \/ ~readOnly /\ End(w, "failed") /\ UNCHANGED <<artifacts, uploaded>>
  /\ UNCHANGED <<runVars, planVars, generations, lastRun>>

\* cleanupConsumedDeltaArtifacts runs first; every deletion may fail alone.
CleanupConsumed ==
  /\ PostReached(Aggregator) /\ record[Aggregator] # NoRecord
  /\ \E deleted \in SUBSET record[Aggregator].consumed : artifacts' = artifacts \ deleted
  /\ Goto(Aggregator, "cleaned")
  /\ UNCHANGED <<runVars, cache, restored, record, planVars, generations, uploaded, lastRun>>

\* Mutant of GenerationRequired: only what changed after prepare counts.
MutRequiredByBuildOnly(r, current) == r.pre # current

\* decideBaseCacheGeneration
GenerationRequired(r, current) ==
  \/ r.pre # current
  \/ r.mutations > 0
  \/ ~r.restored /\ current # Empty

SaveEligible(r, current) == ~readOnly /\ GenerationRequired(r, current)

Publish(content, deltas, own) ==
  generations' =
    Append(generations, [content |-> content, deltas |-> deltas, own |-> own])

\* saveFinalizeBaseCache of the aggregator: nothing to do when read-only or
\* not required; otherwise the generation must be saved, and the save may
\* report failure with or without the entry having been created.
SaveGeneration ==
  LET r == record[Aggregator]
      current == cache[Aggregator]
      eligible == SaveEligible(r, current)
  IN /\ pc[Aggregator] = "cleaned"
     /\ \/ ~eligible /\ End(Aggregator, "succeeded") /\ UNCHANGED generations
        \/ /\ eligible /\ Publish(current, r.consumed, TRUE)
           /\ \E result \in {"succeeded", "failed"} : End(Aggregator, result)
        \/ eligible /\ End(Aggregator, "failed") /\ UNCHANGED generations
     /\ UNCHANGED <<runVars, planVars, artifacts, uploaded, lastRun>>

\* The runner dies, the job is cancelled, or finalize throws.
Crash(j) ==
  /\ pc[j] # "idle" /\ ~Ended(j)
  /\ End(j, "failed")
  /\ UNCHANGED <<runVars, planVars, storeVars, lastRun>>

-----------------------------------------------------------------------------
\* A completed run is rerun: any jobs, and the aggregator whenever a worker
\* it needs is.  Rerun jobs start on fresh runners; artifacts stay.
Rerun(jobs) ==
  /\ \A j \in Job : Ended(j)
  /\ attempt < MaxAttempt
  /\ Aggregator \in jobs
  /\ attempt' = attempt + 1
  /\ pc' = [j \in Job |-> IF j \in jobs THEN "idle" ELSE pc[j]]
  /\ selected' = {} /\ todo' = {} /\ mutations' = 0
  /\ lastRun' = [j \in Job |-> IF j \in jobs THEN attempt' ELSE lastRun[j]]
  /\ UNCHANGED <<readOnly, cache, restored, record, storeVars>>

OwnGenerations == {k \in DOMAIN generations : generations[k].own}
ForeignGenerations == DOMAIN generations \ OwnGenerations

\* Another run of the lineage publishes a generation: it built every worker's
\* file, or none of them.
ForeignPublish ==
  /\ Cardinality(ForeignGenerations) < MaxForeign
  /\ \E v \in {0, Foreign} : Publish([j \in Job |-> v], {}, FALSE)
  /\ UNCHANGED <<runVars, jobVars, planVars, artifacts, uploaded, lastRun>>

JobStep(j) ==
  \/ StartPrepare(j) \/ FailPrepare(j) \/ PersistRecord(j) \/ Build(j)
  \/ FinalizeWithoutRecord(j)

WorkerStep(w) == JobStep(w) \/ FinalizeWorker(w)

AggregatorStep ==
  \/ JobStep(Aggregator) \/ SelectEnvelopes \/ ValidatePlan
  \/ \E e \in todo : ApplyEntry(e)
  \/ CleanupConsumed \/ SaveGeneration

Next ==
  \/ \E w \in Worker : WorkerStep(w)
  \/ AggregatorStep
  \/ \E j \in Job : Crash(j)
  \/ \E jobs \in SUBSET Job : Rerun(jobs)
  \/ ForeignPublish

Spec == Init /\ [][Next]_vars
-----------------------------------------------------------------------------
\* Types: of the stores that outlive a job and of what a job keeps in memory.
TypeOK ==
  /\ attempt \in 1 .. MaxAttempt /\ readOnly \in BOOLEAN
  /\ pc \in [Job -> Phase]
  /\ cache \in [Job -> Content] /\ restored \in [Job -> BOOLEAN]
  /\ record \in [Job -> Record \cup {NoRecord}]
  /\ selected \subseteq uploaded /\ todo \subseteq selected /\ mutations \in Nat
  /\ artifacts \subseteq uploaded /\ uploaded \subseteq Envelope
  /\ generations \in Seq([content : Content, deltas : SUBSET Envelope, own : BOOLEAN])
  /\ lastRun \in [Job -> 1 .. MaxAttempt]

\* One envelope or more of every worker, all of whose changes are in the content.
IsComplete(deltas, content) ==
  /\ {e.worker : e \in deltas} = Worker
  /\ \A e \in deltas : ~IsEmptyEnvelope(e) => content[e.worker] = e.to

\* Whatever fails or crashes between selecting envelopes and saving, a
\* generation this run publishes holds every change of every envelope it was
\* made from (delta-protocol.md: "the enclosing lifecycle must not publish
\* that partial state as a new generation").
PublishedIsComplete ==
  \A k \in OwnGenerations : IsComplete(generations[k].deltas, generations[k].content)

\* decideBaseCacheGeneration's "empty-miss" with changes consumed: nothing was
\* restored and the cache is empty, so every consumed change was a deletion
\* that found its file absent and counted as no mutation.
Changes == {e \in selected : ~IsEmptyEnvelope(e)}
EmptyMiss ==
  /\ ~restored[Aggregator] /\ cache[Aggregator] = Empty
  /\ \A e \in Changes : e.to = 0

\* When an aggregator succeeds, one durable generation holds every change it
\* consumed: a save that did not happen fails the job, and skipping it as not
\* required drops no change.  The only exception is a restore that missed and
\* left nothing to save (base-cache.md: "Empty cold starts are likewise not
\* saved"): deletions consumed then are dropped, and a generation that still
\* has the files may be restored later.
DroppedOnlyAfterEmptyMiss ==
  [][ (pc[Aggregator] # "succeeded" /\ pc'[Aggregator] = "succeeded" /\ Changes # {}) =>
        \/ \E k \in DOMAIN generations' : \A e \in Changes :
             generations'[k].content[e.worker] = e.to
        \/ EmptyMiss ]_vars

\* The aggregator never passes over a newer envelope of a worker unless an
\* earlier aggregator consumed and deleted it.
NoNewerEnvelopePassedOver ==
  \A e \in selected, f \in uploaded :
    (f.worker = e.worker /\ f.attempt > e.attempt) => f \notin artifacts

\* A read-only run exchanges nothing and publishes nothing, in any attempt.
ReadOnlyLeavesNoTrace == readOnly => uploaded = {} /\ OwnGenerations = {}

\* Only complete generations ever become visible, each in one step.
AtomicStore == INSTANCE AggregationStore
ImplementsAtomicStore == AtomicStore!StoreSpec

-----------------------------------------------------------------------------
\* docs/architecture/bootstrap.md:110-111 saves the base cache in step 6 and
\* cleans up the consumed artifacts in step 7: a consumed change is durable
\* before its envelope is deleted.
DeletedOnlyWhenDurable ==
  \A e \in uploaded \ artifacts : ~IsEmptyEnvelope(e) =>
    \E k \in DOMAIN generations : generations[k].content[e.worker] = e.to
=============================================================================
