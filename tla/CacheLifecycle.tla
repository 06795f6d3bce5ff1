--------------------------- MODULE CacheLifecycle ----------------------------
(***************************************************************************)
(* The base cache in the life of one job, over its attempts: bootstrap     *)
(* (src/src/phases/bootstrap.ts), prepare (src/src/phases/prepare/flow.ts) *)
(* and finalize (src/src/phases/finalize/flow.ts), with the lifecycle      *)
(* record (src/src/phases/finalize/state.ts) that carries state between    *)
(* them, while other jobs publish and the workflow's steps change the      *)
(* runner.                                                                 *)
(*                                                                         *)
(* Caching is enabled and the job consumes no deltas: what those add is in *)
(* DistributedRun.  That one invocation of the action runs both phases is  *)
(* in SingleRunGuard, and nothing but the action touches the managed files *)
(* while a phase runs: FileCapture and TimestampGc have those races.       *)
(***************************************************************************)
EXTENDS BaseCache

CONSTANT MaxJobAttempt   \* bound: attempts of the job

ASSUME LifecycleAssumption == MaxJobAttempt \in Nat \ {0}

VARIABLES
  jobAttempt,
  phase,        \* where the job is
  found,     \* memory of prepare: its restore result
  lifecycle,    \* the persisted lifecycle record
  outcome,   \* how the save of finalize ended
  summary,   \* the overall status the job summary shows
  ours       \* history: generations the job published, each with its base

lifecycleVars == <<jobAttempt, phase, found, lifecycle, outcome, summary, ours>>
cacheJobVars == <<cacheVars, lifecycleVars>>

JobPhase == {"idle", "restored", "pruned", "settled", "prepared", "between",
         "finalizing", "reconciled", "swept", "decided", "ended"}
Outcome == {"none", "not eligible", "unavailable", "not required", "missing paths", "saved",
            "not saved", "failed"}
Summary == {"none", "success", "warning", "error"}

\* base is the restored generation by its place in the store, 0 for a miss;
\* exact: the managed files were empty or pruned before.
RestoreResult == [base : Nat, exact : BOOLEAN]
NoResult == [base |-> -1, exact |-> FALSE]
LifecycleRecord == [base : Nat, exact : BOOLEAN, family : Family, pre : Content]
NoRecord == [base |-> -1]

Enter(s) == phase' = s

LifecycleInit ==
  /\ CacheInit /\ jobAttempt = 1 /\ phase = "idle"
  /\ found = NoResult /\ lifecycle = NoRecord /\ outcome = "none"
  /\ summary = "none" /\ ours = {}
-----------------------------------------------------------------------------
\* restoreBaseCache in bootstrap: a hit.
RestoreHits ==
  /\ phase = "idle" /\ Enter("restored")
  /\ \E n \in Restorable(CacheFamily) :
       /\ Overlay(generations[n].content)
       /\ found' = [base |-> n, exact |-> tree = {}]
  /\ UNCHANGED <<generations, others, java, jobAttempt, lifecycle, outcome, summary, ours>>

\* No generation, no backend, or a download the backend gave up on the way.
RestoreMisses ==
  /\ phase = "idle" /\ Enter("restored")
  /\ tree' \in PartlyRestored(CacheFamily)
  /\ found' = [base |-> 0, exact |-> tree = {}]
  /\ UNCHANGED <<generations, others, java, jobAttempt, lifecycle, outcome, summary, ours>>

\* Mutant of Pruned: only the files of the restored generation are deleted.
MutPrunedOwnFiles == tree \ generations[found.base].content

\* Every file of the captured manifest is deleted.
Pruned == {}

\* maybePruneManagedFilesAfterRestore, when configured and after a hit.
Prune ==
  /\ phase = "restored" /\ found.base > 0 /\ Enter("pruned")
  /\ tree' = Pruned
  /\ UNCHANGED <<generations, others, java, jobAttempt, found, lifecycle, outcome, summary, ours>>

\* The second restore has to hit; the first result stays the recorded one.
RestoreAgain ==
  /\ phase = "pruned" /\ Enter("settled")
  /\ \E n \in Restorable(CacheFamily) : Overlay(generations[n].content)
  /\ found' = [found EXCEPT !.exact = TRUE]
  /\ UNCHANGED <<generations, others, java, jobAttempt, lifecycle, outcome, summary, ours>>

\* The pre-build manifest is written to a file, then the record that names it.
NewRecord == [base |-> found.base, exact |-> found.exact, family |-> CacheFamily, pre |-> tree]

Persist ==
  /\ phase \in {"restored", "settled"} /\ Enter("prepared")
  /\ lifecycle' = NewRecord
  /\ UNCHANGED <<cacheVars, jobAttempt, found, outcome, summary, ours>>

PrepareSucceeds ==
  /\ phase = "prepared" /\ Enter("between") /\ found' = NoResult
  /\ UNCHANGED <<cacheVars, jobAttempt, lifecycle, outcome, summary, ours>>

\* Prepare throws or dies, perhaps in the middle of a restore or a prune.
PrepareFails ==
  /\ phase \in {"idle", "restored", "pruned", "settled"} /\ Enter("between")
  /\ found' = NoResult
  /\ \/ phase \in {"idle", "pruned"} /\ tree' \in PartlyRestored(CacheFamily)
     \/ phase = "restored" /\ found.base > 0 /\ tree' \in SUBSET tree
     \/ UNCHANGED tree
  /\ UNCHANGED <<generations, others, java, jobAttempt, lifecycle, outcome, summary, ours>>
-----------------------------------------------------------------------------
\* Steps of the workflow change the managed files and the environment.
ChangeManagedFiles ==
  /\ phase \in {"idle", "between"}
  /\ tree' \in Content /\ java' \in Detected
  /\ UNCHANGED <<generations, others, lifecycleVars>>

OtherJob == OtherPublishes(jobAttempt) /\ UNCHANGED lifecycleVars

FinalizeStarts ==
  /\ phase = "between" /\ Enter("finalizing")
  /\ UNCHANGED <<cacheVars, jobAttempt, found, lifecycle, outcome, summary, ours>>
-----------------------------------------------------------------------------
\* Mutant of SameIdentity: drift is not looked for.
MutDriftIgnored == lifecycle # NoRecord

\* A record, and the identity it was made under.
SameIdentity == lifecycle # NoRecord /\ lifecycle.family = CacheFamily

\* reconcileCacheLifecycle and the checks of the persisted manifest.
Reconcile ==
  /\ phase = "finalizing" /\ SameIdentity /\ Enter("reconciled")
  /\ UNCHANGED <<cacheVars, jobAttempt, found, lifecycle, outcome, summary, ours>>

\* maybeCollectCacheGarbage: any files may be old enough.
CollectGarbage ==
  /\ phase = "reconciled" /\ Enter("swept")
  /\ tree' \in SUBSET tree
  /\ UNCHANGED <<generations, others, java, jobAttempt, found, lifecycle, outcome, summary, ours>>

\* createCacheGeneration from the planned id and the post-build manifest.
NewGeneration ==
  [family |-> CacheFamily, lineage |-> "current-ref", id |-> jobAttempt, content |-> tree]

GenerationRequired == Required(lifecycle.base > 0, lifecycle.pre, tree)

Ends(result) == phase = "swept" /\ Enter("decided") /\ outcome' = result

\* saveBaseCache: read-only, worker, no backend, or nothing new to publish.
SkipSave ==
  /\ Ends("not eligible") \/ Ends("unavailable") \/ (Ends("not required") /\ ~GenerationRequired)
  /\ UNCHANGED <<cacheVars, jobAttempt, found, lifecycle, summary, ours>>

\* The backend has nothing to archive, has the key already, or fails.
SaveFails ==
  /\ phase = "swept" /\ GenerationRequired
  /\ \/ tree = {} /\ Ends("missing paths")
     \/ KeyTaken(NewGeneration) /\ Ends("not saved")
     \/ tree # {} /\ Ends("failed")
  /\ UNCHANGED <<cacheVars, jobAttempt, found, lifecycle, summary, ours>>

\* The entry is created; the answer may be lost on the way.
SavePublishes ==
  /\ Ends("saved") \/ Ends("failed")
  /\ GenerationRequired /\ tree # {}
  /\ Publish(NewGeneration)
  /\ ours' = ours \cup {<<Len(generations'), lifecycle.base>>}
  /\ UNCHANGED <<others, tree, java, jobAttempt, found, lifecycle, summary>>

\* Mutant of SaveWarning: a publication that failed is not a warning.
MutSaveWarning == outcome \in {"unavailable", "missing paths", "not saved"}

\* getBaseCacheWarning of the save.
SaveWarning == outcome \in {"unavailable", "missing paths", "not saved", "failed"}

\* determineOverallSummaryStatus of the collected issues: a build that failed,
\* warnings of the restore, the build report and the cleanup, and the save.
Summarize ==
  /\ phase = "decided" /\ Enter("ended")
  /\ \E buildFailed, warned \in BOOLEAN :
       summary' = IF buildFailed THEN "error"
                  ELSE IF warned \/ SaveWarning THEN "warning" ELSE "success"
  /\ UNCHANGED <<cacheVars, jobAttempt, found, lifecycle, outcome, ours>>

\* Finalize throws or dies: no record, drift, a failure during the sweep.
FinalizeFails ==
  /\ phase \in {"finalizing", "reconciled", "swept", "decided"} /\ Enter("ended")
  /\ tree' \in IF phase = "reconciled" THEN SUBSET tree ELSE {tree}
  /\ UNCHANGED <<generations, others, java, jobAttempt, found, lifecycle, outcome, summary, ours>>

\* The next attempt gets a new runner or the files this one left.
NextAttempt ==
  /\ phase = "ended" /\ jobAttempt < MaxJobAttempt
  /\ jobAttempt' = jobAttempt + 1 /\ Enter("idle")
  /\ tree' \in {{}, tree} /\ java' \in Detected
  /\ found' = NoResult /\ lifecycle' = NoRecord /\ outcome' = "none" /\ summary' = "none"
  /\ UNCHANGED <<generations, others, ours>>

Prepare ==
  \/ RestoreHits \/ RestoreMisses \/ Prune \/ RestoreAgain \/ Persist
  \/ PrepareSucceeds \/ PrepareFails

Finalize ==
  \/ FinalizeStarts \/ Reconcile \/ CollectGarbage \/ SkipSave \/ SaveFails \/ SavePublishes
  \/ Summarize \/ FinalizeFails

LifecycleNext == Prepare \/ ChangeManagedFiles \/ OtherJob \/ Finalize \/ NextAttempt

LifecycleSpec == LifecycleInit /\ [][LifecycleNext]_cacheJobVars
-----------------------------------------------------------------------------
\* Types: of the state that prepare leaves for finalize in particular.
LifecycleTypeOK ==
  /\ CacheTypeOK /\ jobAttempt \in 1 .. MaxJobAttempt /\ phase \in JobPhase
  /\ outcome \in Outcome /\ summary \in Summary
  /\ found \in RestoreResult \cup {NoResult}
  /\ lifecycle \in LifecycleRecord \cup {NoRecord}
  /\ ours \subseteq Nat \X Nat

Published(f, content) ==
  \E n \in DOMAIN generations : generations[n].family = f /\ generations[n].content = content

\* When the managed files were empty or pruned before the restore, the
\* manifest the post-build state is compared with is that of a generation of
\* the job's own family, even if a newer generation than the recorded one was
\* restored the second time.
ExactBase ==
  (lifecycle # NoRecord /\ lifecycle.base > 0 /\ lifecycle.exact) =>
    Published(lifecycle.family, lifecycle.pre)

\* When finalize decides that nothing is to publish, or finds its key taken,
\* no state is lost: the managed files are empty or some generation of the
\* family has exactly them, whatever builds, collection and other jobs did.
UnsavedIsKnown ==
  (outcome \in {"not required", "not saved"} /\ lifecycle.exact) =>
    tree = {} \/ Published(lifecycle.family, tree)

\* A job that may publish and shows success has kept the state it ends with:
\* some generation of its family has exactly the managed files, or there are
\* none.  Whatever kept it from publishing shows in the summary.
SuccessIsKept ==
  (summary = "success" /\ outcome # "not eligible" /\ lifecycle.exact) =>
    tree = {} \/ Published(lifecycle.family, tree)

\* A generation is published only in the family of the generation it builds
\* on: files restored for one Java major or runner never become a generation
\* of another, though steps between the phases change the environment.
SavedUnderItsBase ==
  \A p \in ours : p[2] > 0 => generations[p[1]].family = generations[p[2]].family
=============================================================================
