----------------------------- MODULE JobCapture ------------------------------
(***************************************************************************)
(* The single-run guard and the build capture in one CI job, over its      *)
(* attempts: prepare (src/src/phases/prepare/flow.ts) installs the capture *)
(* files, the workflow's builds run, and finalize                          *)
(* (src/src/phases/finalize/flow.ts) reports and removes them.             *)
(*                                                                         *)
(* The guard's phases "preparing" and "finalizing" are refined by step; of *)
(* the cache work of both phases only that it may throw is kept, and that  *)
(* finalize needs the record prepare leaves (CacheLifecycle has the rest). *)
(***************************************************************************)
EXTENDS SingleRunGuard, BuildCapture

VARIABLES
  step,    \* how far prepare or finalize got in every invocation
  record   \* prepare left its lifecycle record

jobVars == <<vars, captureVars, step, record>>

StepName == {"begin", "scripted", "hooked", "reported", "threw"}

JobInit ==
  /\ Init /\ CaptureInit
  /\ step = [i \in Invocation |-> "begin"]
  /\ record = [i \in Invocation |-> FALSE]

At(i, phase, s) == pc[i] = phase /\ step[i] = s
Advance(i, s) == step' = [step EXCEPT ![i] = s]
-----------------------------------------------------------------------------
\* installBuildHooks after bootstrap; its errors do not reach prepare.
InstallHooks(i) ==
  /\ \/ At(i, "preparing", "begin") /\ WriteInitScript /\ Advance(i, "scripted")
     \/ At(i, "preparing", "scripted") /\ WritePlugin /\ Advance(i, "hooked")
     \/ /\ pc[i] = "preparing" /\ step[i] \in {"begin", "scripted"}
        /\ InstallFails /\ Advance(i, "hooked")
  /\ UNCHANGED <<vars, record>>

\* The record is the last thing prepare writes.
PrepareReturns(i) ==
  /\ step[i] = "hooked" /\ PrepareEnds(i) /\ Advance(i, "begin")
  /\ record' = [record EXCEPT ![i] = TRUE]
  /\ UNCHANGED captureVars

\* Bootstrap or a later step throws, or the process dies.
PrepareThrows(i) ==
  /\ PrepareEnds(i) /\ Advance(i, "begin")
  /\ fault' = IF step[i] = "scripted" THEN fault \cup {"died"} ELSE fault
  /\ UNCHANGED <<hooks, builds, storedId, captureFiles, report, record>>
-----------------------------------------------------------------------------
CollectBuildReport(i) ==
  /\ At(i, "finalizing", "begin") /\ record[i] /\ CollectReport /\ Advance(i, "reported")
  /\ UNCHANGED <<vars, record>>

\* Finalize throws: before the report for want of a record or on drift, after
\* it in the cache work; or it dies in between.
FinalizeThrows(i) ==
  /\ pc[i] = "finalizing" /\ step[i] \in {"begin", "reported"} /\ Advance(i, "threw")
  /\ \/ UNCHANGED captureVars
     \/ step[i] = "begin" /\ record[i] /\ CollectDies
  /\ UNCHANGED <<vars, record>>

FinalizeReturns(i) ==
  /\ step[i] \in {"reported", "threw"} /\ FinalizeEnds(i)
  /\ UNCHANGED <<captureVars, step, record>>
-----------------------------------------------------------------------------
\* The steps of the guard outside prepare and finalize.
GuardStep(i) ==
  /\ \/ ClaimCreates(i) \/ ClaimFindsFile(i) \/ SaveFlag(i) \/ SaveToken(i)
     \/ SaveDuplicate(i) \/ Post(i)
  /\ UNCHANGED <<captureVars, step, record>>

GuardDies(i) == MainDies(i) /\ UNCHANGED <<captureVars, step, record>>

\* Workflow steps run before and between the two phases of the action.
GradleBuild ==
  /\ \A i \in Invocation : pc[i] \notin {"preparing", "finalizing", "skipped", "finalized"}
  /\ CapturedBuild /\ UNCHANGED <<vars, step, record>>

Rerun ==
  /\ RerunJob /\ CaptureRerun
  /\ step' = [i \in Invocation |-> "begin"] /\ record' = [i \in Invocation |-> FALSE]

JobStep(i) ==
  \/ GuardStep(i) \/ InstallHooks(i) \/ PrepareReturns(i) \/ PrepareThrows(i)
  \/ CollectBuildReport(i) \/ FinalizeThrows(i) \/ FinalizeReturns(i)

JobNext == (\E i \in Invocation : JobStep(i) \/ GuardDies(i)) \/ GradleBuild \/ Rerun

\* The runner runs both phases of every invocation to their end.
JobSpec == JobInit /\ [][JobNext]_jobVars /\ \A i \in Invocation : WF_jobVars(JobStep(i))
-----------------------------------------------------------------------------
\* Types: of the guard, the capture files and the progress of both phases.
JobTypeOK ==
  /\ TypeOK /\ CaptureTypeOK
  /\ step \in [Invocation -> StepName] /\ record \in [Invocation -> BOOLEAN]

\* Gradle builds break on a half-installed capture only after the log said
\* that something went wrong with it, or a phase died over it.
BreakageIsAnnounced ==
  BuildsBroken => fault # {} \/ \E i \in Invocation : At(i, "preparing", "scripted")

Reported(i) == step[i] = "reported" /\ pc[i] \in {"finalizing", "finalized"}

\* A finalize that got to its report leaves no capture file behind without a
\* warning: later builds on the runner are not captured for nobody.
NoHookLeftBehind ==
  \A i \in Invocation : Reported(i) => hooks = {} \/ "warned" \in fault

\* A build whose result was written is missing from the report, or has the
\* scan of another build, only when two builds ran under one id.
ReuseExplainsLoss ==
  \A i \in Invocation : Reported(i) =>
    /\ \A b \in recorded : <<b, b>> \in ran => \E r \in report : r.build = b
    /\ \A r \in report : r.scan \notin {0, r.build} =>
         \E id \in Build : {<<r.build, id>>, <<r.scan, id>>} \subseteq ran
=============================================================================
