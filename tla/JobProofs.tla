----------------------------- MODULE JobProofs -----------------------------
(* Proofs about one CI job over its attempts.  First JobCapture, the guard  *)
(* and the capture of builds: its invariants hold for any number of         *)
(* invocations, attempts and builds.  Then CacheLifecycle, the base cache   *)
(* from restore to save: what a record, an outcome and a published          *)
(* generation say about the managed files stays true whatever other jobs    *)
(* publish and the steps of the workflow change.                            *)
EXTENDS JobCapture, CacheLifecycle, SequenceTheorems, TLAPS

\* The guard alone.

\* What an invocation has beyond the guard file it got from creating it.
Owned ==
  \A i \in Invocation :
    (pc[i] \in {"created", "flagged", "preparing", "finalizing", "finalized"} \/ token[i] # Nobody)
      => guardFile[attempt] = i

\* The owner of the attempt has started, and later attempts have no owner.
Fresh ==
  /\ \A i \in Invocation : guardFile[attempt] = i => pc[i] # "idle"
  /\ \A a \in Attempt : a > attempt => guardFile[a] = Nobody

IInv == TypeOK /\ Owned /\ Fresh /\ RejectedByAnother

\* Attempts are the numbers from one on.
LEMMA AttemptFacts ==
  /\ 1 \in Attempt /\ Attempt \subseteq Nat
  /\ \A a \in Attempt : a < MaxAttempt => a + 1 \in Attempt
  /\ \A a, b \in Attempt : a > b => a # b
  BY GuardAssumption, SMT DEF Attempt

LEMMA InitIInv == Init => IInv
<1> SUFFICES ASSUME Init PROVE IInv
  OBVIOUS
<1>1. /\ attempt = 1 /\ 1 \in Attempt
      /\ \A i \in Invocation : pc[i] = "idle" /\ duplicate[i] = "" /\ token[i] = Nobody
      /\ \A a \in Attempt : guardFile[a] = Nobody
  <2>1. attempt = 1 /\ 1 \in Attempt
    BY AttemptFacts DEF Init
  <2>2. \A i \in Invocation : pc[i] = "idle" /\ duplicate[i] = "" /\ token[i] = Nobody
    BY DEF Init
  <2>3. \A a \in Attempt : guardFile[a] = Nobody
    BY DEF Init
  <2> QED
    BY <2>1, <2>2, <2>3
<1>2. pc \in [Invocation -> Phase]
  BY DEF Init, Phase
<1>3. guardFile \in [Attempt -> Invocation \cup {Nobody}]
  BY DEF Init
<1>4. TypeOK
  BY <1>1, <1>2, <1>3 DEF Init, TypeOK
<1>5. Owned
  BY <1>1 DEF Owned
<1>6. Fresh
  BY <1>1, GuardAssumption, AttemptFacts DEF Fresh
<1>7. RejectedByAnother
  BY <1>1 DEF RejectedByAnother
<1> QED
  BY <1>4, <1>5, <1>6, <1>7 DEF IInv

\* The guard file of the current attempt is in the array of guard files.
LEMMA PathTyped == TypeOK => attempt \in Attempt /\ GuardFilePath(attempt) = attempt
  BY DEF TypeOK, GuardFilePath

LEMMA TypeStep == IInv /\ [Next]_vars => TypeOK'
<1> SUFFICES ASSUME IInv, [Next]_vars PROVE TypeOK'
  OBVIOUS
<1> USE GuardAssumption DEF IInv, TypeOK, Phase, Goto
<1>1. ASSUME NEW i \in Invocation, ClaimCreates(i) PROVE TypeOK'
  BY <1>1, PathTyped DEF ClaimCreates
<1>2. ASSUME NEW i \in Invocation, ClaimFindsFile(i) PROVE TypeOK'
  BY <1>2 DEF ClaimFindsFile
<1>3. ASSUME NEW i \in Invocation, SaveFlag(i) PROVE TypeOK'
  BY <1>3 DEF SaveFlag
<1>4. ASSUME NEW i \in Invocation, SaveToken(i) PROVE TypeOK'
  BY <1>4 DEF SaveToken, SavedToken
<1>5. ASSUME NEW i \in Invocation, SaveDuplicate(i) PROVE TypeOK'
  BY <1>5 DEF SaveDuplicate
<1>6. ASSUME NEW i \in Invocation, PrepareEnds(i) \/ MainDies(i) \/ FinalizeEnds(i) PROVE TypeOK'
  BY <1>6 DEF PrepareEnds, MainDies, FinalizeEnds
<1>7. ASSUME NEW i \in Invocation, Post(i) PROVE TypeOK'
  BY <1>7 DEF Post
<1>8. ASSUME RerunJob PROVE TypeOK'
  <2>1. attempt \in Attempt /\ attempt < MaxAttempt /\ attempt' = attempt + 1
    BY <1>8 DEF RerunJob
  <2>2. attempt' \in Attempt
    BY <2>1, AttemptFacts
  <2> QED
    BY <1>8, <2>2 DEF RerunJob
<1>9. ASSUME UNCHANGED vars PROVE TypeOK'
  BY <1>9 DEF vars
<1> QED
  BY <1>1, <1>2, <1>3, <1>4, <1>5, <1>6, <1>7, <1>8, <1>9 DEF Next, Step

\* An invocation that moves on within its attempt, without claiming.
LEMMA MoveStep ==
  ASSUME IInv, NEW i \in Invocation, TypeOK',
         \/ SaveFlag(i) \/ SaveToken(i) \/ SaveDuplicate(i)
         \/ PrepareEnds(i) \/ MainDies(i) \/ Post(i) \/ FinalizeEnds(i)
  PROVE  Owned' /\ Fresh' /\ RejectedByAnother'
<1>1. UNCHANGED <<attempt, guardFile>> /\ \A j \in Invocation \ {i} :
         pc'[j] = pc[j] /\ token'[j] = token[j] /\ duplicate'[j] = duplicate[j]
  BY DEF SaveFlag, SaveToken, SaveDuplicate, PrepareEnds, MainDies, Post, FinalizeEnds,
         Goto, IInv, TypeOK
<1>2. pc'[i] # "idle" /\ pc'[i] # "exists"
  BY DEF SaveFlag, SaveToken, SaveDuplicate, PrepareEnds, MainDies, Post, FinalizeEnds,
         Goto, IInv, TypeOK
<1>3. (pc'[i] \in {"created", "flagged", "preparing", "finalizing", "finalized"} \/ token'[i] # Nobody)
        => guardFile[attempt] = i
  <2>1. CASE SaveFlag(i) \/ SaveToken(i)
    BY <2>1 DEF SaveFlag, SaveToken, IInv, Owned, TypeOK
  <2>2. CASE SaveDuplicate(i) \/ PrepareEnds(i) \/ MainDies(i)
    BY <2>2 DEF SaveDuplicate, PrepareEnds, MainDies, Goto, IInv, Owned, TypeOK
  <2>3. CASE Post(i) \/ FinalizeEnds(i)
    BY <2>3 DEF Post, FinalizeEnds, ShouldRun, Goto, IInv, Owned, TypeOK
  <2> QED
    BY <2>1, <2>2, <2>3
<1>4. duplicate'[i] = "true" => guardFile[attempt] \in Invocation \ {i}
  <2>1. CASE SaveDuplicate(i)
    BY <2>1 DEF SaveDuplicate, IInv, RejectedByAnother
  <2>2. CASE SaveFlag(i)
    BY <2>2 DEF SaveFlag, IInv, TypeOK
  <2>3. CASE SaveToken(i) \/ PrepareEnds(i) \/ MainDies(i) \/ Post(i) \/ FinalizeEnds(i)
    BY <2>3 DEF SaveToken, PrepareEnds, MainDies, Post, FinalizeEnds, IInv, RejectedByAnother
  <2> QED
    BY <2>1, <2>2, <2>3
<1>5. Owned'
  BY <1>1, <1>3 DEF Owned, IInv
<1>6. Fresh'
  BY <1>1, <1>2 DEF Fresh, IInv
<1>7. RejectedByAnother'
  BY <1>1, <1>2, <1>4 DEF RejectedByAnother, IInv
<1> QED
  BY <1>5, <1>6, <1>7

LEMMA ClaimStep ==
  ASSUME IInv, NEW i \in Invocation, TypeOK', ClaimCreates(i) \/ ClaimFindsFile(i)
  PROVE  Owned' /\ Fresh' /\ RejectedByAnother'
<1> USE GuardAssumption, PathTyped DEF IInv, TypeOK, Goto, CreatesFile
<1>1. CASE ClaimCreates(i)
  <2>1. /\ guardFile[attempt] = Nobody /\ attempt' = attempt
        /\ guardFile' = [guardFile EXCEPT ![attempt] = i]
        /\ pc' = [pc EXCEPT ![i] = "created"] /\ UNCHANGED <<token, duplicate>>
    BY <1>1 DEF ClaimCreates
  <2>2. guardFile'[attempt] = i
    BY <2>1
  <2>3. Owned'
    BY <2>1, <2>2 DEF Owned
  <2>4. Fresh'
    <3>1. \A j \in Invocation : guardFile'[attempt] = j => pc'[j] # "idle"
      BY <2>1, <2>2
    <3>2. ASSUME NEW a \in Attempt, a > attempt PROVE guardFile'[a] = Nobody
      <4>1. a # attempt
        BY <3>2, AttemptFacts
      <4>2. guardFile[a] = Nobody
        BY <3>2 DEF Fresh
      <4> QED
        BY <2>1, <4>1, <4>2
    <3> QED
      BY <2>1, <3>1, <3>2 DEF Fresh
  <2>5. RejectedByAnother'
    BY <2>1, <2>2 DEF RejectedByAnother
  <2> QED
    BY <2>3, <2>4, <2>5
<1>2. CASE ClaimFindsFile(i)
  <2>1. /\ guardFile[attempt] # Nobody /\ pc[i] = "idle"
        /\ pc' = [pc EXCEPT ![i] = "exists"] /\ UNCHANGED <<attempt, guardFile, token, duplicate>>
    BY <1>2 DEF ClaimFindsFile
  <2>2. guardFile[attempt] \in Invocation \ {i}
    BY <2>1 DEF Fresh
  <2>3. Owned' /\ Fresh'
    BY <2>1 DEF Owned, Fresh
  <2>4. RejectedByAnother'
    BY <2>1, <2>2 DEF RejectedByAnother
  <2> QED
    BY <2>3, <2>4
<1> QED
  BY <1>1, <1>2

LEMMA RerunStep ==
  ASSUME IInv, TypeOK', RerunJob
  PROVE  Owned' /\ Fresh' /\ RejectedByAnother'
<1>1. /\ attempt' = attempt + 1 /\ attempt' \in Attempt /\ attempt \in Nat /\ guardFile' = guardFile
      /\ \A i \in Invocation : pc'[i] = "idle" /\ duplicate'[i] = "" /\ token'[i] = Nobody
  BY AttemptFacts DEF RerunJob, TypeOK, IInv
<1>2. ASSUME NEW a \in Attempt, a >= attempt' PROVE guardFile'[a] = Nobody
  <2>1. attempt \in Nat /\ a \in Nat /\ attempt' = attempt + 1
    BY <1>1, AttemptFacts
  <2>2. a > attempt
    BY <1>2, <2>1
  <2> QED
    BY <1>1, <2>2 DEF IInv, Fresh
<1>3. guardFile'[attempt'] = Nobody /\ Owned' /\ RejectedByAnother'
  <2>1. attempt' \in Nat
    BY <1>1, AttemptFacts
  <2>2. attempt' >= attempt'
    BY <2>1
  <2> QED
    BY <1>1, <1>2, <2>2 DEF Owned, RejectedByAnother
<1>4. Fresh'
  <2>1. \A i \in Invocation : guardFile'[attempt'] # i
    BY <1>3, GuardAssumption
  <2>2. ASSUME NEW a \in Attempt, a > attempt' PROVE guardFile'[a] = Nobody
    <3>1. a \in Nat /\ attempt' \in Nat
      BY <1>1, AttemptFacts
    <3>2. a >= attempt'
      BY <3>1, <2>2
    <3> QED
      BY <1>2, <3>2
  <2> QED
    BY <2>1, <2>2 DEF Fresh
<1> QED
  BY <1>3, <1>4

\* The guard's invariant is inductive.
LEMMA GuardStepIInv == IInv /\ [Next]_vars => IInv'
<1> SUFFICES ASSUME IInv, [Next]_vars PROVE IInv'
  OBVIOUS
<1>1. TypeOK'
  BY TypeStep
<1>2. CASE \E i \in Invocation : ClaimCreates(i) \/ ClaimFindsFile(i)
  BY <1>1, <1>2, ClaimStep DEF IInv
<1>3. CASE \E i \in Invocation :
             \/ SaveFlag(i) \/ SaveToken(i) \/ SaveDuplicate(i)
             \/ PrepareEnds(i) \/ MainDies(i) \/ Post(i) \/ FinalizeEnds(i)
  BY <1>1, <1>3, MoveStep DEF IInv
<1>4. CASE RerunJob
  BY <1>1, <1>4, RerunStep DEF IInv
<1>5. CASE UNCHANGED vars
  BY <1>5 DEF IInv, TypeOK, Owned, Fresh, RejectedByAnother, vars
<1> QED
  BY <1>2, <1>3, <1>4, <1>5 DEF Next, Step

LEMMA IInvOwner == IInv => OneOwner
  BY DEF IInv, Owned, OneOwner

-----------------------------------------------------------------------------
\* Every step of the job is a step of the guard or leaves it alone.
LEMMA JobRefinesGuard == [JobNext]_jobVars => [Next]_vars
<1> SUFFICES ASSUME [JobNext]_jobVars PROVE [Next]_vars
  OBVIOUS
<1>1. ASSUME NEW i \in Invocation, JobStep(i) PROVE [Next]_vars
  <2>1. CASE GuardStep(i)
    BY <2>1 DEF GuardStep, Next, Step
  <2>2. CASE InstallHooks(i) \/ CollectBuildReport(i) \/ FinalizeThrows(i)
    BY <2>2 DEF InstallHooks, CollectBuildReport, FinalizeThrows
  <2>3. CASE PrepareReturns(i) \/ PrepareThrows(i) \/ FinalizeReturns(i)
    BY <2>3 DEF PrepareReturns, PrepareThrows, FinalizeReturns, Next, Step
  <2> QED
    BY <1>1, <2>1, <2>2, <2>3 DEF JobStep
<1>2. ASSUME NEW i \in Invocation, GuardDies(i) PROVE [Next]_vars
  BY <1>2 DEF GuardDies, Next
<1>3. CASE GradleBuild
  BY <1>3 DEF GradleBuild
<1>4. CASE Rerun
  BY <1>4 DEF Rerun, Next
<1>5. CASE UNCHANGED jobVars
  BY <1>5 DEF jobVars
<1> QED
  BY <1>1, <1>2, <1>3, <1>4, <1>5 DEF JobNext

\* Only a phase that is under way, or was finalized, is past its beginning.
StepsFit ==
  /\ step \in [Invocation -> StepName]
  /\ \A i \in Invocation :
       pc[i] \notin {"preparing", "finalizing", "finalized"} => step[i] = "begin"

LEMMA StepsFitStep == IInv /\ StepsFit /\ [JobNext]_jobVars => StepsFit'
<1> SUFFICES ASSUME IInv, StepsFit, [JobNext]_jobVars PROVE StepsFit'
  OBVIOUS
<1> USE DEF StepsFit, StepName
<1>0. pc \in [Invocation -> Phase]
  BY DEF IInv, TypeOK
<1>1. ASSUME NEW i \in Invocation, GuardStep(i) \/ GuardDies(i) PROVE StepsFit'
  <2>1. /\ step' = step /\ step[i] = "begin"
        /\ \A j \in Invocation \ {i} : pc'[j] = pc[j]
    BY <1>0, <1>1 DEF GuardStep, GuardDies, ClaimCreates, ClaimFindsFile, SaveFlag, SaveToken,
                      SaveDuplicate, Post, MainDies, Goto
  <2> QED
    BY <2>1
<1>2. ASSUME NEW i \in Invocation,
             InstallHooks(i) \/ CollectBuildReport(i) \/ FinalizeThrows(i)
      PROVE  StepsFit'
  <2>1. /\ pc' = pc /\ pc[i] \in {"preparing", "finalizing"}
        /\ \E s \in StepName : step' = [step EXCEPT ![i] = s]
    BY <1>2 DEF InstallHooks, CollectBuildReport, FinalizeThrows, At, Advance, vars
  <2> QED
    BY <2>1
<1>3. ASSUME NEW i \in Invocation, PrepareReturns(i) \/ PrepareThrows(i) PROVE StepsFit'
  <2>1. /\ step' = [step EXCEPT ![i] = "begin"]
        /\ \A j \in Invocation \ {i} : pc'[j] = pc[j]
    BY <1>0, <1>3 DEF PrepareReturns, PrepareThrows, PrepareEnds, Goto, Advance
  <2> QED
    BY <2>1
<1>4. ASSUME NEW i \in Invocation, FinalizeReturns(i) PROVE StepsFit'
  <2>1. step' = step /\ pc' = [pc EXCEPT ![i] = "finalized"]
    BY <1>4 DEF FinalizeReturns, FinalizeEnds, Goto
  <2> QED
    BY <1>0, <2>1
<1>5. CASE GradleBuild \/ UNCHANGED jobVars
  BY <1>5 DEF GradleBuild, jobVars, vars
<1>6. CASE Rerun
  BY <1>6 DEF Rerun
<1> QED
  BY <1>1, <1>2, <1>3, <1>4, <1>5, <1>6 DEF JobNext, JobStep

-----------------------------------------------------------------------------
\* Whoever is at work on the guarded phases is the only one.
LEMMA OneAtWork ==
  ASSUME IInv, NEW i \in Invocation, NEW j \in Invocation,
         pc[i] \in {"preparing", "finalizing", "finalized"},
         pc[j] \in {"preparing", "finalizing", "finalized"}
  PROVE  i = j
  BY IInvOwner DEF OneOwner

LEMMA BreakageStep ==
  IInv /\ StepsFit /\ BreakageIsAnnounced /\ [JobNext]_jobVars => BreakageIsAnnounced'
<1> SUFFICES ASSUME IInv, StepsFit, BreakageIsAnnounced, [JobNext]_jobVars
             PROVE  BreakageIsAnnounced'
  OBVIOUS
<1>0. pc \in [Invocation -> Phase] /\ step \in [Invocation -> StepName]
  BY DEF IInv, TypeOK, StepsFit
<1> USE DEF BreakageIsAnnounced, BuildsBroken, At
\* A step that does not touch the files, of an invocation not amid installing.
<1>1. ASSUME NEW i \in Invocation, UNCHANGED <<hooks, fault>>, ~At(i, "preparing", "scripted"),
             \A j \in Invocation \ {i} : pc'[j] = pc[j] /\ step'[j] = step[j]
      PROVE  BreakageIsAnnounced'
  BY <1>1
<1>2. ASSUME NEW i \in Invocation, GuardStep(i) \/ GuardDies(i) PROVE BreakageIsAnnounced'
  <2>1. /\ UNCHANGED <<hooks, fault, step>> /\ pc[i] # "preparing"
        /\ \A j \in Invocation \ {i} : pc'[j] = pc[j]
    BY <1>0, <1>2 DEF GuardStep, GuardDies, ClaimCreates, ClaimFindsFile, SaveFlag, SaveToken,
                      SaveDuplicate, Post, MainDies, Goto, captureVars
  <2> QED
    BY <1>1, <2>1
<1>3. ASSUME NEW i \in Invocation, InstallHooks(i) PROVE BreakageIsAnnounced'
  <2>1. CASE At(i, "preparing", "begin") /\ WriteInitScript /\ Advance(i, "scripted")
    <3>1. pc'[i] = "preparing" /\ step'[i] = "scripted"
      BY <1>0, <1>3, <2>1 DEF InstallHooks, Advance, vars
    <3> QED
      BY <3>1
  <2>2. CASE WritePlugin
    <3>1. "service plugin" \in hooks' /\ "service plugin" \notin {"init script"}
      BY <2>2 DEF WritePlugin, HookFile
    <3> QED
      BY <3>1
  <2>3. CASE InstallFails
    BY <2>3 DEF InstallFails
  <2> QED
    BY <1>3, <2>1, <2>2, <2>3 DEF InstallHooks
<1>4. ASSUME NEW i \in Invocation, PrepareReturns(i) PROVE BreakageIsAnnounced'
  <2>1. /\ UNCHANGED <<hooks, fault>> /\ step[i] = "hooked"
        /\ \A j \in Invocation \ {i} : pc'[j] = pc[j] /\ step'[j] = step[j]
    BY <1>0, <1>4 DEF PrepareReturns, PrepareEnds, Goto, Advance, captureVars
  <2> QED
    BY <1>1, <2>1
<1>5. ASSUME NEW i \in Invocation, PrepareThrows(i) PROVE BreakageIsAnnounced'
  <2>1. CASE step[i] = "scripted"
    BY <1>5, <2>1 DEF PrepareThrows
  <2>2. CASE step[i] # "scripted"
    <3>1. /\ UNCHANGED <<hooks, fault>>
          /\ \A j \in Invocation \ {i} : pc'[j] = pc[j] /\ step'[j] = step[j]
      BY <1>0, <1>5, <2>2 DEF PrepareThrows, PrepareEnds, Goto, Advance
    <3> QED
      BY <1>1, <2>2, <3>1
  <2> QED
    BY <2>1, <2>2
<1>6. ASSUME NEW i \in Invocation,
             CollectBuildReport(i) \/ FinalizeThrows(i) \/ FinalizeReturns(i)
      PROVE  BreakageIsAnnounced'
  <2>1. /\ pc[i] = "finalizing"
        /\ \A j \in Invocation \ {i} : pc'[j] = pc[j] /\ step'[j] = step[j]
    BY <1>0, <1>6 DEF CollectBuildReport, FinalizeThrows, FinalizeReturns, FinalizeEnds, Goto,
                      Advance, vars
  <2>2. CASE UNCHANGED <<hooks, fault>>
    BY <1>1, <2>1, <2>2
  <2>3. CASE hooks' = {} \/ "warned" \in fault' \/ "died" \in fault'
    BY <2>3
  <2> QED
    BY <1>6, <2>2, <2>3 DEF CollectBuildReport, FinalizeThrows, FinalizeReturns, CollectReport,
                            RemoveHooks, CollectDies, captureVars
<1>7. CASE GradleBuild \/ UNCHANGED jobVars
  BY <1>7 DEF GradleBuild, CapturedBuild, jobVars, captureVars, vars
<1>8. CASE Rerun
  <2>1. \A i \in Invocation : pc[i] # "preparing"
    BY <1>8 DEF Rerun, RerunJob
  <2> QED
    BY <1>8, <2>1 DEF Rerun, CaptureRerun
<1> QED
  BY <1>2, <1>3, <1>4, <1>5, <1>6, <1>7, <1>8 DEF JobNext, JobStep

\* After a report nothing is installed and no build runs any more.
LEMMA ReportedStep ==
  ASSUME IInv, StepsFit, [JobNext]_jobVars, NEW i \in Invocation, Reported(i)'
  PROVE  \/ Reported(i) /\ UNCHANGED captureVars
         \/ CollectReport
<1> USE DEF Reported, At
<1>0. pc \in [Invocation -> Phase] /\ step \in [Invocation -> StepName]
  BY DEF IInv, TypeOK, StepsFit
<1>1. ASSUME NEW j \in Invocation, GuardStep(j) \/ GuardDies(j)
      PROVE  Reported(i) /\ UNCHANGED captureVars
  <2>1. /\ UNCHANGED captureVars /\ step' = step /\ step[j] = "begin"
        /\ \A k \in Invocation \ {j} : pc'[k] = pc[k]
    BY <1>0, <1>1 DEF GuardStep, GuardDies, ClaimCreates, ClaimFindsFile, SaveFlag, SaveToken,
                      SaveDuplicate, Post, MainDies, Goto, StepsFit
  <2> QED
    BY <2>1
<1>2. ASSUME NEW j \in Invocation,
             InstallHooks(j) \/ PrepareReturns(j) \/ PrepareThrows(j)
      PROVE  FALSE
  <2>1. /\ pc[j] = "preparing" /\ step'[j] # "reported"
        /\ \A k \in Invocation \ {j} : pc'[k] = pc[k] /\ step'[k] = step[k]
    BY <1>0, <1>2 DEF InstallHooks, PrepareReturns, PrepareThrows, PrepareEnds, Goto, Advance, vars
  <2>2. i # j
    BY <2>1
  <2>3. pc[i] \in {"finalizing", "finalized"}
    BY <2>1, <2>2
  <2> QED
    BY <2>1, <2>2, <2>3, OneAtWork
<1>3. ASSUME NEW j \in Invocation, FinalizeThrows(j) PROVE FALSE
  <2>1. /\ pc[j] = "finalizing" /\ step'[j] = "threw" /\ pc' = pc
    BY <1>0, <1>3 DEF FinalizeThrows, Advance, vars
  <2>2. i # j
    BY <2>1
  <2> QED
    BY <2>1, <2>2, OneAtWork
<1>4. ASSUME NEW j \in Invocation, FinalizeReturns(j)
      PROVE  Reported(i) /\ UNCHANGED captureVars
  <2>1. /\ UNCHANGED captureVars /\ step' = step /\ pc[j] = "finalizing"
        /\ \A k \in Invocation \ {j} : pc'[k] = pc[k]
    BY <1>0, <1>4 DEF FinalizeReturns, FinalizeEnds, Goto
  <2> QED
    BY <2>1
<1>5. ASSUME NEW j \in Invocation, CollectBuildReport(j) PROVE CollectReport
  BY <1>5 DEF CollectBuildReport
<1>6. CASE GradleBuild
  BY <1>6 DEF GradleBuild, vars
<1>7. CASE Rerun
  BY <1>7 DEF Rerun, RerunJob
<1>8. CASE UNCHANGED jobVars
  BY <1>8 DEF jobVars, vars
<1> QED
  BY <1>1, <1>2, <1>3, <1>4, <1>5, <1>6, <1>7, <1>8 DEF JobNext, JobStep

LEMMA NoHookStep ==
  IInv /\ StepsFit /\ NoHookLeftBehind /\ [JobNext]_jobVars => NoHookLeftBehind'
<1> SUFFICES ASSUME IInv, StepsFit, NoHookLeftBehind, [JobNext]_jobVars,
                    NEW i \in Invocation, Reported(i)'
             PROVE  (hooks = {} \/ "warned" \in fault)'
  BY DEF NoHookLeftBehind
<1>1. CASE Reported(i) /\ UNCHANGED captureVars
  BY <1>1 DEF NoHookLeftBehind, captureVars
<1>2. CASE CollectReport
  BY <1>2 DEF CollectReport, RemoveHooks
<1> QED
  BY <1>1, <1>2, ReportedStep

-----------------------------------------------------------------------------
\* A file has the id its build ran under; ids are numbers of builds that ran;
\* and a build that ran under its own number and met no error left its file.
Past == 1 .. builds

FilesFit ==
  /\ builds \in 0 .. MaxBuild /\ storedId \in 0 .. builds
  /\ ran \subseteq Past \X Past /\ recorded \subseteq Past
  /\ \A r \in results : <<r.build, r.id>> \in ran
  /\ \A s \in scans : <<s.build, s.id>> \in ran
  /\ \A b \in recorded : <<b, b>> \in ran => \E r \in results : r.complete /\ r.build = b

\* A build's steps, with the id it ran under.
LEMMA BuildKeepsFiles ==
  ASSUME FilesFit, builds < MaxBuild, builds' = builds + 1, NEW id \in InvocationId(builds'),
         RecordResult(builds', id), RecordScan(builds', id), storedId' \in {id, storedId},
         ran' = ran \cup {<<builds', id>>}
  PROVE  FilesFit'
<1> DEFINE b == builds'
<1>1. /\ builds \in Nat /\ b \in Nat /\ b \in Past' /\ b \notin Past /\ Past \subseteq Past'
      /\ id \in Past' /\ storedId \in 0 .. b /\ id \in 0 .. b /\ (id # b => id \in Past)
  BY CaptureAssumption DEF FilesFit, InvocationId, Past
<1>2. storedId' \in 0 .. builds' /\ builds' \in 0 .. MaxBuild
  BY <1>1, CaptureAssumption DEF FilesFit
<1>3. ran' \subseteq Past' \X Past'
  <2>1. ran \subseteq Past' \X Past'
    BY <1>1 DEF FilesFit
  <2>2. <<b, id>> \in Past' \X Past'
    BY <1>1
  <2> QED
    BY <2>1, <2>2
<1>4. /\ \A r \in results : r.build # b /\ r.id \in Past
      /\ \A p \in ran : p[1] \in Past
  BY <1>1 DEF FilesFit
<1>5. recorded' \subseteq Past'
  BY <1>1 DEF RecordResult, FilesFit
<1>6. \A r \in results' : <<r.build, r.id>> \in ran'
  <2>1. \A r \in results' :
          r \in results \/ r = [id |-> id, build |-> b, complete |-> TRUE]
                       \/ r = [id |-> id, build |-> b, complete |-> FALSE]
    BY DEF RecordResult
  <2>2. \A r \in results' : r \in results \/ (r.build = b /\ r.id = id)
    BY <2>1
  <2> QED
    BY <2>2 DEF FilesFit
<1>7. \A s \in scans' : <<s.build, s.id>> \in ran'
  <2>1. \A s \in scans' : s \in scans \/ s = [id |-> id, build |-> b]
    BY DEF RecordScan
  <2>2. \A s \in scans' : s \in scans \/ (s.build = b /\ s.id = id)
    BY <2>1
  <2> QED
    BY <2>2 DEF FilesFit
<1>8. ASSUME NEW c \in recorded', <<c, c>> \in ran'
      PROVE  \E r \in results' : r.complete /\ r.build = c
  <2>1. results \subseteq results'
    BY DEF RecordResult
  <2>2. CASE c \in recorded /\ c # b
    BY <1>8, <2>1, <2>2 DEF FilesFit
  <2>3. CASE c = b
    <3>1. <<b, b>> \notin ran
      BY <1>1 DEF FilesFit
    <3>2. id = b
      BY <1>8, <2>3, <3>1
    <3>3. NameFree(results, id)
      BY <1>1, <1>4, <3>2 DEF NameFree
    <3>4. b \notin recorded
      BY <1>1 DEF FilesFit
    <3>5. results' = results \cup {[id |-> id, build |-> b, complete |-> TRUE]}
      BY <1>8, <2>3, <3>3, <3>4 DEF RecordResult
    <3> DEFINE q == [id |-> id, build |-> b, complete |-> TRUE]
    <3>6. q \in results' /\ q.complete /\ q.build = b
      BY <3>5
    <3> QED
      BY <2>3, <3>6
  <2>4. c \in recorded \/ c = b
    BY <1>8 DEF RecordResult
  <2> QED
    BY <2>2, <2>3, <2>4
<1> QED
  BY <1>1, <1>2, <1>3, <1>5, <1>6, <1>7, <1>8 DEF FilesFit

LEMMA FilesFitStep == FilesFit /\ [JobNext]_jobVars => FilesFit'
<1> SUFFICES ASSUME FilesFit, [JobNext]_jobVars PROVE FilesFit'
  OBVIOUS
<1>1. CASE UNCHANGED <<builds, storedId, captureFiles>>
  BY <1>1 DEF FilesFit, Past, captureFiles
<1>2. CASE GradleBuild
  <2>1. PICK id \in InvocationId(builds') :
          /\ RecordResult(builds', id) /\ RecordScan(builds', id)
          /\ storedId' \in {id, storedId} /\ ran' = ran \cup {<<builds', id>>}
    BY <1>2 DEF GradleBuild, CapturedBuild
  <2>2. builds < MaxBuild /\ builds' = builds + 1
    BY <1>2 DEF GradleBuild, CapturedBuild
  <2> QED
    BY <2>1, <2>2, BuildKeepsFiles
<1>3. CASE Rerun
  <2>1. /\ results' = {} /\ scans' = {} /\ ran' = {} /\ recorded' = {}
        /\ builds' = builds /\ storedId' \in {0, storedId}
    BY <1>3 DEF Rerun, CaptureRerun
  <2>2. 0 \in 0 .. builds
    BY CaptureAssumption DEF FilesFit
  <2> QED
    BY <2>1, <2>2 DEF FilesFit, Past
<1>4. ASSUME NEW i \in Invocation, JobStep(i) \/ GuardDies(i)
      PROVE  UNCHANGED <<builds, storedId, captureFiles>>
  <2>1. CASE GuardStep(i) \/ GuardDies(i) \/ PrepareReturns(i) \/ FinalizeReturns(i)
    BY <2>1 DEF GuardStep, GuardDies, PrepareReturns, FinalizeReturns, captureVars
  <2>2. CASE InstallHooks(i) \/ PrepareThrows(i)
    BY <2>2 DEF InstallHooks, WriteInitScript, WritePlugin, InstallFails, PrepareThrows
  <2>3. CASE CollectBuildReport(i) \/ FinalizeThrows(i)
    BY <2>3 DEF CollectBuildReport, CollectReport, FinalizeThrows, CollectDies, captureVars
  <2> QED
    BY <1>4, <2>1, <2>2, <2>3 DEF JobStep
<1>5. CASE UNCHANGED jobVars
  BY <1>1, <1>5 DEF jobVars, captureVars
<1> QED
  BY <1>1, <1>2, <1>3, <1>4, <1>5 DEF JobNext

\* What a report made of fitting files may lack or mix up.
LEMMA ReportOfFiles ==
  ASSUME FilesFit
  PROVE  /\ \A b \in recorded : <<b, b>> \in ran => \E r \in Report : r.build = b
         /\ \A r \in Report : r.scan \notin {0, r.build} =>
              \E id \in Past : {<<r.build, id>>, <<r.scan, id>>} \subseteq ran
<1> DEFINE Scan(r) == IF \E s \in scans : s.id = r.id
                      THEN (CHOOSE s \in scans : s.id = r.id).build ELSE 0
           Line(r) == [build |-> r.build, scan |-> Scan(r)]
<1>1. Report = {Line(r) : r \in Loaded}
  BY DEF Report
<1>2. ASSUME NEW b \in recorded, <<b, b>> \in ran PROVE \E r \in Report : r.build = b
  <2>1. PICK q \in results : q.complete /\ q.build = b
    BY <1>2 DEF FilesFit
  <2>2. Line(q) \in Report /\ Line(q).build = b
    BY <1>1, <2>1 DEF Loaded
  <2> QED
    BY <2>2
<1>3. ASSUME NEW r \in Report, r.scan \notin {0, r.build}
      PROVE  \E id \in Past : {<<r.build, id>>, <<r.scan, id>>} \subseteq ran
  <2>1. PICK q \in Loaded : r = Line(q)
    BY <1>1
  <2>2. r.build = q.build /\ r.scan = Scan(q) /\ q \in results
    BY <2>1 DEF Loaded
  <2>3. \E s \in scans : s.id = q.id
    BY <1>3, <2>2
  <2>4. PICK s \in scans : s.id = q.id /\ r.scan = s.build
    BY <2>2, <2>3
  <2>5. <<r.build, q.id>> \in ran /\ <<r.scan, q.id>> \in ran
    BY <2>2, <2>4 DEF FilesFit
  <2>6. q.id \in Past
    BY <2>5 DEF FilesFit
  <2> QED
    BY <2>5, <2>6
<1> HIDE DEF Scan, Line
<1> QED
  BY <1>2, <1>3

LEMMA ReuseStep ==
  /\ IInv /\ StepsFit /\ FilesFit /\ FilesFit' /\ ReuseExplainsLoss /\ [JobNext]_jobVars
  => ReuseExplainsLoss'
<1> SUFFICES ASSUME IInv, StepsFit, FilesFit, ReuseExplainsLoss, [JobNext]_jobVars,
                    NEW i \in Invocation, Reported(i)'
             PROVE  (/\ \A b \in recorded : <<b, b>> \in ran => \E r \in report : r.build = b
                     /\ \A r \in report : r.scan \notin {0, r.build} =>
                          \E id \in Build : {<<r.build, id>>, <<r.scan, id>>} \subseteq ran)'
  BY DEF ReuseExplainsLoss
<1>1. CASE Reported(i) /\ UNCHANGED captureVars
  BY <1>1 DEF ReuseExplainsLoss, captureVars, captureFiles
<1>2. CASE CollectReport
  <2>1. report' = Report /\ UNCHANGED <<ran, recorded>>
    BY <1>2 DEF CollectReport, captureFiles
  <2>2. Past \subseteq Build
    BY CaptureAssumption DEF FilesFit, Past, Build
  <2> QED
    BY <2>1, <2>2, ReportOfFiles
<1> QED
  BY <1>1, <1>2, ReportedStep

-----------------------------------------------------------------------------
JobInv ==
  /\ IInv /\ StepsFit /\ FilesFit
  /\ BreakageIsAnnounced /\ NoHookLeftBehind /\ ReuseExplainsLoss

\* The invariant of guard and capture holds in every reachable state.
THEOREM JobSpecInv == JobSpec => []JobInv
<1>1. JobInit => JobInv
  <2> SUFFICES ASSUME JobInit PROVE JobInv
    OBVIOUS
  <2>1. IInv
    BY InitIInv DEF JobInit
  <2>2. StepsFit
    BY DEF JobInit, StepsFit, StepName
  <2>3. FilesFit
    BY CaptureAssumption DEF JobInit, CaptureInit, FilesFit, Past
  <2>4. BreakageIsAnnounced
    BY DEF JobInit, CaptureInit, BreakageIsAnnounced, BuildsBroken
  <2>5. NoHookLeftBehind /\ ReuseExplainsLoss
    BY DEF JobInit, NoHookLeftBehind, ReuseExplainsLoss, Reported
  <2> QED
    BY <2>1, <2>2, <2>3, <2>4, <2>5 DEF JobInv
<1>2. JobInv /\ [JobNext]_jobVars => JobInv'
  BY GuardStepIInv, JobRefinesGuard, StepsFitStep, FilesFitStep, BreakageStep, NoHookStep,
     ReuseStep DEF JobInv
<1> QED
  BY <1>1, <1>2, PTL DEF JobSpec

\* Only the invocation that created the guard file prepares or finalizes, also
\* with the capture it installs and removes.
THEOREM SpecOneOwner == JobSpec => []OneOwner
<1>1. JobInv => OneOwner
  BY IInvOwner DEF JobInv, IInv
<1> QED
  BY JobSpecInv, <1>1, PTL

\* A rejected invocation lost to another one of the same attempt.
THEOREM SpecRejectedByAnother == JobSpec => []RejectedByAnother
<1>1. JobInv => RejectedByAnother
  BY IInvOwner DEF JobInv, IInv
<1> QED
  BY JobSpecInv, <1>1, PTL

\* A half-installed capture breaks builds only after a warning or a death.
THEOREM SpecBreakageIsAnnounced == JobSpec => []BreakageIsAnnounced
<1>1. JobInv => BreakageIsAnnounced
  BY IInvOwner DEF JobInv, IInv
<1> QED
  BY JobSpecInv, <1>1, PTL

\* Behind a report no capture file stays without a warning.
THEOREM SpecNoHookLeftBehind == JobSpec => []NoHookLeftBehind
<1>1. JobInv => NoHookLeftBehind
  BY IInvOwner DEF JobInv, IInv
<1> QED
  BY JobSpecInv, <1>1, PTL

\* Only a reused id loses a written result or mixes up a scan.
THEOREM SpecReuseExplainsLoss == JobSpec => []ReuseExplainsLoss
<1>1. JobInv => ReuseExplainsLoss
  BY IInvOwner DEF JobInv, IInv
<1> QED
  BY JobSpecInv, <1>1, PTL

\* The composition implements the guard: neither capture nor builds change what
\* the invocations agree on.
THEOREM SpecGuard == JobSpec => Init /\ [][Next]_vars
<1>1. JobInit => Init
  BY DEF JobInit
<1> QED
  BY <1>1, JobRefinesGuard, PTL DEF JobSpec

-----------------------------------------------------------------------------
\* The base cache of the job.

\* Prepare knows its restore result until it returns.
Restored == {"restored", "pruned", "settled", "prepared"}

\* The generation that was hit is in the store and in the job's family; the
\* environment does not change while prepare runs.
FoundBase ==
  /\ phase \in Restored => found \in RestoreResult
  /\ (phase \in Restored /\ found.base > 0) =>
       /\ found.base \in DOMAIN generations
       /\ generations[found.base].family = CacheFamily

\* Nothing but one generation is on the runner when the restore was exact.
FoundExact ==
  /\ phase = "pruned" => tree = {}
  /\ (phase \in {"restored", "settled"} /\ found.base > 0 /\ found.exact) =>
       Published(CacheFamily, tree)

\* The recorded base keeps its family, whatever the environment becomes.
RecordedBase ==
  (lifecycle # NoRecord /\ lifecycle.base > 0) =>
    /\ lifecycle.base \in DOMAIN generations
    /\ generations[lifecycle.base].family = lifecycle.family

\* From its reconciliation to its end finalize runs under the record's identity.
Reconciled ==
  phase \in {"reconciled", "swept", "decided"} =>
    lifecycle # NoRecord /\ lifecycle.family = CacheFamily

\* An outcome and a summary exist from the decision on; success has few reasons.
Decided ==
  /\ outcome # "none" => phase \in {"decided", "ended"} /\ lifecycle # NoRecord
  /\ phase = "decided" => outcome # "none"
  /\ summary # "none" => phase = "ended"
  /\ summary = "success" => outcome \in {"not eligible", "not required", "saved"}

\* What finalize leaves without a warning is known, the saved state included.
KnownOutcome ==
  /\ outcome = "saved" => Published(lifecycle.family, tree)
  /\ UnsavedIsKnown

\* The job's own generations and their bases are in the store.
OwnInStore ==
  \A p \in ours :
    /\ p[1] \in DOMAIN generations
    /\ p[2] > 0 => p[2] \in DOMAIN generations /\ generations[p[1]].family = generations[p[2]].family

LifecycleInv ==
  /\ LifecycleTypeOK
  /\ FoundBase /\ FoundExact /\ RecordedBase /\ ExactBase
  /\ Reconciled /\ Decided /\ KnownOutcome /\ OwnInStore
-----------------------------------------------------------------------------
\* Generations are never removed or replaced.
StoreKept ==
  \A n \in DOMAIN generations : n \in DOMAIN generations' /\ generations'[n] = generations[n]

LEMMA FamilyTyped == CacheTypeOK => CacheFamily \in Family
  BY DEF CacheTypeOK, CacheFamily, Family

\* What a restore finds is a generation of the family, with managed files.
LEMMA RestorableFacts ==
  ASSUME CacheTypeOK, NEW f
  PROVE  /\ \A n \in Restorable(f) :
              /\ n \in DOMAIN generations /\ n \in Nat \ {0}
              /\ generations[n].family = f
              /\ generations[n].content \in Content
         /\ PartlyRestored(f) \subseteq Content
<1>1. \A n \in Restorable(f) : n \in DOMAIN generations /\ generations[n].family = f
  BY DEF Restorable, Newest, Candidate
<1>2. generations \in Seq(Generation)
  BY DEF CacheTypeOK
<1>3. \A n \in DOMAIN generations : n \in Nat \ {0} /\ generations[n] \in Generation
  <2> HIDE DEF Generation
  <2> QED  BY <1>2
<1>4. \A n \in DOMAIN generations : generations[n].content \in Content
  BY <1>3 DEF Generation
<1>5. PartlyRestored(f) \subseteq Content
  <2> SUFFICES ASSUME NEW t \in PartlyRestored(f) PROVE t \in Content
    OBVIOUS
  <2>1. CASE t = tree
    BY <2>1 DEF CacheTypeOK
  <2>2. CASE \E n \in Restorable(f) : \E c \in SUBSET generations[n].content : t = tree \cup c
    <3>1. PICK n \in Restorable(f) : \E c \in SUBSET generations[n].content : t = tree \cup c
      BY <2>2
    <3>2. generations[n].content \in Content /\ tree \in Content
      BY <1>1, <1>4 DEF CacheTypeOK
    <3> QED  BY <3>1, <3>2 DEF Content
  <2> QED  BY <2>1, <2>2 DEF PartlyRestored
<1> QED  BY <1>1, <1>3, <1>4, <1>5

\* A publication adds one generation at the end.
LEMMA PublicationAppends ==
  ASSUME CacheTypeOK, NEW g \in Generation, Publish(g)
  PROVE  /\ generations' \in Seq(Generation) /\ StoreKept
         /\ Len(generations') \in DOMAIN generations' /\ Len(generations') \notin DOMAIN generations
         /\ generations'[Len(generations')] = g
<1> HIDE DEF Generation
<1>1. generations \in Seq(Generation) /\ generations' = Append(generations, g)
  BY DEF CacheTypeOK, Publish
<1>2. /\ generations' \in Seq(Generation) /\ Len(generations') = Len(generations) + 1
      /\ Len(generations) \in Nat
      /\ \A n \in 1 .. Len(generations) : generations'[n] = generations[n]
      /\ generations'[Len(generations) + 1] = g
  BY <1>1, AppendProperties
<1>3. DOMAIN generations = 1 .. Len(generations) /\ DOMAIN generations' = 1 .. Len(generations')
  BY <1>1, <1>2
<1> QED  BY <1>2, <1>3 DEF StoreKept

LEMMA NewGenerationTyped == LifecycleTypeOK => NewGeneration \in Generation
<1> SUFFICES ASSUME LifecycleTypeOK PROVE NewGeneration \in Generation
  OBVIOUS
<1>1. CacheFamily \in Family /\ tree \in Content /\ jobAttempt \in Nat
  BY FamilyTyped, LifecycleAssumption DEF LifecycleTypeOK, CacheTypeOK
<1> QED  BY <1>1 DEF NewGeneration, Generation, Lineage

\* Another job's publication leaves this runner alone.
LEMMA OtherJobFacts ==
  ASSUME LifecycleTypeOK, OtherJob
  PROVE  CacheTypeOK' /\ StoreKept /\ UNCHANGED <<tree, java, lifecycleVars>>
<1>1. PICK g \in [family : Family, lineage : Lineage, id : {0, jobAttempt},
                  content : Content \ {{}}] : Publish(g)
  BY DEF OtherJob, OtherPublishes
<1>2. g \in Generation
  BY <1>1, LifecycleAssumption DEF Generation, LifecycleTypeOK
<1>3. generations' \in Seq(Generation) /\ StoreKept
  BY <1>1, <1>2, PublicationAppends DEF LifecycleTypeOK
<1>4. others' \in 0 .. MaxOther
  BY BaseCacheAssumption DEF OtherJob, OtherPublishes, LifecycleTypeOK, CacheTypeOK
<1> QED
  BY <1>3, <1>4 DEF OtherJob, OtherPublishes, LifecycleTypeOK, CacheTypeOK

\* The job's own publication, in the family of its environment.
LEMMA SavePublishesFacts ==
  ASSUME LifecycleTypeOK, SavePublishes
  PROVE  /\ CacheTypeOK' /\ StoreKept
         /\ Len(generations') \in DOMAIN generations'
         /\ generations'[Len(generations')].family = CacheFamily
         /\ generations'[Len(generations')].content = tree
<1>1. NewGeneration \in Generation /\ Publish(NewGeneration)
  BY NewGenerationTyped DEF SavePublishes
<1>2. /\ generations' \in Seq(Generation) /\ StoreKept
      /\ Len(generations') \in DOMAIN generations'
      /\ generations'[Len(generations')] = NewGeneration
  BY <1>1, PublicationAppends DEF LifecycleTypeOK
<1> QED  BY <1>2 DEF SavePublishes, LifecycleTypeOK, CacheTypeOK, NewGeneration

LEMMA StoreIsKept == LifecycleTypeOK /\ [LifecycleNext]_cacheJobVars => StoreKept
<1> SUFFICES ASSUME LifecycleTypeOK, [LifecycleNext]_cacheJobVars PROVE StoreKept
  OBVIOUS
<1>1. CASE OtherJob
  BY <1>1, OtherJobFacts
<1>2. CASE SavePublishes
  BY <1>2, SavePublishesFacts
<1>3. CASE UNCHANGED generations
  BY <1>3 DEF StoreKept
<1>4. ASSUME ~OtherJob, ~SavePublishes PROVE UNCHANGED generations
  BY <1>4 DEF LifecycleNext, Prepare, Finalize, RestoreHits, RestoreMisses, Prune, RestoreAgain,
     Persist, PrepareSucceeds, PrepareFails, ChangeManagedFiles, FinalizeStarts, Reconcile,
     CollectGarbage, SkipSave, SaveFails, Summarize, FinalizeFails, NextAttempt, cacheVars,
     cacheJobVars
<1> QED  BY <1>1, <1>2, <1>3, <1>4

\* What was published stays published.
LEMMA PublishedStays ==
  ASSUME StoreKept, NEW f, NEW c, Published(f, c)
  PROVE  \E n \in DOMAIN generations' : generations'[n].family = f /\ generations'[n].content = c
  BY DEF StoreKept, Published
-----------------------------------------------------------------------------
LEMMA LifecycleInitInv == LifecycleInit => LifecycleInv
<1> SUFFICES ASSUME LifecycleInit PROVE LifecycleInv
  OBVIOUS
<1>1. LifecycleTypeOK
  <2>1. generations \in Seq(Generation) /\ jobAttempt \in 1 .. MaxJobAttempt /\ others \in 0 .. MaxOther
    BY EmptySeq, LifecycleAssumption, BaseCacheAssumption DEF LifecycleInit, CacheInit
  <2> QED
    BY <2>1 DEF LifecycleInit, CacheInit, CacheTypeOK, LifecycleTypeOK, JobPhase, Outcome, Summary
<1>2. FoundBase /\ FoundExact /\ RecordedBase /\ ExactBase
  BY DEF LifecycleInit, FoundBase, FoundExact, RecordedBase, ExactBase, Restored
<1>3. Reconciled /\ Decided /\ KnownOutcome /\ OwnInStore
  BY DEF LifecycleInit, Reconciled, Decided, KnownOutcome, UnsavedIsKnown, OwnInStore
<1> QED  BY <1>1, <1>2, <1>3 DEF LifecycleInv

LEMMA LifecycleTypeStep ==
  ASSUME LifecycleInv, [LifecycleNext]_cacheJobVars
  PROVE  LifecycleTypeOK'
<1> USE DEF LifecycleTypeOK
<1>0. LifecycleTypeOK /\ CacheTypeOK
  BY DEF LifecycleInv
<1>1. CASE RestoreHits
  <2>1. \A n \in Restorable(CacheFamily) : n \in Nat /\ generations[n].content \in Content
    BY <1>0, RestorableFacts
  <2>2. tree' \in Content /\ found' \in RestoreResult
    BY <1>0, <1>1, <2>1 DEF RestoreHits, Overlay, RestoreResult, Content, CacheTypeOK
  <2> QED  BY <1>0, <1>1, <2>2 DEF RestoreHits, CacheTypeOK, Enter, JobPhase
<1>2. CASE RestoreMisses
  <2>1. tree' \in Content /\ found' \in RestoreResult
    BY <1>0, <1>2, RestorableFacts DEF RestoreMisses, RestoreResult
  <2> QED  BY <1>0, <1>2, <2>1 DEF RestoreMisses, CacheTypeOK, Enter, JobPhase
<1>3. CASE Prune
  BY <1>0, <1>3 DEF Prune, Pruned, Content, CacheTypeOK, Enter, JobPhase
<1>4. CASE RestoreAgain
  <2>1. found \in RestoreResult
    BY <1>4 DEF LifecycleInv, FoundBase, Restored, RestoreAgain
  <2>2. tree' \in Content /\ found' \in RestoreResult
    BY <1>0, <1>4, <2>1, RestorableFacts DEF RestoreAgain, Overlay, RestoreResult, Content, CacheTypeOK
  <2> QED  BY <1>0, <1>4, <2>2 DEF RestoreAgain, CacheTypeOK, Enter, JobPhase
<1>5. CASE Persist
  <2>1. found \in RestoreResult
    BY <1>5 DEF LifecycleInv, FoundBase, Restored, Persist
  <2>2. NewRecord \in LifecycleRecord
    BY <1>0, <2>1, FamilyTyped DEF NewRecord, LifecycleRecord, RestoreResult, CacheTypeOK
  <2> QED  BY <1>0, <1>5, <2>2 DEF Persist, CacheTypeOK, cacheVars, Enter, JobPhase
<1>6. CASE PrepareSucceeds
  BY <1>0, <1>6 DEF PrepareSucceeds, CacheTypeOK, cacheVars, Enter, JobPhase
<1>7. CASE PrepareFails
  <2>1. tree' \in Content
    BY <1>0, <1>7, RestorableFacts DEF PrepareFails, Content, CacheTypeOK
  <2> QED  BY <1>0, <1>7, <2>1 DEF PrepareFails, CacheTypeOK, Enter, JobPhase
<1>8. CASE ChangeManagedFiles
  BY <1>0, <1>8 DEF ChangeManagedFiles, CacheTypeOK, lifecycleVars
<1>9. CASE OtherJob
  BY <1>0, <1>9, OtherJobFacts DEF lifecycleVars
<1>10. CASE FinalizeStarts \/ Reconcile
  BY <1>0, <1>10 DEF FinalizeStarts, Reconcile, CacheTypeOK, cacheVars, Enter, JobPhase
<1>11. CASE CollectGarbage
  BY <1>0, <1>11 DEF CollectGarbage, Content, CacheTypeOK, Enter, JobPhase
<1>12. CASE SkipSave \/ SaveFails
  <2>1. phase' \in JobPhase /\ outcome' \in Outcome
    BY <1>12 DEF SkipSave, SaveFails, Ends, Enter, JobPhase, Outcome
  <2>2. UNCHANGED <<cacheVars, jobAttempt, found, lifecycle, summary, ours>>
    BY <1>12 DEF SkipSave, SaveFails
  <2> QED  BY <1>0, <2>1, <2>2 DEF CacheTypeOK, cacheVars
<1>13. CASE SavePublishes
  <2>1. CacheTypeOK' /\ Len(generations') \in Nat
    BY <1>0, <1>13, SavePublishesFacts DEF CacheTypeOK
  <2>2. lifecycle.base \in Nat
    <3>1. phase = "swept"
      BY <1>13 DEF SavePublishes, Ends
    <3> QED  BY <1>0, <3>1 DEF LifecycleInv, Reconciled, LifecycleRecord
  <2>3. phase' \in JobPhase /\ outcome' \in Outcome
    BY <1>13 DEF SavePublishes, Ends, Enter, JobPhase, Outcome
  <2>4. ours' \subseteq Nat \X Nat
    <3>1. ours \subseteq Nat \X Nat /\ <<Len(generations'), lifecycle.base>> \in Nat \X Nat
      BY <1>0, <2>1, <2>2
    <3> QED  BY <1>13, <3>1 DEF SavePublishes
  <2> QED  BY <1>0, <1>13, <2>1, <2>3, <2>4 DEF SavePublishes
<1>14. CASE Summarize
  BY <1>0, <1>14 DEF Summarize, CacheTypeOK, cacheVars, Enter, JobPhase, Summary
<1>15. CASE FinalizeFails
  BY <1>0, <1>15 DEF FinalizeFails, Content, CacheTypeOK, Enter, JobPhase
<1>16. CASE NextAttempt
  <2>1. jobAttempt' \in 1 .. MaxJobAttempt
    BY <1>0, <1>16, LifecycleAssumption DEF NextAttempt
  <2>2. CacheTypeOK'
    BY <1>0, <1>16 DEF NextAttempt, Content, CacheTypeOK
  <2> QED  BY <1>0, <1>16, <2>1, <2>2 DEF NextAttempt, Enter, JobPhase, Outcome, Summary
<1>17. CASE UNCHANGED cacheJobVars
  BY <1>0, <1>17 DEF cacheJobVars, cacheVars, lifecycleVars, CacheTypeOK
<1> QED
  BY <1>1, <1>2, <1>3, <1>4, <1>5, <1>6, <1>7, <1>8, <1>9, <1>10, <1>11, <1>12, <1>13, <1>14,
     <1>15, <1>16, <1>17
  DEF LifecycleNext, Prepare, Finalize
-----------------------------------------------------------------------------
\* What a step keeps that leaves the record, or the history, as it is.
LEMMA RecordKept ==
  ASSUME LifecycleInv, StoreKept, UNCHANGED lifecycle
  PROVE  RecordedBase' /\ ExactBase'
<1>1. RecordedBase'
  BY DEF LifecycleInv, RecordedBase, StoreKept
<1>2. ExactBase'
  BY PublishedStays DEF LifecycleInv, ExactBase, Published
<1> QED  BY <1>1, <1>2

LEMMA OwnKept ==
  ASSUME LifecycleInv, StoreKept, UNCHANGED ours
  PROVE  OwnInStore'
  BY DEF LifecycleInv, OwnInStore, StoreKept

\* Outside of prepare and of the end of finalize there is nothing to show.
LEMMA NothingFound == phase' \notin Restored => FoundBase' /\ FoundExact'
  BY DEF Restored, FoundBase, FoundExact

LEMMA NothingDecided ==
  ASSUME outcome' = "none", summary' = "none",
         phase' \notin {"reconciled", "swept", "decided"}
  PROVE  Reconciled' /\ Decided' /\ KnownOutcome'
  BY DEF Reconciled, Decided, KnownOutcome, UnsavedIsKnown

LEMMA Undecided ==
  LifecycleInv /\ phase \notin {"decided", "ended"} => outcome = "none" /\ summary = "none"
  BY DEF LifecycleInv, Decided

-----------------------------------------------------------------------------
LEMMA PrepareStep ==
  ASSUME LifecycleInv, StoreKept, LifecycleTypeOK', Prepare
  PROVE  LifecycleInv'
<1>1. UNCHANGED <<generations, java, outcome, summary, ours>>
  BY DEF Prepare, RestoreHits, RestoreMisses, Prune, RestoreAgain, Persist, PrepareSucceeds,
         PrepareFails, cacheVars
<1>2. phase \notin {"decided", "ended"} /\ phase' \notin {"reconciled", "swept", "decided"}
  BY DEF Prepare, RestoreHits, RestoreMisses, Prune, RestoreAgain, Persist, PrepareSucceeds,
         PrepareFails, Enter
<1>3. Reconciled' /\ Decided' /\ KnownOutcome'
  BY <1>1, <1>2, Undecided, NothingDecided
<1>4. OwnInStore'
  BY <1>1, OwnKept
<1>5. FoundBase' /\ FoundExact'
  <2> USE DEF FoundBase, FoundExact, Restored
  <2>0. CacheTypeOK /\ CacheFamily' = CacheFamily
    BY <1>1 DEF LifecycleInv, LifecycleTypeOK, CacheFamily
  <2>1. CASE RestoreHits
    <3>1. PICK n \in Restorable(CacheFamily) :
            /\ tree' = tree \cup generations[n].content
            /\ found' = [base |-> n, exact |-> tree = {}]
      BY <2>1 DEF RestoreHits, Overlay
    <3>2. n \in DOMAIN generations /\ n \in Nat /\ generations[n].family = CacheFamily
      BY <2>0, RestorableFacts
    <3>3. phase' = "restored" /\ FoundBase'
      BY <1>1, <2>0, <2>1, <3>1, <3>2 DEF RestoreHits, Enter, RestoreResult
    <3>4. found'.exact => tree' = generations[n].content
      BY <3>1
    <3> QED  BY <1>1, <2>0, <3>2, <3>3, <3>4 DEF Published
  <2>2. CASE RestoreMisses
    BY <2>2 DEF RestoreMisses, Enter, RestoreResult
  <2>3. CASE Prune
    BY <1>1, <2>0, <2>3 DEF Prune, Enter, Pruned, LifecycleInv
  <2>4. CASE RestoreAgain
    <3>1. PICK n \in Restorable(CacheFamily) : tree' = tree \cup generations[n].content
      BY <2>4 DEF RestoreAgain, Overlay
    <3>2. n \in DOMAIN generations /\ generations[n].family = CacheFamily
      BY <2>0, RestorableFacts
    <3>3. tree' = generations[n].content
      BY <2>4, <3>1 DEF RestoreAgain, LifecycleInv
    <3>4. found \in RestoreResult /\ found' = [found EXCEPT !.exact = TRUE] /\ phase' = "settled"
      BY <2>4 DEF RestoreAgain, LifecycleInv, Enter
    <3>5. FoundBase'
      BY <1>1, <2>0, <2>4, <3>4 DEF RestoreAgain, LifecycleInv, RestoreResult
    <3> QED  BY <1>1, <2>0, <3>2, <3>3, <3>4, <3>5 DEF Published
  <2>5. CASE Persist
    BY <1>1, <2>0, <2>5 DEF Persist, Enter, LifecycleInv
  <2>6. CASE PrepareSucceeds \/ PrepareFails
    BY <2>6 DEF PrepareSucceeds, PrepareFails, Enter
  <2> QED  BY <2>1, <2>2, <2>3, <2>4, <2>5, <2>6 DEF Prepare
<1>6. RecordedBase' /\ ExactBase'
  <2>1. CASE Persist
    <3>1. /\ lifecycle'.base = found.base /\ lifecycle'.exact = found.exact
          /\ lifecycle'.family = CacheFamily /\ lifecycle'.pre = tree
          /\ phase \in {"restored", "settled"}
      BY <2>1 DEF Persist, NewRecord
    <3> QED
      BY <1>1, <3>1 DEF LifecycleInv, FoundBase, FoundExact, Restored, RecordedBase, ExactBase, Published
  <2>2. CASE UNCHANGED lifecycle
    BY <2>2, RecordKept
  <2> QED
    BY <2>1, <2>2 DEF Prepare, RestoreHits, RestoreMisses, Prune, RestoreAgain, PrepareSucceeds,
                      PrepareFails
<1> QED  BY <1>3, <1>4, <1>5, <1>6 DEF LifecycleInv

\* The steps of the workflow and other jobs.
LEMMA EnvironmentStep ==
  ASSUME LifecycleInv, StoreKept, LifecycleTypeOK', ChangeManagedFiles \/ OtherJob
  PROVE  LifecycleInv'
<1>1. UNCHANGED lifecycleVars
  BY DEF ChangeManagedFiles, OtherJob
<1>2. RecordedBase' /\ ExactBase' /\ OwnInStore'
  BY <1>1, RecordKept, OwnKept DEF lifecycleVars
<1>3. CASE ChangeManagedFiles
  <2>1. phase' \notin Restored /\ phase \in {"idle", "between"} /\ phase' = phase
    BY <1>1, <1>3 DEF ChangeManagedFiles, Restored, lifecycleVars
  <2>2. outcome' = "none" /\ summary' = "none"
    BY <1>1, <2>1, Undecided DEF lifecycleVars
  <2> QED  BY <1>2, <2>1, <2>2, NothingFound, NothingDecided DEF LifecycleInv
<1>4. CASE OtherJob
  <2>1. UNCHANGED <<tree, java, lifecycleVars>> /\ CacheFamily' = CacheFamily
    BY <1>4, OtherJobFacts DEF LifecycleInv, CacheFamily
  <2>2. FoundBase'
    BY <2>1 DEF LifecycleInv, FoundBase, StoreKept, lifecycleVars
  <2>3. FoundExact'
    BY <2>1, PublishedStays DEF LifecycleInv, FoundExact, Published, lifecycleVars
  <2>4. Reconciled' /\ Decided'
    BY <2>1 DEF LifecycleInv, Reconciled, Decided, lifecycleVars
  <2>5. KnownOutcome'
    <3>1. Published(lifecycle.family, tree) => Published(lifecycle.family, tree)'
      BY <2>1, PublishedStays DEF Published, lifecycleVars
    <3>2. KnownOutcome /\ UNCHANGED <<tree, lifecycle, outcome>>
      BY <2>1 DEF LifecycleInv, lifecycleVars
    <3> QED  BY <3>1, <3>2 DEF KnownOutcome, UnsavedIsKnown
  <2> QED  BY <1>2, <2>2, <2>3, <2>4, <2>5 DEF LifecycleInv
<1> QED  BY <1>3, <1>4

-----------------------------------------------------------------------------
\* Nothing to publish, and a key that is taken, mean that the state is known.
LEMMA SkippedIsKnown ==
  ASSUME LifecycleInv, SkipSave \/ SaveFails
  PROVE  (outcome' \in {"not required", "not saved"} /\ lifecycle.exact) =>
           tree = {} \/ Published(lifecycle.family, tree)
<1>1. phase = "swept" /\ lifecycle # NoRecord /\ lifecycle.family = CacheFamily
  BY DEF LifecycleInv, Reconciled, SkipSave, SaveFails, Ends
<1>2. ASSUME outcome' = "not required", lifecycle.exact
      PROVE  tree = {} \/ Published(lifecycle.family, tree)
  <2>1. ~GenerationRequired
    BY <1>2 DEF SkipSave, SaveFails, Ends
  <2>2. lifecycle.pre = tree /\ (lifecycle.base > 0 \/ tree = {})
    BY <2>1 DEF GenerationRequired, Required
  <2> QED  BY <1>1, <1>2, <2>2 DEF LifecycleInv, ExactBase
<1>3. ASSUME outcome' = "not saved"
      PROVE  Published(lifecycle.family, tree)
  <2>1. KeyTaken(NewGeneration)
    BY <1>3 DEF SkipSave, SaveFails, Ends
  <2> QED  BY <1>1, <2>1 DEF KeyTaken, NewGeneration, Published
<1> QED  BY <1>2, <1>3

LEMMA DecisionStep ==
  ASSUME LifecycleInv, StoreKept, LifecycleTypeOK', SkipSave \/ SaveFails \/ SavePublishes
  PROVE  LifecycleInv'
<1>1. phase = "swept" /\ phase' = "decided" /\ UNCHANGED <<tree, java, lifecycle, summary>>
  BY DEF SkipSave, SaveFails, SavePublishes, Ends, Enter, cacheVars
<1>2. FoundBase' /\ FoundExact' /\ RecordedBase' /\ ExactBase'
  BY <1>1, NothingFound, RecordKept DEF Restored
<1>3. /\ lifecycle # NoRecord /\ lifecycle.family = CacheFamily /\ summary = "none"
      /\ CacheFamily' = CacheFamily
  BY <1>1, Undecided DEF LifecycleInv, Reconciled, CacheFamily
<1>4. Reconciled'
  BY <1>1, <1>3 DEF Reconciled
<1>5. Decided'
  <2>1. outcome' # "none"
    BY DEF SkipSave, SaveFails, SavePublishes, Ends
  <2> QED  BY <1>1, <1>3, <2>1 DEF Decided
<1>6. KnownOutcome' /\ OwnInStore'
  <2>1. CASE SkipSave \/ SaveFails
    <3>1. UNCHANGED <<generations, ours>> /\ outcome' # "saved"
      BY <2>1 DEF SkipSave, SaveFails, Ends, cacheVars
    <3> QED
      BY <1>1, <2>1, <3>1, SkippedIsKnown, OwnKept DEF KnownOutcome, UnsavedIsKnown, Published
  <2>2. CASE SavePublishes
    <3>1. /\ Len(generations') \in DOMAIN generations'
          /\ generations'[Len(generations')].family = CacheFamily
          /\ generations'[Len(generations')].content = tree
      BY <2>2, SavePublishesFacts DEF LifecycleInv
    <3>2. outcome' \in {"saved", "failed"} /\ ours' = ours \cup {<<Len(generations'), lifecycle.base>>}
      BY <2>2 DEF SavePublishes, Ends
    <3>3. KnownOutcome'
      BY <1>1, <1>3, <3>1, <3>2 DEF KnownOutcome, UnsavedIsKnown, Published
    <3>4. ASSUME NEW p \in ours'
          PROVE  /\ p[1] \in DOMAIN generations'
                 /\ p[2] > 0 => /\ p[2] \in DOMAIN generations'
                                /\ generations'[p[1]].family = generations'[p[2]].family
      <4>1. CASE p \in ours
        BY <4>1 DEF LifecycleInv, OwnInStore, StoreKept
      <4>2. CASE p = <<Len(generations'), lifecycle.base>>
        <5>1. p[1] = Len(generations') /\ p[2] = lifecycle.base
          BY <4>2
        <5>2. lifecycle.base > 0 =>
                /\ lifecycle.base \in DOMAIN generations'
                /\ generations'[lifecycle.base].family = CacheFamily
          BY <1>3 DEF LifecycleInv, RecordedBase, StoreKept
        <5> QED  BY <3>1, <5>1, <5>2
      <4> QED  BY <3>2, <4>1, <4>2
    <3> QED  BY <3>3, <3>4 DEF OwnInStore
  <2> QED  BY <2>1, <2>2
<1> QED  BY <1>2, <1>4, <1>5, <1>6 DEF LifecycleInv

LEMMA FinalizeStep ==
  ASSUME LifecycleInv, StoreKept, LifecycleTypeOK', Finalize
  PROVE  LifecycleInv'
<1>1. CASE SkipSave \/ SaveFails \/ SavePublishes
  BY <1>1, DecisionStep
<1>2. ASSUME FinalizeStarts \/ Reconcile \/ CollectGarbage \/ Summarize \/ FinalizeFails
      PROVE  LifecycleInv'
  <2>1. /\ UNCHANGED <<generations, java, lifecycle, outcome, ours>>
        /\ phase' \notin Restored /\ CacheFamily' = CacheFamily
    BY <1>2 DEF FinalizeStarts, Reconcile, CollectGarbage, Summarize, FinalizeFails, Enter,
                Restored, cacheVars, CacheFamily
  <2>2. FoundBase' /\ FoundExact' /\ RecordedBase' /\ ExactBase' /\ OwnInStore'
    BY <2>1, NothingFound, RecordKept, OwnKept
  <2>3. CASE FinalizeStarts \/ Reconcile \/ CollectGarbage
    <3>1. /\ phase \notin {"decided", "ended"} /\ phase' \notin {"decided", "ended"}
          /\ summary' = summary
      BY <2>3 DEF FinalizeStarts, Reconcile, CollectGarbage, Enter
    <3>2. outcome' = "none" /\ summary' = "none"
      BY <2>1, <3>1, Undecided
    <3>3. Reconciled'
      <4>1. CASE FinalizeStarts
        BY <4>1 DEF FinalizeStarts, Enter, Reconciled
      <4>2. CASE Reconcile
        BY <2>1, <4>2 DEF Reconcile, SameIdentity, Reconciled
      <4>3. CASE CollectGarbage
        BY <2>1, <4>3 DEF CollectGarbage, LifecycleInv, Reconciled
      <4> QED  BY <2>3, <4>1, <4>2, <4>3
    <3>4. Decided' /\ KnownOutcome'
      BY <3>1, <3>2 DEF Decided, KnownOutcome, UnsavedIsKnown
    <3> QED  BY <2>2, <3>3, <3>4 DEF LifecycleInv
  <2>4. CASE Summarize
    <3>1. phase = "decided" /\ phase' = "ended" /\ tree' = tree
      BY <2>4 DEF Summarize, Enter, cacheVars
    <3>2. summary' = "success" => ~SaveWarning
      BY <2>4 DEF Summarize
    <3>3. outcome \in Outcome \ {"none"} /\ lifecycle # NoRecord
      BY <3>1 DEF LifecycleInv, LifecycleTypeOK, Decided
    <3>4. Reconciled' /\ Decided'
      BY <2>1, <3>1, <3>2, <3>3 DEF Reconciled, Decided, SaveWarning, Outcome
    <3>5. KnownOutcome'
      BY <2>1, <3>1 DEF LifecycleInv, KnownOutcome, UnsavedIsKnown, Published
    <3> QED  BY <2>2, <3>4, <3>5 DEF LifecycleInv
  <2>5. CASE FinalizeFails
    <3>1. phase' = "ended" /\ summary' = summary
      BY <2>5 DEF FinalizeFails, Enter
    <3>2. phase # "ended" => summary = "none"
      BY DEF LifecycleInv, Decided
    <3>3. phase # "ended"
      BY <2>5 DEF FinalizeFails
    <3>4. Reconciled' /\ Decided'
      BY <2>1, <3>1, <3>2, <3>3 DEF LifecycleInv, Reconciled, Decided
    <3>5. outcome # "none" => phase = "decided"
      BY <3>3 DEF LifecycleInv, Decided
    <3>6. outcome # "none" => tree' = tree
      BY <2>5, <3>5 DEF FinalizeFails
    <3>7. KnownOutcome'
      BY <2>1, <3>6 DEF LifecycleInv, KnownOutcome, UnsavedIsKnown, Published
    <3> QED  BY <2>2, <3>4, <3>7 DEF LifecycleInv
  <2> QED  BY <1>2, <2>3, <2>4, <2>5
<1> QED  BY <1>1, <1>2 DEF Finalize

LEMMA LifecycleNextInv == LifecycleInv /\ [LifecycleNext]_cacheJobVars => LifecycleInv'
<1> SUFFICES ASSUME LifecycleInv, [LifecycleNext]_cacheJobVars PROVE LifecycleInv'
  OBVIOUS
<1>1. StoreKept /\ LifecycleTypeOK'
  BY StoreIsKept, LifecycleTypeStep DEF LifecycleInv
<1>2. CASE Prepare
  BY <1>1, <1>2, PrepareStep
<1>3. CASE ChangeManagedFiles \/ OtherJob
  BY <1>1, <1>3, EnvironmentStep
<1>4. CASE Finalize
  BY <1>1, <1>4, FinalizeStep
<1>5. CASE NextAttempt
  <2>1. /\ phase' = "idle" /\ lifecycle' = NoRecord /\ outcome' = "none" /\ summary' = "none"
        /\ UNCHANGED ours
    BY <1>5 DEF NextAttempt, Enter
  <2>2. FoundBase' /\ FoundExact' /\ Reconciled' /\ Decided' /\ KnownOutcome'
    BY <2>1, NothingFound, NothingDecided DEF Restored
  <2>3. RecordedBase' /\ ExactBase' /\ OwnInStore'
    BY <1>1, <2>1, OwnKept DEF RecordedBase, ExactBase
  <2> QED  BY <1>1, <2>2, <2>3 DEF LifecycleInv
<1>6. CASE UNCHANGED cacheJobVars
  BY <1>1, <1>6
  DEF cacheJobVars, cacheVars, lifecycleVars, LifecycleInv, FoundBase, FoundExact, RecordedBase,
      ExactBase, Reconciled, Decided, KnownOutcome, UnsavedIsKnown, OwnInStore, Published, CacheFamily
<1> QED  BY <1>2, <1>3, <1>4, <1>5, <1>6 DEF LifecycleNext

\* The inductive invariant of the phases of a job and of the cache it shares
\* with other jobs (executePrepareAction, executeFinalizeAction).
THEOREM SpecLifecycleInv == LifecycleSpec => []LifecycleInv
<1>1. LifecycleInit => LifecycleInv
  BY LifecycleInitInv
<1>2. LifecycleInv /\ [LifecycleNext]_cacheJobVars => LifecycleInv'
  BY LifecycleNextInv
<1> QED  BY <1>1, <1>2, PTL DEF LifecycleSpec

\* The recorded base of an exact restore is a generation of the job's family
\* (restoreBaseCache, maybePruneManagedFilesAfterRestore).
THEOREM SpecExactBase == LifecycleSpec => []ExactBase
<1>1. LifecycleInv => ExactBase
  BY DEF LifecycleInv
<1> QED  BY <1>1, SpecLifecycleInv, PTL

\* A state that saveBaseCache does not publish is empty or published already.
THEOREM SpecUnsavedIsKnown == LifecycleSpec => []UnsavedIsKnown
<1>1. LifecycleInv => UnsavedIsKnown
  BY DEF LifecycleInv, KnownOutcome
<1> QED  BY <1>1, SpecLifecycleInv, PTL

\* A summary that shows success hides no state that was lost
\* (determineOverallSummaryStatus, getBaseCacheWarning).
THEOREM SpecSuccessIsKept == LifecycleSpec => []SuccessIsKept
<1>1. LifecycleInv => SuccessIsKept
  <2> SUFFICES ASSUME LifecycleInv, summary = "success", outcome # "not eligible", lifecycle.exact
               PROVE  tree = {} \/ Published(lifecycle.family, tree)
    BY DEF SuccessIsKept
  <2>1. outcome \in {"not required", "saved"}
    BY DEF LifecycleInv, Decided
  <2> QED  BY <2>1 DEF LifecycleInv, KnownOutcome, UnsavedIsKnown
<1> QED  BY <1>1, SpecLifecycleInv, PTL

\* No generation is published outside of the family of its base
\* (reconcileCacheLifecycle, createCacheGeneration).
THEOREM SpecSavedUnderItsBase == LifecycleSpec => []SavedUnderItsBase
<1>1. LifecycleInv => SavedUnderItsBase
  BY DEF LifecycleInv, OwnInStore, SavedUnderItsBase
<1> QED  BY <1>1, SpecLifecycleInv, PTL
=============================================================================
