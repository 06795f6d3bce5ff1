--------------------------- MODULE SingleRunGuard ---------------------------
(***************************************************************************)
(* The per-job single-run guard (src/src/guard/job-single-run.ts) with the *)
(* prepare and finalize entry points that use it (phases/prepare/cli.ts,   *)
(* phases/finalize/cli.ts): invocations of the action in one CI job race   *)
(* for a guard file created with O_EXCL, and the post phase of each        *)
(* decides from the state its prepare phase left whether to finalize.      *)
(*                                                                         *)
(* The job may be rerun on a runner whose temporary directory still holds  *)
(* the guard files of earlier attempts.  Token contents are the invocation *)
(* itself; the job identity is the attempt.                                *)
(***************************************************************************)
EXTENDS Integers, FiniteSets

CONSTANTS
  Invocation,    \* the uses of the action in one job
  MaxAttempt,    \* bound: attempts of the job
  Nobody         \* no owner

ASSUME GuardAssumption ==
  MaxAttempt \in Nat \ {0} /\ Nobody \notin Invocation

Attempt == 1 .. MaxAttempt

VARIABLES
  attempt,
  pc,          \* phase of every invocation in this attempt
  guardFile,   \* the owner written to the guard file of each attempt
  duplicate,   \* saved state: the duplicate flag, "" when not saved
  token        \* saved state: the owner token, Nobody when empty

vars == <<attempt, pc, guardFile, duplicate, token>>

Phase == {"idle", "created", "flagged", "exists", "preparing", "mainEnded",
          "finalizing", "skipped", "finalized"}

Goto(i, phase) == pc' = [pc EXCEPT ![i] = phase]

Init ==
  /\ attempt = 1
  /\ pc = [i \in Invocation |-> "idle"]
  /\ guardFile = [a \in Attempt |-> Nobody]
  /\ duplicate = [i \in Invocation |-> ""] /\ token = [i \in Invocation |-> Nobody]

-----------------------------------------------------------------------------
\* Mutants of GuardFilePath and CreatesFile: the attempt is not part of the
\* identity, the file is written without O_EXCL.
MutPathWithoutAttempt(a) == 1
MutOverwrites(a) == TRUE

\* resolveSingleRunGuardFilePath: the attempt is part of the identity.
GuardFilePath(a) == a

\* writeFile with flag wx succeeds only on a file that does not exist.
CreatesFile(a) == guardFile[GuardFilePath(a)] = Nobody

ClaimCreates(i) ==
  /\ pc[i] = "idle" /\ CreatesFile(attempt)
  /\ guardFile' = [guardFile EXCEPT ![GuardFilePath(attempt)] = i]
  /\ Goto(i, "created")
  /\ UNCHANGED <<attempt, duplicate, token>>

ClaimFindsFile(i) ==
  /\ pc[i] = "idle" /\ ~CreatesFile(attempt)
  /\ Goto(i, "exists")
  /\ UNCHANGED <<attempt, guardFile, duplicate, token>>

\* persistSingleRunPostState saves the flag first and the token after it.
SaveFlag(i) ==
  /\ pc[i] = "created"
  /\ duplicate' = [duplicate EXCEPT ![i] = "false"]
  /\ Goto(i, "flagged")
  /\ UNCHANGED <<attempt, guardFile, token>>

\* Mutant of SavedToken: the token is saved empty.
MutTokenEmpty(i) == Nobody

SavedToken(i) == i

SaveToken(i) ==
  /\ pc[i] = "flagged"
  /\ token' = [token EXCEPT ![i] = SavedToken(i)]
  /\ Goto(i, "preparing")
  /\ UNCHANGED <<attempt, guardFile, duplicate>>

\* The duplicate saves its flag and an empty token, and prepare throws.
SaveDuplicate(i) ==
  /\ pc[i] = "exists"
  /\ duplicate' = [duplicate EXCEPT ![i] = "true"]
  /\ Goto(i, "mainEnded")
  /\ UNCHANGED <<attempt, guardFile, token>>

\* executePrepareAction returns or throws.
PrepareEnds(i) ==
  /\ pc[i] = "preparing"
  /\ Goto(i, "mainEnded")
  /\ UNCHANGED <<attempt, guardFile, duplicate, token>>

\* The main phase dies on the way: an I/O error while claiming, a crash, a
\* timeout of the step.  The post phase still runs.
MainDies(i) ==
  /\ pc[i] \in {"idle", "created", "flagged", "exists"}
  /\ Goto(i, "mainEnded")
  /\ UNCHANGED <<attempt, guardFile, duplicate, token>>

\* decideSingleRunFinalizeExecution
ShouldRun(i) == duplicate[i] # "true" /\ token[i] # Nobody

Post(i) ==
  /\ pc[i] = "mainEnded"
  /\ Goto(i, IF ShouldRun(i) THEN "finalizing" ELSE "skipped")
  /\ UNCHANGED <<attempt, guardFile, duplicate, token>>

FinalizeEnds(i) ==
  /\ pc[i] = "finalizing"
  /\ Goto(i, "finalized")
  /\ UNCHANGED <<attempt, guardFile, duplicate, token>>

\* The job runs again: no saved state, but the guard files are still there.
RerunJob ==
  /\ \A i \in Invocation : pc[i] \in {"skipped", "finalized"}
  /\ attempt < MaxAttempt /\ attempt' = attempt + 1
  /\ pc' = [i \in Invocation |-> "idle"]
  /\ duplicate' = [i \in Invocation |-> ""] /\ token' = [i \in Invocation |-> Nobody]
  /\ UNCHANGED guardFile

Step(i) ==
  \/ ClaimCreates(i) \/ ClaimFindsFile(i) \/ SaveFlag(i) \/ SaveToken(i) \/ SaveDuplicate(i)
  \/ PrepareEnds(i) \/ Post(i) \/ FinalizeEnds(i)

Next == (\E i \in Invocation : Step(i) \/ MainDies(i)) \/ RerunJob

\* The runner runs the main and the post phase of every invocation.
Spec == Init /\ [][Next]_vars /\ \A i \in Invocation : WF_vars(Step(i))
-----------------------------------------------------------------------------
\* Types: of guard files and of the state saved for the post phase.
TypeOK ==
  /\ attempt \in Attempt /\ pc \in [Invocation -> Phase]
  /\ guardFile \in [Attempt -> Invocation \cup {Nobody}]
  /\ duplicate \in [Invocation -> {"", "true", "false"}]
  /\ token \in [Invocation -> Invocation \cup {Nobody}]

\* Whatever the race and wherever main phases die, at most one invocation of
\* a job prepares or finalizes: the one that created the guard file.
OneOwner ==
  \A i \in Invocation :
    pc[i] \in {"preparing", "finalizing", "finalized"} => guardFile[attempt] = i

\* An invocation is turned away only because another invocation of the same
\* attempt holds the guard, never by what an earlier attempt left behind.
RejectedByAnother ==
  \A i \in Invocation :
    (pc[i] = "exists" \/ duplicate[i] = "true") =>
      guardFile[attempt] \in Invocation \ {i}

\* An owner that got as far as preparing is the one that finalizes, whatever
\* the other invocations of the job do.
OwnerFinalizes ==
  \A i \in Invocation : (pc[i] = "preparing") ~> (pc[i] = "finalized")
=============================================================================
