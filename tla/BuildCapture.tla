---------------------------- MODULE BuildCapture -----------------------------
(***************************************************************************)
(* The capture of Gradle build results: the two files installed in init.d  *)
(* and removed again (src/src/build-tool/gradle/build-results.ts, called   *)
(* through src/src/build-tool/gradle/adapter.ts), the Groovy they contain  *)
(* (src/src/build-tool/gradle/build-result-capture-scripts.ts) and the     *)
(* report read back from the files that builds write.                      *)
(*                                                                         *)
(* Builds are numbered.  The init script draws an invocation id, here the  *)
(* number of the build that evaluates it; a build that reuses the          *)
(* configuration cache does not evaluate it and keeps the stored id.       *)
(***************************************************************************)
EXTENDS Integers, FiniteSets

CONSTANT MaxBuild   \* bound: captured Gradle builds

ASSUME CaptureAssumption == MaxBuild \in Nat

Build == 1 .. MaxBuild
HookFile == {"init script", "service plugin"}

VARIABLES
  hooks,      \* capture files in init.d
  fault,      \* what went wrong with them since they were last in order
  builds,     \* builds that ran with them so far
  storedId,   \* id in the project's configuration cache, 0 when none
  results,    \* build-result files: id, the build that wrote it, complete or torn
  scans,      \* build-scan files: id and build
  ran,        \* history: those builds and their ids
  recorded,   \* history: the builds whose recorder met no I/O error
  report      \* finalize's report: builds, each with its scan or 0

captureFiles == <<results, scans, ran, recorded>>
captureVars == <<hooks, fault, builds, storedId, captureFiles, report>>

\* The schemas of both kinds of file and of the report, as far as they matter.
ResultFile == [id : Build, build : Build, complete : BOOLEAN]
ScanFile == [id : Build, build : Build]
CapturedGradleBuild == [build : Build, scan : 0 .. MaxBuild]

CaptureInit ==
  /\ hooks = {} /\ fault = {} /\ builds = 0 /\ storedId = 0
  /\ results = {} /\ scans = {} /\ ran = {} /\ recorded = {} /\ report = {}

CaptureTypeOK ==
  /\ hooks \subseteq HookFile /\ fault \subseteq {"warned", "died"}
  /\ builds \in 0 .. MaxBuild /\ storedId \in 0 .. MaxBuild
  /\ results \subseteq ResultFile /\ scans \subseteq ScanFile
  /\ ran \subseteq Build \X Build /\ recorded \subseteq Build
  /\ report \subseteq CapturedGradleBuild
-----------------------------------------------------------------------------
\* installGradleBuildResultCapture writes the init script and then the
\* plugin.
WriteInitScript ==
  /\ hooks' = hooks \cup {"init script"}
  /\ UNCHANGED <<fault, builds, storedId, captureFiles, report>>

WritePlugin ==
  /\ hooks' = HookFile /\ fault' = {}
  /\ UNCHANGED <<builds, storedId, captureFiles, report>>

\* Mutant of InstallFails: the failure is swallowed without a message.
MutInstallFailsSilently ==
  /\ hooks' \in {hooks, {"init script"}}
  /\ UNCHANGED <<fault, builds, storedId, captureFiles, report>>

\* Prepare logs the failure and goes on.  A torn file is as bad as an init
\* script without its plugin.
InstallFails ==
  /\ hooks' \in {hooks, {"init script"}} /\ fault' = fault \cup {"warned"}
  /\ UNCHANGED <<builds, storedId, captureFiles, report>>
-----------------------------------------------------------------------------
\* Mutant of RemoveHooks: failures are dropped.
MutRemoveQuietly == hooks' \in SUBSET hooks /\ UNCHANGED fault

\* cleanupGradleBuildResultCapture: each removal may fail, with a warning.
RemoveHooks ==
  \/ hooks' = {} /\ fault' = {}
  \/ hooks' \in (SUBSET hooks) \ {{}} /\ fault' = fault \cup {"warned"}

\* loadFilesByInvocationKey: a file that does not parse is only a warning.
Loaded == {r \in results : r.complete}

\* Mutant of Report: the first scan file is taken, whatever its id.
MutReport ==
  {[build |-> r.build, scan |-> s] : r \in Loaded, s \in {q.build : q \in scans} \cup {0}}

\* loadGradleBuildReport joins a scan to the result with the same id.
Report ==
  {[build |-> r.build,
    scan |-> IF \E s \in scans : s.id = r.id
             THEN (CHOOSE s \in scans : s.id = r.id).build ELSE 0] : r \in Loaded}

\* collectBuildReport
CollectReport ==
  /\ RemoveHooks /\ report' = Report
  /\ UNCHANGED <<builds, storedId, captureFiles>>

\* The process ends while the files are being removed.
CollectDies ==
  /\ hooks' \in SUBSET hooks /\ fault' = fault \cup {"died"}
  /\ UNCHANGED <<builds, storedId, captureFiles, report>>
-----------------------------------------------------------------------------
\* An init script without its plugin fails every build of this Gradle home.
BuildsBroken == hooks = {"init script"}

\* A build draws a new id, or keeps the one in the configuration cache.
InvocationId(b) == {b} \cup ({storedId} \ {0})

NameFree(files, id) == \A r \in files : r.id # id

\* BuildResultsRecorder.close writes a file unless one of its name exists; an
\* error while writing is printed and leaves nothing or a torn file.
RecordResult(b, id) ==
  \/ /\ NameFree(results, id)
     /\ results' = results \cup {[id |-> id, build |-> b, complete |-> TRUE]}
     /\ recorded' = recorded \cup {b}
  \/ /\ NameFree(results, id)
     /\ results' \in {results, results \cup {[id |-> id, build |-> b, complete |-> FALSE]}}
     /\ UNCHANGED recorded
  \/ ~NameFree(results, id) /\ recorded' = recorded \cup {b} /\ UNCHANGED results

\* The scan callbacks write under the same rule, when a scan is published.
RecordScan(b, id) ==
  \/ NameFree(scans, id) /\ scans' = scans \cup {[id |-> id, build |-> b]}
  \/ UNCHANGED scans

\* A top-level build with both files in place; it may store its configuration.
CapturedBuild ==
  /\ hooks = HookFile /\ builds < MaxBuild /\ builds' = builds + 1
  /\ \E id \in InvocationId(builds') :
       /\ RecordResult(builds', id) /\ RecordScan(builds', id)
       /\ storedId' \in {id, storedId}
       /\ ran' = ran \cup {<<builds', id>>}
  /\ UNCHANGED <<hooks, fault, report>>

\* The job runs again, on a new runner or on the same one.  The runner has
\* emptied the temporary directory that held the captured files.
CaptureRerun ==
  /\ results' = {} /\ scans' = {} /\ ran' = {} /\ recorded' = {} /\ report' = {}
  /\ \/ hooks' = {} /\ fault' = {} /\ storedId' = 0
     \/ UNCHANGED <<hooks, fault, storedId>>
  /\ UNCHANGED builds
=============================================================================
