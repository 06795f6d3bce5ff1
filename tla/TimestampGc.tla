---------------------------- MODULE TimestampGc ----------------------------
(***************************************************************************)
(* collectTimestampCacheGarbage (src/src/cache/gc.ts), while a build-tool  *)
(* process may still write to the cache: the managed files are scanned for *)
(* their timestamps, old ones are deleted one by one, and directories that *)
(* were emptied are removed, deepest first.                                *)
(*                                                                         *)
(* finalize protects no path; Protected is what the option names.          *)
(***************************************************************************)
EXTENDS PartitionScan

CONSTANT Protected    \* protectedRelativePaths

ASSUME GcAssumption == Protected \subseteq ManagedFile

VARIABLES
  gcPhase,    \* "scan", "collect", "delete", "prune", "done", "failed"
  old,        \* listed files that are old and not protected, still to be deleted
  at,         \* the file found to be a regular file and deleted next
  deleted,    \* files GC deleted
  toPrune,    \* directories still to be removed if empty
  regret      \* history: files that were recent when GC deleted them

gc == <<gcPhase, old, at, deleted, toPrune, regret>>
gcVars == <<fileSystem, scan, scanHistory, gc>>

GcInit ==
  /\ ScanInit
  /\ gcPhase = "scan" /\ old = {} /\ at \in ManagedFile
  /\ deleted = {} /\ toPrune = {} /\ regret = {}
-----------------------------------------------------------------------------
\* The snapshot is taken or refused.
Scan ==
  /\ gcPhase = "scan" /\ ScanStep
  /\ UNCHANGED gc

RefuseScan ==
  /\ gcPhase = "scan" /\ ScanRefused /\ gcPhase' = "failed"
  /\ UNCHANGED <<fileSystem, scan, scanHistory, old, at, deleted, toPrune, regret>>

\* Mutant of IsOld: the timestamps are not compared with the cutoff.
MutOldAnyway(f) == f \in Listed

\* isTimestampGcEligible of an entry of the snapshot.
IsOld(f) == f \in Listed /\ f \notin fresh

TakeSnapshot ==
  /\ gcPhase = "scan" /\ ScanEnded /\ gcPhase' = "collect"
  /\ old' = {f \in ManagedFile \ Protected : IsOld(f)}
  /\ UNCHANGED <<fileSystem, scan, scanHistory, at, deleted, toPrune, regret>>

\* isRegularNonSymlinkFile: the file is still there, whatever its times are.
Consider(f) ==
  /\ gcPhase = "collect" /\ f \in old
  /\ IF f \in files THEN gcPhase' = "delete" /\ at' = f ELSE UNCHANGED <<gcPhase, at>>
  /\ old' = old \ {f}
  /\ UNCHANGED <<fileSystem, scan, scanHistory, deleted, toPrune, regret>>

\* collectCandidateDirectories, of one deleted file.
Emptied(f) == Ancestors(f)

\* rm with force, and the bookkeeping after it.
Delete ==
  /\ gcPhase = "delete" /\ gcPhase' = "collect"
  /\ files' = files \ {at}
  /\ deleted' = deleted \cup {at}
  /\ regret' = regret \cup ({at} \cap files \cap recent)
  /\ toPrune' = toPrune \cup Emptied(at)
  /\ UNCHANGED <<recent, dirs, scan, scanHistory, old, at>>

Collected ==
  /\ gcPhase = "collect" /\ old = {} /\ gcPhase' = "prune"
  /\ UNCHANGED <<fileSystem, scan, scanHistory, old, at, deleted, toPrune, regret>>

\* Mutant of IsNext: shallow directories come first.
MutShallowFirst(d) == toPrune \cap Ancestors(d) = {}

\* Deepest first: no directory below d is still to be removed.
IsNext(d) == \A e \in toPrune : d \notin Ancestors(e)

\* rmdir refuses a directory that is not empty; one that is gone is skipped.
Removable(d) == d \in dirs /\ Children(d) = {}

Prune(d) ==
  /\ gcPhase = "prune" /\ d \in toPrune /\ IsNext(d)
  /\ toPrune' = toPrune \ {d}
  /\ dirs' = IF Removable(d) THEN dirs \ {d} ELSE dirs
  /\ UNCHANGED <<files, recent, scan, scanHistory, gcPhase, old, at, deleted, regret>>

Finish ==
  /\ gcPhase = "prune" /\ toPrune = {} /\ gcPhase' = "done"
  /\ UNCHANGED <<fileSystem, scan, scanHistory, old, at, deleted, toPrune, regret>>

OthersWrite == gcPhase \notin {"done", "failed"} /\ Others /\ UNCHANGED gc

GcNext ==
  \/ Scan \/ RefuseScan \/ TakeSnapshot
  \/ \E f \in ManagedFile : Consider(f)
  \/ Delete \/ Collected
  \/ \E d \in Dir : Prune(d)
  \/ Finish \/ OthersWrite

GcSpec == GcInit /\ [][GcNext]_gcVars
-----------------------------------------------------------------------------
\* A file that was there all the time is in the snapshot, of the one
\* partition that covers it, if any; with two of them there is no snapshot.
StillFilesAreListed ==
  gcPhase \notin {"scan", "failed"} =>
    \A f \in still :
      /\ Owners(f) = {p \in Partition : listed[p][f] > 0}
      /\ Cardinality(Owners(f)) <= 1

\* Timestamps are read once, in the scan, and not looked at again before the
\* deletion: a recent file is deleted only if it was used in between.
RecentLostOnlyAfterScan == regret \subseteq used

\* Undisturbed, GC leaves exactly the recent, the protected and the unmanaged
\* files, and no directory it emptied, however deep the emptied tree is.
QuietGcIsComplete ==
  (gcPhase = "done" /\ actions = 0) =>
    /\ \A f \in files \ (recent \cup Protected) : Owners(f) = {}
    /\ \A f \in deleted : f \notin recent \cup Protected /\ Owners(f) # {}
    /\ \A f \in deleted : \A d \in Ancestors(f) : d \in dirs => Children(d) # {}
=============================================================================
