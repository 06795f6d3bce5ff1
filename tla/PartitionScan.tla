--------------------------- MODULE PartitionScan ---------------------------
(***************************************************************************)
(* scanCachePartitions (src/src/cache/manifest.ts) over a tree that other  *)
(* processes change meanwhile: include patterns are expanded to roots one  *)
(* partition after the other, every root is walked by concurrent workers,  *)
(* and the files met are captured unless they are excluded.  Both captures *)
(* of the cache are such scans: the metadata snapshot that garbage         *)
(* collection takes (TimestampGc), and the manifest, whose entries         *)
(* FileCapture has.                                                        *)
(*                                                                         *)
(* Items of the work queue are done in any order and number at a time:     *)
(* AsyncWorkQueue has the queue.  Every file is a regular one.  A file is  *)
(* recent when its access or modification time is at or after the cutoff.  *)
(***************************************************************************)
EXTENDS Integers, Sequences, FiniteSets

CONSTANTS
  ManagedFile, Dir, Root,
  Parent,       \* the directory of every file and of every directory but Root
  Partition,
  Pattern,      \* include patterns in order: partition, and directories they may name
  Excluded,     \* the files that the exclude patterns of a partition match
  MaxActions     \* bound: actions of other processes

HasParents(S) == \A d \in S \ {Root} : Parent[d] \in S

\* Directories form a tree: from each of them the parents lead to the root.
ASSUME ScanAssumption ==
  /\ Root \in Dir /\ ManagedFile \cap Dir = {} /\ MaxActions \in Nat
  /\ Parent \in [ManagedFile \cup (Dir \ {Root}) -> Dir]
  /\ \A S \in (SUBSET Dir) \ {{}} : HasParents(S) => Root \in S
  /\ Pattern \in Seq([partition : Partition, roots : SUBSET Dir])
  /\ Excluded \in [Partition -> SUBSET ManagedFile]

VARIABLES
  files,      \* the files that exist
  recent,     \* the files either of whose timestamps is recent
  dirs,       \* the directories that exist
  pattern,    \* include patterns expanded so far
  roots,      \* roots of the last one that are still to be walked
  queue,      \* work items, each with the pattern it belongs to
  capturing,  \* files being captured
  listed,     \* how often each partition lists each file
  fresh,      \* listed files whose entry has a recent timestamp
  still,      \* history: files that were there and nobody touched
  used,       \* history: files others wrote or read after they were listed
  actions      \* history: number of actions of other processes

fileSystem == <<files, recent, dirs>>
scan == <<pattern, roots, queue, capturing, listed, fresh>>
scanHistory == <<still, used, actions>>

\* The directories above a file or directory, up to but without the root:
\* those in every set that has its parent and the parents of its members.
Ancestors(x) ==
  {d \in Dir \ {Root} : \A S \in SUBSET Dir : Parent[x] \in S /\ HasParents(S) => d \in S}

\* readSortedDirectoryEntries
Children(d) == {x \in files \cup (dirs \ {Root}) : Parent[x] = d}

Listed == {f \in ManagedFile : \E p \in Partition : listed[p][f] > 0}

ScanInit ==
  /\ files \in SUBSET ManagedFile /\ recent \in SUBSET files
  /\ dirs = {Root} \cup UNION {Ancestors(f) : f \in files}
  /\ pattern = 0 /\ roots = {} /\ queue = {} /\ capturing = {}
  /\ listed = [p \in Partition |-> [f \in ManagedFile |-> 0]] /\ fresh = {}
  /\ still = files /\ used = {} /\ actions = 0
-----------------------------------------------------------------------------
\* Mutant of RootWalked: the walks are started side by side.
MutNotAwaited == TRUE

\* walkIncludedTree is awaited before the next root.
RootWalked == queue = {} /\ capturing = {}

\* expandIncludePatternRoots finds the directories that are there.
ExpandPattern ==
  /\ roots = {} /\ RootWalked /\ pattern < Len(Pattern)
  /\ pattern' = pattern + 1
  /\ roots' = Pattern[pattern'].roots \cap dirs
  /\ UNCHANGED <<fileSystem, queue, capturing, listed, fresh, scanHistory>>

WalkRoot(r) ==
  /\ r \in roots /\ RootWalked
  /\ roots' = roots \ {r}
  /\ queue' = queue \cup {<<pattern, r>>}
  /\ UNCHANGED <<fileSystem, pattern, capturing, listed, fresh, scanHistory>>

\* A directory that is gone has no entries.
Inspect(i, d) ==
  /\ <<i, d>> \in queue
  /\ queue' = (queue \ {<<i, d>>}) \cup
              {<<i, x>> : x \in IF d \in dirs THEN Children(d) ELSE {}}
  /\ UNCHANGED <<fileSystem, pattern, roots, capturing, listed, fresh, scanHistory>>

Excludes(i, f) == f \in Excluded[Pattern[i].partition]
Seen(i, f) == listed[Pattern[i].partition][f] > 0

\* Mutant of Claimed: nobody asks whether another partition has the path.
MutClaimed(i, f) == FALSE

\* The path is listed by another partition.
Claimed(i, f) ==
  /\ ~Seen(i, f) /\ ~Excludes(i, f)
  /\ \E p \in Partition : listed[p][f] > 0

\* The checks before a file is captured, and the capture itself, which finds
\* the file gone or reads its timestamps.
Visit(i, f) ==
  /\ <<i, f>> \in queue /\ ~Claimed(i, f)
  /\ queue' = queue \ {<<i, f>>}
  /\ capturing' = IF Seen(i, f) \/ Excludes(i, f) THEN capturing
                                                  ELSE capturing \cup {<<i, f>>}
  /\ UNCHANGED <<fileSystem, pattern, roots, listed, fresh, scanHistory>>

CaptureEntry(i, f) ==
  /\ <<i, f>> \in capturing
  /\ capturing' = capturing \ {<<i, f>>}
  /\ \/ f \in files /\ listed' = [listed EXCEPT ![Pattern[i].partition][f] = @ + 1]
        /\ fresh' = fresh \cup ({f} \cap recent)
     \/ f \notin files /\ UNCHANGED <<listed, fresh>>
  /\ UNCHANGED <<fileSystem, pattern, roots, queue, scanHistory>>

ScanStep ==
  \/ ExpandPattern
  \/ \E r \in Dir : WalkRoot(r)
  \/ \E i \in 1 .. Len(Pattern) :
       \/ \E d \in Dir : Inspect(i, d)
       \/ \E f \in ManagedFile : Visit(i, f) \/ CaptureEntry(i, f)

\* A path of two partitions refuses the whole scan.
ScanRefused == \E item \in queue : item[2] \in ManagedFile /\ Claimed(item[1], item[2])
ScanEnded == pattern = Len(Pattern) /\ roots = {} /\ RootWalked
-----------------------------------------------------------------------------
\* A build-tool process makes the directories of a file, writes or reads the
\* file, removes it, or removes an empty directory.
Others ==
  /\ actions < MaxActions /\ actions' = actions + 1
  /\ \/ \E f \in ManagedFile :
          \/ dirs' = dirs \cup Ancestors(f) /\ UNCHANGED <<files, recent, still, used>>
          \/ /\ Parent[f] \in dirs
             /\ files' = files \cup {f} /\ recent' = recent \cup {f} /\ UNCHANGED dirs
             /\ still' = still \ {f} /\ used' = used \cup ({f} \cap Listed)
          \/ files' = files \ {f} /\ still' = still \ {f} /\ UNCHANGED <<recent, dirs, used>>
     \/ \E d \in dirs \ {Root} :
          /\ Children(d) = {}
          /\ dirs' = dirs \ {d} /\ UNCHANGED <<files, recent, still, used>>
  /\ UNCHANGED scan
-----------------------------------------------------------------------------
\* The partitions whose patterns cover a file and do not exclude it.
Owners(f) ==
  {p \in Partition : f \notin Excluded[p] /\
     \E i \in DOMAIN Pattern : Pattern[i].partition = p /\
       Pattern[i].roots \cap (Ancestors(f) \cup {Root}) # {}}

\* No path is listed twice, in one partition or in two, however patterns
\* overlap and whatever changes during the walk: the readers of a manifest
\* refuse one that does.
EachPathOnce ==
  \A f \in ManagedFile : \A p, q \in Partition :
    listed[p][f] + (IF p = q THEN 0 ELSE listed[q][f]) <= 1
=============================================================================
