--------------------------- MODULE ManifestDelta ---------------------------
(***************************************************************************)
(* computeCacheDelta of src/src/cache/manifest-format.ts: one walk over    *)
(* two sorted manifests of a partition.  A manifest is what its files      *)
(* hold, and its files in order.  Paths are ordered by localeCompare,      *)
(* which calls some different strings equal (canonically equivalent ones,  *)
(* ignorable characters); Rank is a path's place in that order.            *)
(*                                                                         *)
(* A Version stands for digest, size, mode and modification time.  The     *)
(* manifests are of one build tool, root and partition layout.             *)
(***************************************************************************)
EXTENDS Integers, Sequences, FiniteSets

CONSTANTS Path, Rank, Version, Absent

ASSUME ManifestAssumption == Rank \in [Path -> Nat] /\ Absent \notin Version

VARIABLES
  was, is,                                \* the version of each path, or Absent
  previousEntries, currentEntries,        \* the paths of the manifests, in order
  previousIndex, currentIndex,
  entries,                                \* delta entries so far
  phase                                   \* "load", "walk", "computed", "refused"

manifests == <<was, is, previousEntries, currentEntries>>
walk == <<previousIndex, currentIndex, entries>>
vars == <<manifests, walk, phase>>

Content == [Path -> Version \cup {Absent}]
Entry == [path : Path, previous : Version \cup {Absent}, current : Version \cup {Absent}]
Present(content) == {p \in Path : content[p] # Absent}

\* The files of a scan, each once, sorted; equal ranks come in any order.
Listings(content) ==
  {s \in UNION {[1 .. n -> Path] : n \in 0 .. Cardinality(Path)} :
     /\ \A p \in Path : p \in Present(content) <=> \E k \in DOMAIN s : s[k] = p
     /\ \A j, k \in DOMAIN s : j < k => s[j] # s[k] /\ Rank[s[j]] <= Rank[s[k]]}

Init ==
  /\ was \in Content /\ is \in Content
  /\ previousEntries \in Listings(was) /\ currentEntries \in Listings(is)
  /\ previousIndex = 1 /\ currentIndex = 1 /\ entries = <<>>
  /\ phase = "load"

\* validateSortedEntries
StrictlySorted(paths) ==
  \A j, k \in DOMAIN paths : j < k => Rank[paths[j]] < Rank[paths[k]]

\* The manifest of the prepare phase is read back from its file; the current
\* one is not serialised before the walk.
Load ==
  /\ phase = "load"
  /\ phase' = IF StrictlySorted(previousEntries) THEN "walk" ELSE "refused"
  /\ UNCHANGED <<manifests, walk>>

PreviousLeft == previousIndex <= Len(previousEntries)
CurrentLeft == currentIndex <= Len(currentEntries)
PreviousPath == previousEntries[previousIndex]
CurrentPath == currentEntries[currentIndex]

\* Mutant of PreviousFirst: equal paths count as a deletion and an addition.
MutPreviousAtMost ==
  PreviousLeft /\ (CurrentLeft => Rank[PreviousPath] <= Rank[CurrentPath])

\* The next path is one only the previous manifest has, or only the current.
PreviousFirst ==
  PreviousLeft /\ (CurrentLeft => Rank[PreviousPath] < Rank[CurrentPath])

\* Mutant of CurrentFirst: the comparison is the wrong way round.
MutCurrentFirst ==
  CurrentLeft /\ (PreviousLeft => Rank[CurrentPath] > Rank[PreviousPath])

CurrentFirst ==
  CurrentLeft /\ (PreviousLeft => Rank[CurrentPath] < Rank[PreviousPath])

After(index) == index + 1

DeltaEntry(p, previous, current) == [path |-> p, previous |-> previous, current |-> current]

AddDeleted ==
  /\ phase = "walk" /\ PreviousFirst
  /\ entries' = Append(entries, DeltaEntry(PreviousPath, was[PreviousPath], Absent))
  /\ previousIndex' = After(previousIndex)
  /\ UNCHANGED <<manifests, currentIndex, phase>>

AddAdded ==
  /\ phase = "walk" /\ CurrentFirst
  /\ entries' = Append(entries, DeltaEntry(CurrentPath, Absent, is[CurrentPath]))
  /\ currentIndex' = After(currentIndex)
  /\ UNCHANGED <<manifests, previousIndex, phase>>

\* areManifestEntriesEquivalent: the access time is not part of a Version.
Equivalent == was[PreviousPath] = is[CurrentPath]

\* Both manifests have the path, as far as localeCompare can tell.
Compare ==
  /\ phase = "walk" /\ PreviousLeft /\ CurrentLeft /\ ~PreviousFirst /\ ~CurrentFirst
  /\ entries' =
       IF Equivalent THEN entries
       ELSE Append(entries, DeltaEntry(PreviousPath, was[PreviousPath], is[CurrentPath]))
  /\ previousIndex' = After(previousIndex) /\ currentIndex' = After(currentIndex)
  /\ UNCHANGED <<manifests, phase>>

EndWalk ==
  /\ phase = "walk" /\ ~PreviousLeft /\ ~CurrentLeft
  /\ phase' = "computed"
  /\ UNCHANGED <<manifests, walk>>

Next == Load \/ AddDeleted \/ AddAdded \/ Compare \/ EndWalk

Spec == Init /\ [][Next]_vars
-----------------------------------------------------------------------------
\* Types: both indices stay within their manifests and one past them.
TypeOK ==
  /\ was \in Content /\ is \in Content
  /\ previousEntries \in Seq(Path) /\ currentEntries \in Seq(Path) /\ entries \in Seq(Entry)
  /\ previousIndex \in 1 .. Len(previousEntries) + 1
  /\ currentIndex \in 1 .. Len(currentEntries) + 1
  /\ phase \in {"load", "walk", "computed", "refused"}

\* localeCompare tells the paths of both manifests apart.
NamesDiffer ==
  \A p, q \in Present(was) \cup Present(is) : Rank[p] = Rank[q] => p = q

\* The delta has one entry for every path whose version differs, with both
\* versions, and no other: it turns the previous manifest into the current.
DeltaIsDifference ==
  phase = "computed" /\ NamesDiffer =>
    {entries[k] : k \in DOMAIN entries} =
      {[path |-> p, previous |-> was[p], current |-> is[p]] : p \in {q \in Path : was[q] # is[q]}}

\* What the walk wrote is sorted as the reader of the delta demands, so that
\* a worker's delta is not refused by its aggregator.
DeltaIsReadable ==
  phase = "computed" /\ NamesDiffer =>
    StrictlySorted([k \in DOMAIN entries |-> entries[k].path])
=============================================================================
