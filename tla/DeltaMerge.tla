----------------------------- MODULE DeltaMerge -----------------------------
(***************************************************************************)
(* mergeDeltaArtifactPackages (src/src/delta/apply.ts): the aggregator     *)
(* merges the deltas of its workers, in the order of its dependent-jobs,   *)
(* into one plan that holds for every path the entry to apply, the         *)
(* package whose payload backs it, and the target states that permit it.   *)
(*                                                                         *)
(* content stands for the digest, size and mode of a file.  Access times   *)
(* are left out: no decision of the merge reads them.  Two snapshots are   *)
(* then materially equivalent when they are equal.                         *)
(***************************************************************************)
EXTENDS Integers, Sequences, FiniteSets

CONSTANTS
  Path, Content,
  Time,          \* modification times
  Layout,        \* build tool and partition layout of a package
  MaxPackages,   \* bound: packages merged
  Absent         \* the snapshot of a path that does not exist

Snapshot == [content : Content, mtime : Time]

ASSUME MergeAssumption ==
  Time \subseteq Nat /\ MaxPackages \in Nat /\ Absent \notin Snapshot

\* added, modified or deleted, as computeCacheDelta records it.
Entry == {e \in [previous : Snapshot \cup {Absent}, current : Snapshot \cup {Absent}] :
            e.previous # e.current}

Delta == UNION {[paths -> Entry] : paths \in SUBSET Path}
Package == [layout : Layout, entries : Delta]

\* The state of a path in the plan; source is the package of the payload.
Merged == [entry : Entry, accepted : SUBSET (Snapshot \cup {Absent}), source : 1 .. MaxPackages]

VARIABLES
  packages,         \* the packages merged so far, in the order of dependent-jobs
  allowDuplicate,   \* the option allowDuplicateDependentDeltaPaths
  plan,             \* the states merged so far, by path
  conflicts,        \* the conflicts recorded so far: path, source, candidate
  outcome

vars == <<packages, allowDuplicate, plan, conflicts, outcome>>

-----------------------------------------------------------------------------
Comparable(e) == IF e.current # Absent THEN e.current ELSE e.previous

Compatible(d, e) ==
  \/ d.current = Absent /\ e.current = Absent
  \/ /\ d.current # Absent /\ e.current # Absent
     /\ d.current.content = e.current.content

Mtime(s) == Comparable(s.entry).mtime
Tied(s, t) == Mtime(s) = Mtime(t)

\* Mutants of Newer and MergeCompatible: the candidate always wins, only the
\* previous state of the preferred entry is kept.
MutLast(s, t) == t
MutPreferredOnly(preferred, other) == preferred

\* selectNewerState, where a tie keeps the existing state s.
Newer(s, t) == IF Mtime(t) > Mtime(s) THEN t ELSE s
Other(s, t) == IF Mtime(t) > Mtime(s) THEN s ELSE t

\* The preferred state already has the later modification time.
MergeCompatible(preferred, other) ==
  [preferred EXCEPT !.accepted = @ \cup other.accepted]

\* mergeOverlappingDeltaStates: a conflict, or the state to go on with.
Resolves(s, t) == Compatible(s.entry, t.entry) \/ (allowDuplicate /\ ~Tied(s, t))

\* Mutant of Resolved: the previous state of a loser is accepted too.
MutLoserAccepted(s, t) == MergeCompatible(Newer(s, t), Other(s, t))

Resolved(s, t) ==
  IF Compatible(s.entry, t.entry) THEN MergeCompatible(Newer(s, t), Other(s, t))
  ELSE Newer(s, t)

\* Mutant of Candidate: the payload is taken from the package before.
MutPayloadOfPrevious(package, p) ==
  [entry |-> package.entries[p], accepted |-> {package.entries[p].previous},
   source |-> Len(packages)]

Candidate(package, p) ==
  [entry |-> package.entries[p], accepted |-> {package.entries[p].previous},
   source |-> Len(packages) + 1]

-----------------------------------------------------------------------------
Init ==
  /\ allowDuplicate \in BOOLEAN
  /\ packages = <<>> /\ plan = [p \in {} |-> Absent] /\ conflicts = {}
  /\ outcome = "merging"

\* assertPortableDeltaPackage: the layout of the first package.
SameLayout(package) == packages # <<>> => package.layout = packages[1].layout

Take(package) ==
  /\ outcome = "merging" /\ Len(packages) < MaxPackages
  /\ packages' = Append(packages, package)

MergePackage(package) ==
  LET declared == DOMAIN package.entries
      refused == {p \in declared \cap DOMAIN plan : ~Resolves(plan[p], Candidate(package, p))}
  IN /\ Take(package) /\ SameLayout(package)
     /\ plan' = [p \in DOMAIN plan \cup declared |->
                   IF p \notin DOMAIN plan THEN Candidate(package, p)
                   ELSE IF p \in declared \ refused THEN Resolved(plan[p], Candidate(package, p))
                   ELSE plan[p]]
     /\ conflicts' = conflicts \cup {<<p, plan[p].source, Len(packages) + 1>> : p \in refused}
     /\ UNCHANGED <<allowDuplicate, outcome>>

RefusePackage(package) ==
  /\ Take(package) /\ ~SameLayout(package)
  /\ outcome' = "refused"
  /\ UNCHANGED <<allowDuplicate, plan, conflicts>>

\* All conflicts are reported together once every package has been merged.
Finish ==
  /\ outcome = "merging"
  /\ outcome' = IF conflicts = {} THEN "merged" ELSE "refused"
  /\ UNCHANGED <<packages, allowDuplicate, plan, conflicts>>

Next ==
  \/ \E package \in Package : MergePackage(package) \/ RefusePackage(package)
  \/ Finish

Spec == Init /\ [][Next]_vars
-----------------------------------------------------------------------------
\* Types: of the merged state, whose parts come from packages.
TypeOK ==
  /\ packages \in Seq(Package) /\ Len(packages) <= MaxPackages
  /\ allowDuplicate \in BOOLEAN
  /\ DOMAIN plan \subseteq Path /\ plan \in [DOMAIN plan -> Merged]
  /\ conflicts \subseteq Path \X (1 .. MaxPackages) \X (1 .. MaxPackages)
  /\ outcome \in {"merging", "merged", "refused"}

\* Package i declares a change of path p.
Declares(i, p) == i \in 1 .. Len(packages) /\ p \in DOMAIN packages[i].entries
EntryOf(i, p) == packages[i].entries[p]

\* The payload written for a path belongs to the entry whose digest, size,
\* mode and times are written with it (payloads and partitions of the plan
\* are collected in separate passes).
PayloadBacksEntry ==
  \A p \in DOMAIN plan :
    Declares(plan[p].source, p) /\ plan[p].entry = EntryOf(plan[p].source, p)

\* A merged plan changes exactly the paths the packages change, and no
\* package declares a later state of a path than the one applied.
NewestIsApplied ==
  outcome = "merged" =>
    \A p \in Path : \A i \in 1 .. Len(packages) : Declares(i, p) =>
      p \in DOMAIN plan /\ Comparable(EntryOf(i, p)).mtime <= Mtime(plan[p])

\* "losing entries cannot broaden its precondition" (delta-protocol.md:156):
\* a target is overwritten only when it is in the state a worker that
\* produced the very state applied started from.
LosersPermitNothing ==
  \A p \in DOMAIN plan : \A s \in plan[p].accepted :
    \E i \in 1 .. Len(packages) :
      /\ Declares(i, p) /\ EntryOf(i, p).previous = s
      /\ Compatible(EntryOf(i, p), plan[p].entry)

Agree(p) ==
  \A i, j \in 1 .. Len(packages) :
    Declares(i, p) /\ Declares(j, p) => Compatible(EntryOf(i, p), EntryOf(j, p))

\* Without the option the order of dependent-jobs does not matter: the merge
\* refuses exactly when two workers disagree about a path, and otherwise
\* keeps the previous state of every worker as a precondition.
StrictMergeIsOrderFree ==
  (~allowDuplicate /\ outcome # "merging" /\ \A i \in 1 .. Len(packages) :
       packages[i].layout = packages[1].layout) =>
    /\ outcome = "merged" <=> \A p \in Path : Agree(p)
    /\ outcome = "merged" =>
         \A p \in DOMAIN plan :
           plan[p].accepted =
             {EntryOf(i, p).previous : i \in {k \in 1 .. Len(packages) : Declares(k, p)}}

=============================================================================
