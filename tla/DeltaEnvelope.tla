--------------------------- MODULE DeltaEnvelope ---------------------------
(***************************************************************************)
(* The delta packages of src/src/delta/service.ts, from staging in a       *)
(* worker's finalize phase to acceptance in the aggregator's prepare       *)
(* phase, with the temporary directories both make.  What an artifact      *)
(* store hands out may be damaged: parts may be missing, altered or mixed  *)
(* up with another artifact's.  The store may report a hash or none.       *)
(*                                                                         *)
(* A delta manifest maps changed paths to their new bytes, or to Missing    *)
(* when deleted.  A digest stands for what it was computed from.  A cache   *)
(* identity is a family and the rest that jobs must share: runner, ref,    *)
(* lineage and partition layout.  An artifact is named for its producer,   *)
(* the family and the manifest; one attempt.                               *)
(***************************************************************************)
EXTENDS Sequences, FiniteSets, Integers

CONSTANTS
  Worker,        \* the jobs of dependent-jobs, in any order
  Aggregator,
  Identity,      \* cache identities jobs may have, with fields family and layout
  Own,           \* the identity of the aggregator
  Manifest,      \* the delta manifests a worker may compute
  Bytes,
  Missing,
  MaxDamage      \* bound: damages of artifacts

PackagePath == UNION {DOMAIN m : m \in Manifest}
Family == {i.family : i \in Identity}

ASSUME EnvelopeAssumption ==
  /\ \A m \in Manifest : m \in [DOMAIN m -> Bytes \cup {Missing}]
  /\ Own \in Identity
  /\ Missing \notin Bytes \cup Worker /\ Aggregator \notin Worker /\ MaxDamage \in Nat

VARIABLES
  manifest,     \* of each worker
  identity,     \* cache identity of each worker
  pc,           \* of each worker
  aggregator,   \* phase of the aggregator
  current,      \* the worker whose artifact the aggregator has downloaded, or Missing
  staged,       \* payloads a worker copied so far
  stored,       \* the store: an artifact of each worker, or Missing
  hashed,       \* the store reports hashes
  damaged,      \* workers whose artifact is damaged
  accepted,     \* accepted packages of the aggregator
  directories,  \* temporary directories that exist, by the job and the worker concerned
  reported,     \* temporary directories whose removal failed, as warned or thrown
  damages       \* damages so far

envelopeVars == <<manifest, identity, pc, aggregator, current, staged, stored, hashed, damaged,
                  accepted, directories, reported, damages>>

Changed(m) == {p \in DOMAIN m : m[p] # Missing}
Payloads(m) == [p \in Changed(m) |-> m[p]]
ArtifactName(w, i, m) == <<w, i.family, m>>
Metadata(w, i, m) ==
  [name |-> ArtifactName(w, i, m), producer |-> w, identity |-> i, digest |-> m,
   payloadEntries |-> Payloads(m)]
Package(w, i, m) ==
  [name |-> ArtifactName(w, i, m), metadata |-> Metadata(w, i, m), manifest |-> m,
   files |-> Payloads(m), extra |-> FALSE]
PackageOf(w) == Package(w, identity[w], manifest[w])

EnvelopeInit ==
  /\ manifest \in [Worker -> Manifest] /\ identity \in [Worker -> Identity]
  /\ pc = [w \in Worker |-> "start"] /\ aggregator = "waiting" /\ current = Missing
  /\ staged = [w \in Worker |-> {}] /\ stored = [w \in Worker |-> Missing]
  /\ hashed \in BOOLEAN /\ damaged = {} /\ damages = 0
  /\ accepted = [w \in {} |-> Missing] /\ directories = {} /\ reported = {}

\* Removing temporary directories, each of which may fail and is then reported.
RemoveDirectories(ds) ==
  \E stuck \in SUBSET ds :
    /\ directories' = directories \ (ds \ stuck)
    /\ reported' = reported \cup stuck
NoDirectoryChanges == UNCHANGED <<directories, reported>>

-----------------------------------------------------------------------------
\* A worker.
Goto(w, phase) == pc' = [pc EXCEPT ![w] = phase]
unstaged == <<manifest, identity, aggregator, current, stored, hashed, damaged, accepted, damages>>

StartStaging(w) ==
  /\ pc[w] = "start" /\ Goto(w, "staging")
  /\ directories' = directories \cup {<<w, w>>}
  /\ UNCHANGED <<unstaged, staged, reported>>

\* collectChangedEntries
Unstaged(w) == Changed(manifest[w]) \ staged[w]

\* copyAndVerifySourceFile took what the manifest says.
CopyPayload(w, p) ==
  /\ pc[w] = "staging" /\ p \in Unstaged(w)
  /\ staged' = [staged EXCEPT ![w] = @ \cup {p}]
  /\ UNCHANGED <<unstaged, pc, directories, reported>>

FinishStaging(w) ==
  /\ pc[w] = "staging" /\ Unstaged(w) = {}
  /\ Goto(w, "staged")
  /\ UNCHANGED <<unstaged, staged, directories, reported>>

\* A copy, a write or the validation of the metadata fails.
FailStaging(w) ==
  /\ pc[w] = "staging" /\ Goto(w, "failed")
  /\ RemoveDirectories({<<w, w>>})
  /\ UNCHANGED <<unstaged, staged>>

\* The provider may have stored an artifact although it reports a failure.
Upload(w) ==
  /\ pc[w] = "staged"
  /\ \E result \in {"uploaded", "unsent"}, s \in BOOLEAN :
       /\ result = "uploaded" => s
       /\ stored' = IF s THEN [stored EXCEPT ![w] = PackageOf(w)] ELSE stored
       /\ Goto(w, result)
  /\ UNCHANGED <<manifest, identity, aggregator, current, staged, hashed, damaged, accepted, damages>>
  /\ NoDirectoryChanges

\* The finally clause: it only warns when removal fails.
FinishUpload(w) ==
  /\ pc[w] \in {"uploaded", "unsent"}
  /\ Goto(w, IF pc[w] = "uploaded" THEN "succeeded" ELSE "failed")
  /\ RemoveDirectories({<<w, w>>})
  /\ UNCHANGED <<unstaged, staged>>

-----------------------------------------------------------------------------
\* The aggregator.
unaggregated == <<manifest, identity, pc, staged, stored, hashed, damaged, damages>>

\* It starts once all workers ended; a missing artifact fails its discovery.
Discover ==
  /\ aggregator = "waiting" /\ \A w \in Worker : pc[w] \in {"succeeded", "failed"}
  /\ aggregator' = IF \A w \in Worker : stored[w] # Missing THEN "download" ELSE "failed"
  /\ UNCHANGED <<unaggregated, current, accepted>> /\ NoDirectoryChanges

\* The directory is made first; a size limit or the transfer may fail.
Download(w) ==
  /\ aggregator = "download" /\ w \notin DOMAIN accepted
  /\ current' = w
  /\ directories' = directories \cup {<<Aggregator, w>>}
  /\ aggregator' \in {"verify", "discard"}
  /\ UNCHANGED <<unaggregated, accepted, reported>>

\* The name that the metadata's own fields make.
NameOfMetadata(x) == ArtifactName(x.producer, x.identity, x.digest)

\* Mutant of NameMatches: the name looked up does not count.
MutNameMatches(a) == a.metadata.name = NameOfMetadata(a.metadata)

\* Each payload entry belongs to a changed path with its snapshot, and its
\* file is there with these bytes; all changed paths have one.
PayloadsMatch(a) ==
  /\ a.metadata.payloadEntries = Payloads(a.manifest)
  /\ \A p \in DOMAIN a.metadata.payloadEntries :
       p \in DOMAIN a.files /\ a.files[p] = a.metadata.payloadEntries[p]

\* The metadata is that of the artifact looked up, whose name is made of its
\* producer, its cache family and its manifest; no name tells the layout.
NameMatches(a) == a.metadata.name = a.name /\ a.metadata.name = NameOfMetadata(a.metadata)

\* verifyExtractedDeltaArtifactPackage
Verifies(a) ==
  /\ a.metadata # Missing
  /\ a.manifest # Missing /\ a.manifest = a.metadata.digest
  /\ NameMatches(a)
  /\ PayloadsMatch(a)
  /\ ~a.extra /\ DOMAIN a.files = DOMAIN a.metadata.payloadEntries

\* The reported hash, the package and the producer's identity.
Accepts(w) ==
  /\ hashed => w \notin damaged
  /\ Verifies(stored[w])
  /\ stored[w].metadata.producer = w

Accept ==
  /\ aggregator = "verify" /\ Accepts(current)
  /\ accepted' = [w \in DOMAIN accepted \cup {current} |->
                   IF w = current THEN stored[w] ELSE accepted[w]]
  /\ aggregator' = IF DOMAIN accepted' = Worker THEN "merge" ELSE "download"
  /\ UNCHANGED <<unaggregated, current>> /\ NoDirectoryChanges

Refuse ==
  /\ aggregator = "verify" /\ ~Accepts(current)
  /\ aggregator' = "discard"
  /\ UNCHANGED <<unaggregated, current, accepted>> /\ NoDirectoryChanges

\* The catch clause of one download; its siblings follow in the finally clause.
DiscardDownload ==
  /\ aggregator = "discard" /\ aggregator' = "cleanupFailed"
  /\ RemoveDirectories({<<Aggregator, current>>})
  /\ UNCHANGED <<unaggregated, current, accepted>>

\* assertCompatibleDependentDeltaArtifacts, by what the metadata says.
Compatible == \A w \in DOMAIN accepted : accepted[w].metadata.identity = Own

\* Merge and application, which may fail, of compatible packages.
MergeAndApply ==
  /\ aggregator = "merge"
  /\ aggregator' \in {"cleanup", "cleanupFailed"}
  /\ aggregator' = "cleanup" => Compatible
  /\ UNCHANGED <<unaggregated, current, accepted>> /\ NoDirectoryChanges

\* Mutant of Siblings: only packages that were applied are removed.
MutSiblings == {w \in DOMAIN accepted : aggregator = "cleanup"}

\* cleanupDownloadedPackages, with all-settled semantics.
Siblings == DOMAIN accepted

Cleanup ==
  /\ aggregator \in {"cleanup", "cleanupFailed"}
  /\ aggregator' = IF aggregator = "cleanup" THEN "succeeded" ELSE "failed"
  /\ RemoveDirectories({<<Aggregator, w>> : w \in Siblings})
  /\ UNCHANGED <<unaggregated, current, accepted>>

-----------------------------------------------------------------------------
\* Metadata with one field altered.
Altered(x) ==
  {[x EXCEPT !.digest = m] : m \in Manifest} \cup {[x EXCEPT !.identity = i] : i \in Identity}

\* What an artifact may become between upload and download: a part missing,
\* altered, or that of another package of the workers.
DamagedForms(w) ==
  {[stored[w] EXCEPT !.extra = TRUE]}
    \cup {[stored[w] EXCEPT !.metadata = x] :
            x \in {Missing} \cup {Metadata(v, identity[v], m) : v \in Worker, m \in Manifest}
                 \cup Altered(PackageOf(w).metadata)}
    \cup {[stored[w] EXCEPT !.manifest = m] : m \in Manifest \cup {Missing}}
    \cup {[stored[w] EXCEPT !.files = f] :
            f \in {Payloads(m) : m \in Manifest}
                 \cup {[p \in DOMAIN stored[w].files |-> b] : b \in Bytes}}

Damage(w) ==
  /\ damages < MaxDamage /\ stored[w] # Missing
  /\ aggregator = "download" /\ w \notin DOMAIN accepted
  /\ damages' = damages + 1 /\ damaged' = damaged \cup {w}
  /\ \E a \in DamagedForms(w) : a # stored[w] /\ stored' = [stored EXCEPT ![w] = a]
  /\ UNCHANGED <<manifest, identity, pc, aggregator, current, staged, hashed, accepted>>
  /\ NoDirectoryChanges

EnvelopeNext ==
  \/ \E w \in Worker :
       \/ StartStaging(w) \/ FinishStaging(w) \/ FailStaging(w) \/ Upload(w) \/ FinishUpload(w)
       \/ \E p \in PackagePath : CopyPayload(w, p)
       \/ Download(w) \/ Damage(w)
  \/ Discover \/ Accept \/ Refuse \/ DiscardDownload \/ MergeAndApply \/ Cleanup

EnvelopeSpec == EnvelopeInit /\ [][EnvelopeNext]_envelopeVars
-----------------------------------------------------------------------------
WholeMetadata == {Metadata(w, i, m) : w \in Worker, i \in Identity, m \in Manifest}
Artifacts ==
  [name : Worker \X Family \X Manifest,
   metadata : {Missing} \cup WholeMetadata \cup UNION {Altered(x) : x \in WholeMetadata},
   manifest : Manifest \cup {Missing}, files : UNION {[D -> Bytes] : D \in SUBSET PackagePath},
   extra : BOOLEAN]

\* Types: of packages, artifacts and temporary directories.
EnvelopeTypeOK ==
  /\ manifest \in [Worker -> Manifest] /\ identity \in [Worker -> Identity]
  /\ pc \in [Worker -> {"start", "staging", "staged", "uploaded", "unsent", "succeeded", "failed"}]
  /\ aggregator \in {"waiting", "download", "verify", "discard", "merge", "cleanup",
                     "cleanupFailed", "succeeded", "failed"}
  /\ current \in Worker \cup {Missing} /\ damaged \subseteq Worker
  /\ staged \in [Worker -> SUBSET PackagePath]
  /\ \A w \in Worker : staged[w] \subseteq Changed(manifest[w])
  /\ stored \in [Worker -> Artifacts \cup {Missing}]
  /\ hashed \in BOOLEAN /\ damages \in 0 .. MaxDamage
  /\ DOMAIN accepted \subseteq Worker /\ \A w \in DOMAIN accepted : accepted[w] \in Artifacts
  /\ directories \subseteq (Worker \cup {Aggregator}) \X Worker
  /\ reported \subseteq directories

\* What the aggregator accepts of a worker is what that worker staged: its
\* manifest with exactly the bytes of the changed paths, whatever happened to
\* the artifact and whether or not the store reports hashes; and it applies
\* nothing unless all of them have its own cache family, and its own layout
\* as far as their artifacts are undamaged or the store reports hashes: of
\* the rest of an identity the metadata is the only witness.
AcceptedIsStaged ==
  /\ \A w \in DOMAIN accepted :
       /\ accepted[w].manifest = manifest[w]
       /\ accepted[w].files = Payloads(manifest[w])
       /\ accepted[w].metadata.payloadEntries = Payloads(manifest[w])
  /\ aggregator \in {"cleanup", "succeeded"} => \A w \in Worker :
       /\ identity[w].family = Own.family
       /\ hashed \/ w \notin damaged => identity[w] = Own

\* docs/architecture/delta-protocol.md:199-202: temporary directories are
\* removed on success and on failure, and every downloaded sibling gets a
\* cleanup attempt: a job ends with none but those it reported.
NoDirectoryLeft ==
  /\ \A w \in Worker : pc[w] \in {"succeeded", "failed"} =>
       (<<w, w>> \in directories => <<w, w>> \in reported)
  /\ aggregator \in {"succeeded", "failed"} =>
       \A w \in Worker : <<Aggregator, w>> \in directories => <<Aggregator, w>> \in reported
=============================================================================
