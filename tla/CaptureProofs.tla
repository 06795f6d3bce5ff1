---------------------------- MODULE CaptureProofs ----------------------------
(***************************************************************************)
(* Proofs about the two captures of the cache that races can spoil.        *)
(*                                                                         *)
(* FileCapture, for any bytes, attempts, clock and number of foreign       *)
(* changes.  Unless a change came within the tick of before.ctime, either  *)
(* nothing happened since the look before reading, or the path is empty or *)
(* shows a later change time; hence equal times mean that every part was   *)
(* read from the file that was looked at.                                  *)
(*                                                                         *)
(* TimestampGc and the scan of PartitionScan, for any tree of directories, *)
(* partitions, patterns, exclusions and number of foreign changes.  A file *)
(* that nobody touched is never between the items of the walk: it is       *)
(* listed, or something that is still queued is above it.  After the scan, *)
(* what is deleted was old in the snapshot, and every directory above it   *)
(* is pruned, still to be, or in use.                                      *)
(***************************************************************************)
EXTENDS FileCapture, TimestampGc, FiniteSetTheorems, TLAPS

ClockBound ==
  /\ file # Absent => file.ctime <= clock
  /\ before # Absent => before.ctime <= clock

Unchanged ==
  /\ file = before /\ handle = Absent
  /\ \A k \in DOMAIN read : read[k] = before.bytes[k]

\* What is known of the path since the look before reading.
Window ==
  /\ EntryOf(file) \in was
  /\ before # Absent => EntryOf(before) \in was
  /\ before # Absent /\ ~raced =>
       Unchanged \/ file = Absent \/ file.ctime > before.ctime

\* What each phase has established.
Phases ==
  /\ pc \in {"open", "read", "opencopy", "copy"} => before # Absent
  /\ pc \in {"read", "copy"} => file # Absent \/ handle # Absent
  /\ pc \in {"capture", "open", "read", "recheck"} => entry = Absent
  /\ pc \in {"opencopy", "copy", "staged"} => entry # Absent
  /\ pc \in {"opencopy", "copy"} => before.mtime = entry.mtime

IInv == TypeOK /\ ClockBound /\ Window /\ Phases /\ EntryWasReal /\ PayloadWasReal

\* The sets of contents do not hold the model value for none.
LEMMA NoneIsNoFile == Absent \notin File /\ Absent \notin Entry /\ Absent \notin Bytes
BY CaptureAssumption DEF File, Entry

\* An entry of a file is an entry.
LEMMA EntryOfType ==
  ASSUME NEW f \in File \cup {Absent}
  PROVE  /\ EntryOf(f) \in Entry \cup {Absent}
         /\ f # Absent => EntryOf(f) = [bytes |-> f.bytes, mtime |-> f.mtime]
BY DEF EntryOf, File, Entry

\* Nothing has been read yet.
LEMMA NothingRead ==
  LET r == [k \in {} |-> Absent] IN DOMAIN r \subseteq Part /\ r \in [DOMAIN r -> Byte]
OBVIOUS

LEMMA InitIInv == Init => IInv
<1> SUFFICES ASSUME Init PROVE IInv
  OBVIOUS
<1>1. file \in File \cup {Absent} /\ (file # Absent => file.ctime = 0)
  BY NoneIsNoFile DEF Init
<1>2. was \subseteq Entry \cup {Absent}
  BY <1>1, EntryOfType DEF Init
<1>3. clock \in Tick /\ attempt \in 0 .. Attempts /\ writes \in 0 .. MaxWrites
  BY CaptureAssumption DEF Init, Tick
<1>4. TypeOK
  BY <1>1, <1>2, <1>3, NothingRead DEF Init, TypeOK
<1>5. ClockBound /\ Window /\ Phases
  BY <1>1 DEF Init, ClockBound, Window, Phases
<1> QED
  BY <1>4, <1>5 DEF IInv, EntryWasReal, PayloadWasReal, Init

\* A look at the path starts a window in which nothing has happened.
LEMMA LookStartsWindow ==
  ASSUME TypeOK, ClockBound, Window, LookBefore
  PROVE  ClockBound' /\ Window' /\ EntryOf(file) \in was' /\ raced' = FALSE
  BY DEF LookBefore, ClockBound, Window, Unchanged

\* Equal times at the second look mean that what was read was at the path.
LEMMA StableMeansReal ==
  ASSUME IInv, before # Absent, file # Absent, Stable, ReadComplete
  PROVE  raced \/ [bytes |-> read, mtime |-> file.mtime] \in was
<1> SUFFICES ASSUME ~raced PROVE [bytes |-> read, mtime |-> file.mtime] \in was
  OBVIOUS
<1>1. file \in File /\ before \in File
  BY DEF IInv, TypeOK
<1>2. file.mtime = before.mtime /\ file.ctime = before.ctime
  BY DEF Stable, Stat
<1>3. ~(file.ctime > before.ctime)
  BY <1>1, <1>2, CaptureAssumption DEF File, Tick
<1>4. Unchanged
  BY <1>3 DEF IInv, Window
<1>5. read \in [Part -> Byte] /\ before.bytes \in [Part -> Byte]
  BY <1>1 DEF IInv, TypeOK, ReadComplete, File, Bytes
<1>6. read = before.bytes
  BY <1>4, <1>5 DEF Unchanged
<1>7. EntryOf(before) = [bytes |-> before.bytes, mtime |-> before.mtime]
  BY <1>1, EntryOfType
<1> QED
  BY <1>2, <1>6, <1>7 DEF IInv, Window

-----------------------------------------------------------------------------
\* The steps of the code.
LEMMA CodeStep ==
  ASSUME IInv,
         \/ StartAttempt \/ GiveUp \/ Open \/ Recheck \/ LookAfter
         \/ \E k \in Part : ReadPart(k)
         \/ StartStaging \/ OpenCopy \/ FinishCopy
  PROVE  IInv'
<1> USE NoneIsNoFile DEF IInv
<1>1. CASE StartAttempt
  <2>1. ClockBound' /\ Window' /\ EntryOf(file) \in was'
    BY <1>1, LookStartsWindow DEF StartAttempt
  <2>2. TypeOK'
    <3>1. attempt' \in 0 .. Attempts
      BY <1>1, CaptureAssumption DEF StartAttempt, MoreAttempts, TypeOK
    <3>2. was' \subseteq Entry \cup {Absent}
      BY <1>1, EntryOfType DEF StartAttempt, LookBefore, TypeOK
    <3> QED
      BY <1>1, <3>1, <3>2, NothingRead DEF StartAttempt, LookBefore, TypeOK, results
  <2>3. Phases' /\ EntryWasReal' /\ PayloadWasReal'
    BY <1>1, <2>1 DEF StartAttempt, LookBefore, Phases, EntryWasReal, PayloadWasReal,
                      EntryOf, results
  <2> QED BY <2>1, <2>2, <2>3
<1>2. CASE GiveUp
  BY <1>2 DEF GiveUp, TypeOK, ClockBound, Window, Unchanged, Phases, EntryWasReal,
              PayloadWasReal, reading, results, history
<1>3. CASE Open
  BY <1>3 DEF Open, SameFile, TypeOK, ClockBound, Window, Unchanged, Phases,
              EntryWasReal, PayloadWasReal, reading, results, history
<1>4. CASE Recheck
  <2>1. TypeOK' /\ ClockBound' /\ Window' /\ Phases'
    BY <1>4 DEF Recheck, TypeOK, ClockBound, Window, Unchanged, Phases, reading, results, history
  <2>2. EntryWasReal' /\ PayloadWasReal'
    BY <1>4 DEF Recheck, Window, Phases, EntryOf, EntryWasReal, PayloadWasReal,
                reading, results, history
  <2> QED BY <2>1, <2>2
<1>5. CASE LookAfter
  <2>1. UNCHANGED <<file, clock, attempt, reading, payload, history>> /\ pc = "read"
        /\ ReadComplete
    BY <1>5 DEF LookAfter
  <2>2. read \in Bytes
    BY <2>1 DEF TypeOK, ReadComplete, Bytes
  <2>3. file # Absent => file.mtime \in Tick
    BY DEF TypeOK, File
  <2>4. entry' \in Entry \cup {Absent}
    BY <1>5, <2>2, <2>3 DEF LookAfter, Entry
  <2>5. TypeOK' /\ ClockBound' /\ Window' /\ Phases'
    BY <1>5, <2>1, <2>4 DEF LookAfter, TypeOK, ClockBound, Window, Unchanged, Phases,
                            reading, history
  <2>6. EntryWasReal'
    <3>1. CASE file = Absent
      BY <1>5, <2>1, <3>1 DEF LookAfter, Window, EntryOf, EntryWasReal, history
    <3>2. CASE file # Absent /\ Stable
      BY <1>5, <2>1, <3>2, StableMeansReal DEF LookAfter, Phases, EntryWasReal, history
    <3>3. CASE file # Absent /\ ~Stable
      BY <1>5, <3>3 DEF LookAfter, EntryWasReal
    <3> QED BY <3>1, <3>2, <3>3
  <2>7. PayloadWasReal'
    BY <1>5 DEF LookAfter, PayloadWasReal
  <2> QED BY <2>5, <2>6, <2>7
<1>6. CASE \E k \in Part : ReadPart(k)
  <2>1. PICK k \in Part : ReadPart(k)
    BY <1>6
  <2> DEFINE source == IF handle # Absent THEN handle ELSE file.bytes
  <2>2. /\ pc \in {"read", "copy"}
        /\ read' = [j \in DOMAIN read \cup {k} |-> IF j = k THEN source[k] ELSE read[j]]
        /\ UNCHANGED <<file, clock, pc, attempt, before, handle, results, history>>
    BY <2>1 DEF ReadPart
  <2>3. source \in Bytes
    BY <2>2 DEF TypeOK, Phases, File
  <2>4. source[k] \in Byte
    BY <2>3 DEF Bytes
  <2>5. TypeOK'
    BY <2>2, <2>4 DEF TypeOK, results, history
  <2>6. Unchanged => Unchanged'
    BY <2>2 DEF Unchanged, Phases
  <2>7. ClockBound' /\ Window' /\ Phases'
    BY <2>2, <2>6 DEF ClockBound, Window, Phases, results, history
  <2>8. EntryWasReal' /\ PayloadWasReal'
    BY <2>2 DEF EntryWasReal, PayloadWasReal, results, history
  <2> QED BY <2>5, <2>7, <2>8
<1>7. CASE StartStaging
  <2>1. ClockBound' /\ Window'
    BY <1>7, LookStartsWindow DEF StartStaging
  <2>2. TypeOK'
    BY <1>7, EntryOfType, NothingRead DEF StartStaging, LookBefore, TypeOK, results
  <2>3. Phases' /\ EntryWasReal' /\ PayloadWasReal'
    BY <1>7 DEF StartStaging, MatchesEntry, LookBefore, Phases, EntryWasReal,
                PayloadWasReal, results
  <2> QED BY <2>1, <2>2, <2>3
<1>8. CASE OpenCopy
  BY <1>8 DEF OpenCopy, TypeOK, ClockBound, Window, Unchanged, Phases, EntryWasReal,
              PayloadWasReal, reading, results, history
<1>9. CASE FinishCopy
  <2>1. /\ UNCHANGED <<file, clock, attempt, reading, entry, history>> /\ pc = "copy"
        /\ ReadComplete
    BY <1>9 DEF FinishCopy
  <2>2. read \in Bytes
    BY <2>1 DEF TypeOK, ReadComplete, Bytes
  <2>3. TypeOK' /\ ClockBound' /\ Window' /\ Phases' /\ EntryWasReal'
    BY <1>9, <2>1, <2>2 DEF FinishCopy, TypeOK, ClockBound, Window, Unchanged, Phases,
                            EntryWasReal, reading, history
  <2>4. PayloadWasReal'
    <3>1. CASE file # Absent /\ CopyIsEntry /\ Stable
      <4>1. entry \in Entry /\ before # Absent /\ before.mtime = entry.mtime
        BY <2>1 DEF Phases, TypeOK
      <4>2. entry = [bytes |-> read, mtime |-> file.mtime]
        BY <3>1, <4>1 DEF CopyIsEntry, Stable, Stat, Entry
      <4>3. raced \/ entry \in was
        BY <2>1, <3>1, <4>1, <4>2, StableMeansReal
      <4> QED
        BY <1>9, <2>1, <3>1, <4>3 DEF FinishCopy, CopyIsEntry, PayloadWasReal, history
    <3>2. CASE ~(file # Absent /\ CopyIsEntry /\ Stable)
      BY <1>9, <3>2 DEF FinishCopy, PayloadWasReal
    <3> QED BY <3>1, <3>2
  <2> QED BY <2>3, <2>4
<1> QED
  BY <1>1, <1>2, <1>3, <1>4, <1>5, <1>6, <1>7, <1>8, <1>9

-----------------------------------------------------------------------------
\* Whatever the daemon puts at the path, the window knows of it.
LEMMA ChangeStep ==
  ASSUME IInv, NEW new \in File \cup {Absent}, Change(new),
         new # Absent => new.ctime = clock,
         handle' \in Bytes \cup {Absent},
         pc \in {"read", "copy"} => new # Absent \/ handle' # Absent
  PROVE  IInv'
<1> USE NoneIsNoFile DEF IInv
<1>1. /\ file' = new /\ was' = was \cup {EntryOf(new)} /\ writes' \in 0 .. MaxWrites
      /\ raced' = (raced \/ (before # Absent /\ clock = before.ctime))
      /\ UNCHANGED <<clock, pc, attempt, before, read, entry, payload>>
  BY CaptureAssumption DEF Change, results, TypeOK
<1>2. was' \subseteq Entry \cup {Absent} /\ raced' \in BOOLEAN
  BY <1>1, EntryOfType DEF TypeOK
<1>3. TypeOK'
  BY <1>1, <1>2 DEF TypeOK
<1>4. clock \in Int
  BY CaptureAssumption DEF TypeOK, Tick
<1>5. ClockBound'
  BY <1>1, <1>4 DEF ClockBound
<1>6. Phases'
  BY <1>1 DEF Phases
<1>7. ASSUME before # Absent, ~raced', new # Absent PROVE new.ctime > before.ctime
  <2>1. before.ctime \in Int
    BY <1>7, CaptureAssumption DEF TypeOK, File, Tick
  <2>2. clock # before.ctime
    BY <1>1, <1>7, Zenon
  <2>3. before.ctime <= clock /\ new.ctime = clock
    BY <1>7 DEF ClockBound
  <2> QED
    BY <1>4, <2>1, <2>2, <2>3
<1>8. Window'
  BY <1>1, <1>7 DEF Window, EntryOf
<1>9. EntryWasReal' /\ PayloadWasReal'
  BY <1>1 DEF EntryWasReal, PayloadWasReal
<1> QED
  BY <1>3, <1>5, <1>6, <1>8, <1>9

LEMMA OthersStep ==
  ASSUME IInv, WriteInPlace \/ SetTime \/ Replace \/ TimePasses
  PROVE  IInv'
<1> USE NoneIsNoFile
<1>0. clock \in Tick /\ (file # Absent => file \in File) /\ handle \in Bytes \cup {Absent}
  BY DEF IInv, TypeOK
<1>t. 0 .. clock \subseteq Tick
  BY <1>0, CaptureAssumption DEF Tick
<1>1. CASE WriteInPlace
  <2>1. PICK k \in Part, b \in Byte :
          Change([bytes |-> [file.bytes EXCEPT ![k] = b], mtime |-> clock, ctime |-> clock])
    BY <1>1 DEF WriteInPlace
  <2> DEFINE new == [bytes |-> [file.bytes EXCEPT ![k] = b], mtime |-> clock, ctime |-> clock]
  <2>2. new \in File
    BY <1>0, <1>1 DEF WriteInPlace, File, Bytes
  <2>3. handle' = handle /\ new # Absent /\ new.ctime = clock
    BY <1>1, <2>2 DEF WriteInPlace
  <2> HIDE DEF new
  <2>4. Change(new)
    BY <2>1 DEF new
  <2> QED BY <1>0, <2>2, <2>3, <2>4, ChangeStep
<1>2. CASE SetTime
  <2>1. PICK t \in 0 .. clock : Change([file EXCEPT !.mtime = t, !.ctime = clock])
    BY <1>2 DEF SetTime
  <2> DEFINE new == [file EXCEPT !.mtime = t, !.ctime = clock]
  <2>2. new \in File /\ new.ctime = clock
    BY <1>0, <1>t, <1>2 DEF SetTime, File
  <2>3. handle' = handle /\ new # Absent
    BY <1>2, <2>2 DEF SetTime
  <2> HIDE DEF new
  <2>4. Change(new)
    BY <2>1 DEF new
  <2> QED BY <1>0, <2>2, <2>3, <2>4, ChangeStep
<1>3. CASE Replace
  <2>1. handle' = IF pc \in {"read", "copy"} /\ handle = Absent /\ file # Absent
                  THEN file.bytes ELSE handle
    BY <1>3 DEF Replace
  <2>2. handle' \in Bytes \cup {Absent}
    BY <1>0, <2>1 DEF File
  <2>3. pc \in {"read", "copy"} => handle' # Absent
    BY <1>0, <2>1 DEF IInv, Phases, File
  <2>4. CASE Change(Absent)
    BY <2>2, <2>3, <2>4, ChangeStep
  <2>5. CASE \E b \in Byte, t \in 0 .. clock :
               Change([bytes |-> [k \in Part |-> b], mtime |-> t, ctime |-> clock])
    <3>1. PICK b \in Byte, t \in 0 .. clock :
            Change([bytes |-> [k \in Part |-> b], mtime |-> t, ctime |-> clock])
      BY <2>5
    <3> DEFINE new == [bytes |-> [k \in Part |-> b], mtime |-> t, ctime |-> clock]
    <3>2. new \in File /\ new.ctime = clock
      BY <1>0, <1>t DEF File, Bytes
    <3> HIDE DEF new
    <3>3. Change(new)
      BY <3>1 DEF new
    <3> QED BY <2>2, <2>3, <3>2, <3>3, ChangeStep
  <2> QED BY <1>3, <2>4, <2>5 DEF Replace
<1>4. CASE TimePasses
  <2>1. /\ clock' = clock + 1 /\ clock' \in Tick
        /\ UNCHANGED <<file, pc, attempt, reading, results, history>>
    BY <1>0, <1>4, CaptureAssumption DEF TimePasses, Tick
  <2>2. TypeOK' /\ Phases' /\ EntryWasReal' /\ PayloadWasReal'
    BY <2>1 DEF IInv, TypeOK, Phases, EntryWasReal, PayloadWasReal, reading, results, history
  <2>3. Window'
    BY <2>1 DEF IInv, Window, Unchanged, reading, history
  <2>4. ClockBound'
    <3>1. /\ clock \in Int /\ (file # Absent => file.ctime \in Int)
          /\ (before # Absent => before.ctime \in Int)
      BY <1>0, CaptureAssumption DEF IInv, TypeOK, File, Tick
    <3> QED BY <2>1, <3>1 DEF IInv, ClockBound, reading
  <2> QED BY <2>2, <2>3, <2>4 DEF IInv
<1> QED
  BY <1>1, <1>2, <1>3, <1>4

LEMMA InductiveIInv == IInv /\ [Next]_vars => IInv'
<1> SUFFICES ASSUME IInv, [Next]_vars PROVE IInv'
  OBVIOUS
<1>1. CASE Next
  BY <1>1, CodeStep, OthersStep DEF Next
<1>2. CASE UNCHANGED vars
  BY <1>2 DEF vars, reading, results, history, IInv, TypeOK, ClockBound, Window, Unchanged,
              Phases, EntryWasReal, PayloadWasReal
<1> QED
  BY <1>1, <1>2

LEMMA SpecIInv == Spec => []IInv
<1>1. Init => IInv
  BY InitIInv
<1>2. IInv /\ [Next]_vars => IInv'
  BY InductiveIInv
<1> QED
  BY <1>1, <1>2, PTL DEF Spec

-----------------------------------------------------------------------------
\* Capture and staging keep their state's types: the capture ends after the
\* attempts the code allows.
THEOREM SpecTypeOK == Spec => []TypeOK
<1>1. IInv => TypeOK
  BY DEF IInv
<1> QED
  BY <1>1, SpecIInv, PTL

\* captureStableFileEntry returns what was at the path at one moment of its
\* last attempt, unless a change fell within the tick of the one before.
THEOREM SpecEntryWasReal == Spec => []EntryWasReal
<1>1. IInv => EntryWasReal
  BY DEF IInv
<1> QED
  BY <1>1, SpecIInv, PTL

\* copyAndVerifySourceFile accepts only the bytes of the manifest entry, which
\* were at the path at one moment of the copy, under the same proviso.
THEOREM SpecPayloadWasReal == Spec => []PayloadWasReal
<1>1. IInv => PayloadWasReal
  BY DEF IInv
<1> QED
  BY <1>1, SpecIInv, PTL
-----------------------------------------------------------------------------
\* Garbage collection and its scan.

\* A directory is x itself, or above it.
Reaches(r, x) == r = x \/ r = Root \/ (x # Root /\ r \in Ancestors(x))

\* What exists hangs in the tree of the directories that exist.
TreeInv ==
  /\ files \subseteq ManagedFile /\ recent \subseteq ManagedFile
  /\ dirs \subseteq Dir /\ Root \in dirs
  /\ \A x \in files \cup (dirs \ {Root}) : Parent[x] \in dirs

ScanTypeOK ==
  /\ pattern \in 0 .. Len(Pattern) /\ roots \subseteq Dir
  /\ queue \subseteq (1 .. Len(Pattern)) \X (ManagedFile \cup Dir)
  /\ capturing \subseteq (1 .. Len(Pattern)) \X ManagedFile
  /\ listed \in [Partition -> [ManagedFile -> Nat]]
  /\ fresh \subseteq Listed \cap recent
  /\ still \subseteq ManagedFile /\ used \subseteq ManagedFile /\ actions \in Nat

\* Whatever is walked belongs to the last expanded pattern and is below one of
\* its roots.
CurrentWalk ==
  /\ \A item \in queue \cup capturing :
       /\ item[1] = pattern
       /\ \E r \in Pattern[item[1]].roots : Reaches(r, item[2])
  /\ roots # {} => pattern \in DOMAIN Pattern /\ roots \subseteq Pattern[pattern].roots

\* A file being captured is not listed, and not excluded.
CapturedOnce ==
  \A item \in capturing :
    /\ ~Excludes(item[1], item[2])
    /\ \A p \in Partition : listed[p][item[2]] = 0

ListedByOwner ==
  \A p \in Partition, f \in ManagedFile : listed[p][f] > 0 => p \in Owners(f)

\* A pattern covers a file that it includes and its partition does not exclude.
Covers(i, f) == ~Excludes(i, f) /\ Pattern[i].roots \cap (Ancestors(f) \cup {Root}) # {}

\* The walk of the last pattern has still to meet the file.
Pending(f) ==
  \/ \E r \in roots : Reaches(r, f)
  \/ \E item \in queue : Reaches(item[2], f)
  \/ \E item \in capturing : item[2] = f

NotPassedOver ==
  gcPhase = "scan" =>
    /\ still \subseteq files
    /\ \A f \in still, i \in 1 .. pattern :
         Covers(i, f) => Seen(i, f) \/ (i = pattern /\ Pending(f))

\* A listed entry without a recent timestamp was read before the file was used.
RecentIsUsed == \A f \in Listed \ fresh : f \in recent => f \in used

GcTypeOK ==
  /\ gcPhase \in {"scan", "collect", "delete", "prune", "done", "failed"}
  /\ at \in ManagedFile /\ toPrune \subseteq Dir \ {Root}
  /\ gcPhase = "scan" => old = {} /\ deleted = {} /\ toPrune = {}
  /\ gcPhase \in {"prune", "done"} => old = {}
  /\ gcPhase = "done" => toPrune = {}

\* Only what the snapshot calls old is deleted.
Candidates == Listed \ (fresh \cup Protected)
OnlyCandidates ==
  /\ old \cup deleted \subseteq Candidates
  /\ gcPhase = "delete" => at \in Candidates

\* While nobody else acts, what was there is there or was deleted, and every
\* candidate is still to be deleted or gone.
Quiet ==
  actions = 0 =>
    /\ used = {} /\ still = files \cup deleted
    /\ gcPhase = "delete" => at \in files
    /\ gcPhase \notin {"scan", "failed"} =>
         \A f \in Candidates : f \in old \/ (gcPhase = "delete" /\ at = f) \/ f \notin files

\* A directory that was emptied is still to be pruned, or is gone or in use
\* with nothing below it still to be pruned.
Pruning ==
  /\ gcPhase \in {"collect", "delete"} => toPrune = UNION {Ancestors(f) : f \in deleted}
  /\ (gcPhase \in {"prune", "done"} /\ actions = 0) =>
       \A f \in deleted : \A d \in Ancestors(f) :
         \/ d \in toPrune
         \/ ~Removable(d) /\ \A e \in toPrune : d \notin Ancestors(e)

ScanInv ==
  /\ TreeInv /\ ScanTypeOK /\ CurrentWalk /\ CapturedOnce /\ ListedByOwner /\ EachPathOnce
  /\ NotPassedOver /\ RecentIsUsed

GcInv ==
  /\ ScanInv /\ GcTypeOK /\ StillFilesAreListed
  /\ OnlyCandidates /\ RecentLostOnlyAfterScan /\ Quiet /\ Pruning
-----------------------------------------------------------------------------
\* The tree.  Everything but the root has a parent, from which its ancestors
\* follow, and nothing is its own ancestor.
Below == ManagedFile \cup (Dir \ {Root})

LEMMA ParentTyped == \A x \in Below : Parent[x] \in Dir
  BY ScanAssumption DEF Below

LEMMA AncestorsAreDirectories ==
  ASSUME NEW x
  PROVE  Ancestors(x) \subseteq Dir \ {Root} /\ Ancestors(x) \subseteq Below
  BY DEF Ancestors, Below

\* Every set with the parent of x and with the parents of its members has the
\* ancestors of x.
LEMMA AncestorsLeast ==
  ASSUME NEW x, NEW S \in SUBSET Dir, Parent[x] \in S, HasParents(S)
  PROVE  Ancestors(x) \subseteq S
  BY DEF Ancestors

LEMMA ParentIsAncestor ==
  ASSUME NEW x \in Below, Parent[x] # Root
  PROVE  Parent[x] \in Ancestors(x)
  BY ParentTyped DEF Ancestors

LEMMA AncestorsClosed ==
  ASSUME NEW x, NEW d \in Ancestors(x)
  PROVE  /\ Parent[d] \in Ancestors(x) \cup {Root}
         /\ Ancestors(d) \subseteq Ancestors(x)
<1>1. d \in Dir \ {Root} /\ Parent[d] \in Dir
  BY AncestorsAreDirectories, ParentTyped DEF Below
<1>2. \A S \in SUBSET Dir : Parent[x] \in S /\ HasParents(S) => Parent[d] \in S
  BY <1>1 DEF Ancestors, HasParents
<1>3. Ancestors(d) \subseteq Ancestors(x)
  BY <1>2 DEF Ancestors
<1> QED  BY <1>1, <1>2, <1>3 DEF Ancestors

\* The ancestors of x are its parent and the parent's, up to the root.
LEMMA AncestorsUnfold ==
  ASSUME NEW x \in Below
  PROVE  Ancestors(x) = IF Parent[x] = Root THEN {} ELSE {Parent[x]} \cup Ancestors(Parent[x])
<1>1. CASE Parent[x] = Root
  <2>1. HasParents({Root}) /\ {Root} \in SUBSET Dir
    BY ScanAssumption DEF HasParents
  <2>2. Ancestors(x) \subseteq {Root}
    BY <1>1, <2>1, AncestorsLeast
  <2> QED  BY <1>1, <2>2, AncestorsAreDirectories
<1>2. CASE Parent[x] # Root
  <2> DEFINE p == Parent[x]
             S == {p, Root} \cup Ancestors(p)
  <2>1. p \in Dir \ {Root} /\ p \in Ancestors(x)
    BY <1>2, ParentTyped, ParentIsAncestor
  <2>2. S \in SUBSET Dir
    BY <2>1, AncestorsAreDirectories, ScanAssumption
  <2>3. HasParents(S)
    <3> SUFFICES ASSUME NEW d \in S \ {Root} PROVE Parent[d] \in S
      BY DEF HasParents
    <3>1. CASE d = p
      BY <2>1, <3>1, ParentIsAncestor DEF Below
    <3>2. CASE d \in Ancestors(p)
      BY <3>2, AncestorsClosed
    <3> QED  BY <3>1, <3>2
  <2>4. Ancestors(x) \subseteq S
    BY <2>2, <2>3, AncestorsLeast
  <2>5. Ancestors(p) \subseteq Ancestors(x)
    BY <2>1, AncestorsClosed
  <2> QED  BY <1>2, <2>1, <2>4, <2>5, AncestorsAreDirectories
<1> QED  BY <1>1, <1>2

LEMMA NotOwnAncestor ==
  ASSUME NEW x \in Below
  PROVE  x \notin Ancestors(x)
<1> SUFFICES ASSUME x \in Ancestors(x) PROVE FALSE
  OBVIOUS
<1> DEFINE Cycle == {d \in Ancestors(x) : x \in Ancestors(d)}
<1>1. Cycle \in SUBSET Dir /\ Cycle # {} /\ Root \notin Cycle
  BY AncestorsAreDirectories
<1>2. HasParents(Cycle)
  <2> SUFFICES ASSUME NEW d \in Cycle PROVE Parent[d] \in Cycle
    BY DEF HasParents
  <2>1. d \in Below /\ d \in Ancestors(x) /\ x \in Ancestors(d)
    BY AncestorsAreDirectories
  <2>2. Parent[d] # Root /\ (x = Parent[d] \/ x \in Ancestors(Parent[d]))
    BY <2>1, AncestorsUnfold
  <2>3. Parent[d] \in Ancestors(x)
    BY <2>1, <2>2, AncestorsClosed
  <2> QED  BY <2>2, <2>3
<1> QED  BY <1>1, <1>2, ScanAssumption

\* A directory above x has a child on the way to x.
LEMMA StepDown ==
  ASSUME NEW x \in Below, NEW d \in Ancestors(x) \cup {Root}
  PROVE  \E y \in {x} \cup Ancestors(x) : Parent[y] = d
<1> SUFFICES ASSUME \A y \in {x} \cup Ancestors(x) : Parent[y] # d PROVE FALSE
  OBVIOUS
<1> DEFINE S == (Ancestors(x) \cup {Root}) \ {d}
<1>1. Parent[x] \in S
  BY ParentTyped, ParentIsAncestor
<1>2. S \in SUBSET Dir /\ HasParents(S)
  <2>1. \A e \in Ancestors(x) : Parent[e] \in Ancestors(x) \cup {Root}
    BY AncestorsClosed
  <2> QED  BY <2>1, AncestorsAreDirectories, ScanAssumption DEF HasParents
<1>3. CASE d = Root
  BY <1>1, <1>2, <1>3, ScanAssumption
<1>4. CASE d \in Ancestors(x)
  <2>1. Ancestors(x) \subseteq S
    BY <1>1, <1>2, AncestorsLeast
  <2> QED  BY <1>4, <2>1
<1> QED  BY <1>3, <1>4

\* The directories above what exists exist.
LEMMA AncestorsExist ==
  ASSUME TreeInv, NEW x \in files \cup (dirs \ {Root})
  PROVE  x \in Below /\ Ancestors(x) \subseteq dirs
<1>1. x \in Below /\ Parent[x] \in dirs
  BY DEF TreeInv, Below
<1>2. dirs \in SUBSET Dir /\ HasParents(dirs)
  BY DEF TreeInv, HasParents
<1> QED  BY <1>1, <1>2, AncestorsLeast

\* A root that reaches a file is above it.
LEMMA ReachesFile ==
  ASSUME NEW f \in ManagedFile, NEW r \in Dir
  PROVE  Reaches(r, f) <=> r \in Ancestors(f) \cup {Root}
  BY ScanAssumption DEF Reaches

LEMMA ReachesChild ==
  ASSUME NEW x \in Below, NEW r, Reaches(r, Parent[x])
  PROVE  Reaches(r, x)
<1>1. x # Root
  BY ScanAssumption DEF Below
<1>2. CASE r = Root
  BY <1>2 DEF Reaches
<1>3. CASE r # Root
  <2>1. Parent[x] # Root
    BY <1>3 DEF Reaches
  <2>2. Parent[x] \in Ancestors(x)
    BY <2>1, ParentIsAncestor
  <2> QED  BY <1>1, <1>3, <2>2, AncestorsClosed DEF Reaches
<1> QED  BY <1>2, <1>3

\* Patterns are typed, and so are the indices of the items.
LEMMA PatternTyped ==
  \A i \in 1 .. Len(Pattern) :
    /\ i \in DOMAIN Pattern /\ Len(Pattern) \in Nat
    /\ Pattern[i].partition \in Partition /\ Pattern[i].roots \subseteq Dir
<1> DEFINE P == [partition : Partition, roots : SUBSET Dir]
<1>1. Pattern \in Seq(P)
  BY ScanAssumption
<1> HIDE DEF P
<1>2. \A i \in 1 .. Len(Pattern) : i \in DOMAIN Pattern /\ Pattern[i] \in P /\ Len(Pattern) \in Nat
  BY <1>1
<1> QED  BY <1>2 DEF P

\* A file that a root of the pattern reaches, and that is not excluded, has
\* the pattern's partition as an owner.
LEMMA ReachedHasOwner ==
  ASSUME NEW f \in ManagedFile, NEW i \in 1 .. Len(Pattern), ~Excludes(i, f),
         NEW r \in Pattern[i].roots, Reaches(r, f)
  PROVE  Pattern[i].partition \in Owners(f)
<1>1. r \in Ancestors(f) \cup {Root}
  BY PatternTyped, ReachesFile
<1> QED  BY <1>1, PatternTyped DEF Owners, Excludes

-----------------------------------------------------------------------------
\* Steps of the scan leave the tree, the history and the collector alone.
ScanFrame == gcPhase = "scan" /\ UNCHANGED <<fileSystem, scanHistory, gc>>

LEMMA ScanFrameInv ==
  ASSUME GcInv, ScanFrame, ScanInv'
  PROVE  GcInv'
<1> USE DEF ScanFrame, fileSystem, scanHistory, gc
<1>1. GcTypeOK'
  BY DEF GcInv, GcTypeOK
<1>2. StillFilesAreListed' /\ Quiet' /\ Pruning'
  BY DEF GcInv, GcTypeOK, StillFilesAreListed, Quiet, Pruning
<1>3. OnlyCandidates'
  BY DEF GcInv, GcTypeOK, OnlyCandidates
<1>4. RecentLostOnlyAfterScan'
  BY DEF GcInv, RecentLostOnlyAfterScan
<1> QED  BY <1>1, <1>2, <1>3, <1>4 DEF GcInv

\* Steps that list nothing.
LEMMA ListingKept ==
  ASSUME ScanInv, ScanFrame, UNCHANGED <<listed, fresh>>
  PROVE  /\ TreeInv' /\ ListedByOwner' /\ EachPathOnce' /\ RecentIsUsed'
         /\ listed' \in [Partition -> [ManagedFile -> Nat]] /\ fresh' \subseteq Listed' \cap recent'
         /\ still' \subseteq ManagedFile /\ used' \subseteq ManagedFile /\ actions' \in Nat
<1> USE DEF ScanFrame, fileSystem, scanHistory
<1>1. TreeInv'
  BY DEF ScanInv, TreeInv
<1>2. ListedByOwner' /\ EachPathOnce'
  BY DEF ScanInv, ListedByOwner, EachPathOnce, Owners
<1>3. Listed' = Listed
  BY DEF Listed
<1>4. RecentIsUsed'
  BY <1>3 DEF ScanInv, RecentIsUsed
<1> QED  BY <1>1, <1>2, <1>3, <1>4 DEF ScanInv, ScanTypeOK

LEMMA ExpandPatternInv ==
  ASSUME ScanInv, ScanFrame, ExpandPattern
  PROVE  ScanInv'
<1>1. /\ roots = {} /\ queue = {} /\ capturing = {} /\ pattern < Len(Pattern)
      /\ pattern' = pattern + 1 /\ roots' = Pattern[pattern'].roots \cap dirs
      /\ UNCHANGED <<queue, capturing, listed, fresh>>
  BY DEF ExpandPattern, RootWalked
<1>2. pattern \in 0 .. Len(Pattern) /\ Len(Pattern) \in Nat
  BY ScanAssumption DEF ScanInv, ScanTypeOK
<1>3. pattern' \in 1 .. Len(Pattern) /\ pattern' \in DOMAIN Pattern /\ Pattern[pattern'].roots \subseteq Dir
  BY <1>1, <1>2, PatternTyped
<1>4. ScanTypeOK'
  BY <1>1, <1>3, ListingKept DEF ScanTypeOK
<1>5. CurrentWalk' /\ CapturedOnce'
  BY <1>1, <1>3 DEF CurrentWalk, CapturedOnce
<1>6. NotPassedOver'
  <2> SUFFICES ASSUME NEW f \in still', NEW i \in 1 .. pattern', Covers(i, f)
               PROVE  Seen(i, f)' \/ (i = pattern' /\ Pending(f)')
    BY DEF NotPassedOver, ScanInv, ScanFrame, fileSystem, scanHistory, Covers, Excludes
  <2>1. f \in files /\ f \in still /\ f \in ManagedFile
    BY DEF ScanInv, NotPassedOver, ScanFrame, scanHistory, ScanTypeOK
  <2>2. CASE i = pattern'
    <3>1. PICK r \in Pattern[pattern'].roots : r \in Ancestors(f) \cup {Root}
      BY <2>2 DEF Covers
    <3>2. r \in dirs
      BY <2>1, <3>1, AncestorsExist DEF ScanInv, TreeInv
    <3>3. r \in roots' /\ Reaches(r, f)
      BY <1>1, <1>3, <2>1, <3>1, <3>2, ReachesFile
    <3> QED  BY <2>2, <3>3 DEF Pending
  <2>3. CASE i # pattern'
    <3>1. i \in 1 .. pattern
      BY <1>1, <1>2, <2>3
    <3>2. Seen(i, f) \/ Pending(f)
      BY <2>1, <3>1 DEF ScanInv, NotPassedOver, ScanFrame
    <3> QED  BY <1>1, <3>2 DEF Pending, Seen
  <2> QED  BY <2>2, <2>3
<1> QED  BY <1>1, <1>4, <1>5, <1>6, ListingKept DEF ScanInv

\* A step of the last pattern's walk.
LEMMA WalkInv ==
  ASSUME ScanInv, ScanFrame, UNCHANGED <<pattern, listed, fresh>>,
         ScanTypeOK', CurrentWalk', CapturedOnce',
         \A f \in still : Pending(f) => Pending(f)' \/ Seen(pattern, f) \/ Excludes(pattern, f)
  PROVE  ScanInv'
<1>1. NotPassedOver'
  <2> SUFFICES ASSUME NEW f \in still, NEW i \in 1 .. pattern, Covers(i, f)
               PROVE  Seen(i, f) \/ (i = pattern /\ Pending(f)')
    BY DEF ScanInv, NotPassedOver, ScanFrame, scanHistory, fileSystem, Seen, Covers, Excludes
  <2>1. Seen(i, f) \/ (i = pattern /\ Pending(f))
    BY DEF ScanInv, NotPassedOver, ScanFrame
  <2>2. ~Excludes(i, f)
    BY DEF Covers
  <2> QED  BY <2>1, <2>2
<1> QED  BY <1>1, ListingKept DEF ScanInv

LEMMA WalkRootInv ==
  ASSUME ScanInv, ScanFrame, NEW r \in Dir, WalkRoot(r)
  PROVE  ScanInv'
<1>1. /\ r \in roots /\ roots' = roots \ {r} /\ queue' = queue \cup {<<pattern, r>>}
      /\ UNCHANGED <<pattern, capturing, listed, fresh>>
  BY DEF WalkRoot
<1>2. pattern \in 1 .. Len(Pattern) /\ roots \subseteq Pattern[pattern].roots
  <2>1. pattern \in DOMAIN Pattern /\ roots \subseteq Pattern[pattern].roots
    BY <1>1 DEF ScanInv, CurrentWalk
  <2> QED  BY <2>1, ScanAssumption
<1>3. ScanTypeOK'
  BY <1>1, <1>2, ListingKept DEF ScanInv, ScanTypeOK
<1>4. CurrentWalk'
  <2>1. Reaches(r, r)
    BY DEF Reaches
  <2>2. ASSUME NEW item \in queue' \cup capturing'
        PROVE  item[1] = pattern /\ \E s \in Pattern[item[1]].roots : Reaches(s, item[2])
    <3>1. CASE item = <<pattern, r>>
      BY <1>1, <1>2, <2>1, <3>1
    <3>2. CASE item # <<pattern, r>>
      BY <1>1, <3>2 DEF ScanInv, CurrentWalk
    <3> QED  BY <3>1, <3>2
  <2> QED  BY <1>1, <2>2 DEF ScanInv, CurrentWalk
<1>5. CapturedOnce'
  BY <1>1 DEF ScanInv, CapturedOnce, Excludes
<1>6. ASSUME NEW f \in still, Pending(f) PROVE Pending(f)'
  <2>1. CASE \E s \in roots : Reaches(s, f)
    <3>1. PICK s \in roots : Reaches(s, f)
      BY <2>1
    <3>2. CASE s = r
      <4>1. <<pattern, r>> \in queue' /\ Reaches(<<pattern, r>>[2], f)
        BY <1>1, <3>1, <3>2
      <4> QED  BY <4>1 DEF Pending
    <3>3. CASE s # r
      BY <1>1, <3>1, <3>3 DEF Pending
    <3> QED  BY <3>2, <3>3
  <2>2. CASE ~\E s \in roots : Reaches(s, f)
    BY <1>1, <1>6, <2>2 DEF Pending
  <2> QED  BY <2>1, <2>2
<1> QED  BY <1>1, <1>3, <1>4, <1>5, <1>6, WalkInv

LEMMA InspectInv ==
  ASSUME ScanInv, ScanFrame, NEW i \in 1 .. Len(Pattern), NEW d \in Dir, Inspect(i, d)
  PROVE  ScanInv'
<1> DEFINE entries == IF d \in dirs THEN Children(d) ELSE {}
<1>1. /\ <<i, d>> \in queue
      /\ queue' = (queue \ {<<i, d>>}) \cup {<<i, x>> : x \in entries}
      /\ UNCHANGED <<pattern, roots, capturing, listed, fresh>>
  BY DEF Inspect
<1>2. \A x \in entries : x \in files \cup (dirs \ {Root}) /\ x \in Below /\ Parent[x] = d
  BY DEF Children, ScanInv, TreeInv, Below
<1>3. i = pattern /\ \E r \in Pattern[i].roots : Reaches(r, d)
  BY <1>1 DEF ScanInv, CurrentWalk
<1> HIDE DEF entries
<1>4. ScanTypeOK'
  <2>1. \A x \in entries : <<i, x>> \in (1 .. Len(Pattern)) \X (ManagedFile \cup Dir)
    BY <1>2 DEF Below
  <2> QED  BY <1>1, <2>1, ListingKept DEF ScanInv, ScanTypeOK
<1>5. CurrentWalk'
  <2>1. PICK r \in Pattern[i].roots : Reaches(r, d)
    BY <1>3
  <2>2. \A x \in entries : Reaches(r, x)
    BY <1>2, <2>1, ReachesChild
  <2>3. ASSUME NEW item \in queue' \cup capturing'
        PROVE  item[1] = pattern /\ \E s \in Pattern[item[1]].roots : Reaches(s, item[2])
    <3>1. CASE item \in queue \cup capturing
      BY <3>1 DEF ScanInv, CurrentWalk
    <3>2. CASE item \notin queue \cup capturing
      <4>1. PICK x \in entries : item = <<i, x>>
        BY <1>1, <3>2
      <4> QED  BY <1>3, <2>1, <2>2, <4>1
    <3> QED  BY <3>1, <3>2
  <2> QED  BY <1>1, <2>3 DEF ScanInv, CurrentWalk
<1>6. CapturedOnce'
  BY <1>1 DEF ScanInv, CapturedOnce, Excludes
<1>7. ASSUME NEW f \in still, Pending(f) PROVE Pending(f)'
  <2>1. f \in ManagedFile /\ f \in files /\ f \in Below
    BY DEF ScanInv, ScanTypeOK, NotPassedOver, ScanFrame, Below
  <2>2. CASE Reaches(d, f)
    <3>1. d \in Ancestors(f) \cup {Root}
      BY <2>1, <2>2, ReachesFile
    <3>2. Ancestors(f) \subseteq dirs \ {Root} /\ Root \in dirs
      BY <2>1, AncestorsExist, AncestorsAreDirectories DEF ScanInv, TreeInv
    <3>3. PICK y \in {f} \cup Ancestors(f) : Parent[y] = d
      BY <2>1, <3>1, StepDown
    <3>4. y \in entries
      BY <2>1, <3>1, <3>2, <3>3 DEF entries, Children
    <3>5. Reaches(y, f)
      BY <2>1, <3>3, ScanAssumption DEF Reaches
    <3>6. <<i, y>> \in queue' /\ Reaches(<<i, y>>[2], f)
      BY <1>1, <3>4, <3>5
    <3> QED  BY <3>6 DEF Pending
  <2>3. CASE ~Reaches(d, f)
    <3>1. ASSUME NEW item \in queue, Reaches(item[2], f) PROVE item \in queue'
      BY <1>1, <2>3, <3>1
    <3> QED  BY <1>1, <1>7, <3>1 DEF Pending
  <2> QED  BY <2>2, <2>3
<1> QED  BY <1>1, <1>4, <1>5, <1>6, <1>7, WalkInv

LEMMA VisitInv ==
  ASSUME ScanInv, ScanFrame, NEW i \in 1 .. Len(Pattern), NEW f \in ManagedFile, Visit(i, f)
  PROVE  ScanInv'
<1>1. /\ <<i, f>> \in queue /\ ~Claimed(i, f) /\ queue' = queue \ {<<i, f>>}
      /\ capturing' = IF Seen(i, f) \/ Excludes(i, f) THEN capturing ELSE capturing \cup {<<i, f>>}
      /\ UNCHANGED <<pattern, roots, listed, fresh>>
  BY DEF Visit
<1>2. i = pattern /\ \E r \in Pattern[i].roots : Reaches(r, f)
  BY <1>1 DEF ScanInv, CurrentWalk
<1>3. ScanTypeOK'
  <2>1. capturing' \subseteq capturing \cup {<<i, f>>} /\ queue' \subseteq queue
    BY <1>1
  <2> QED  BY <1>1, <2>1, ListingKept DEF ScanInv, ScanTypeOK
<1>4. CurrentWalk'
  <2>1. \A item \in queue' \cup capturing' : item \in queue \cup capturing
    BY <1>1
  <2> QED  BY <1>1, <2>1 DEF ScanInv, CurrentWalk
<1>5. CapturedOnce'
  <2> SUFFICES ASSUME NEW item \in capturing'
               PROVE  ~Excludes(item[1], item[2]) /\ \A p \in Partition : listed[p][item[2]] = 0
    BY <1>1 DEF CapturedOnce, Excludes
  <2>1. CASE item \in capturing
    BY <2>1 DEF ScanInv, CapturedOnce
  <2>2. CASE item \notin capturing
    <3>1. item = <<i, f>> /\ ~Seen(i, f) /\ ~Excludes(i, f)
      BY <1>1, <2>2
    <3>2. \A p \in Partition : ~(listed[p][f] > 0) /\ listed[p][f] \in Nat
      BY <1>1, <3>1 DEF Claimed, ScanInv, ScanTypeOK
    <3>3. \A p \in Partition : listed[p][f] = 0
      BY <3>2
    <3> QED  BY <3>1, <3>3
  <2> QED  BY <2>1, <2>2
<1>6. ASSUME NEW g \in still, Pending(g)
      PROVE  Pending(g)' \/ Seen(pattern, g) \/ Excludes(pattern, g)
  <2>1. g \in ManagedFile
    BY DEF ScanInv, ScanTypeOK
  <2>2. CASE g = f
    <3>1. CASE Seen(i, f) \/ Excludes(i, f)
      BY <1>2, <2>2, <3>1
    <3>2. CASE ~(Seen(i, f) \/ Excludes(i, f))
      <4>1. <<i, f>> \in capturing' /\ <<i, f>>[2] = g
        BY <1>1, <2>2, <3>2
      <4> QED  BY <4>1 DEF Pending
    <3> QED  BY <3>1, <3>2
  <2>3. CASE g # f
    <3>1. ~Reaches(f, g)
      BY <2>1, <2>3, AncestorsAreDirectories, ScanAssumption DEF Reaches
    <3>2. capturing \subseteq capturing'
      BY <1>1
    <3>3. ASSUME NEW item \in queue, Reaches(item[2], g) PROVE item \in queue'
      BY <1>1, <3>1, <3>3
    <3> QED  BY <1>1, <1>6, <3>2, <3>3 DEF Pending
  <2> QED  BY <2>2, <2>3
<1> QED  BY <1>1, <1>3, <1>4, <1>5, <1>6, WalkInv

LEMMA CaptureEntryInv ==
  ASSUME ScanInv, ScanFrame, NEW i \in 1 .. Len(Pattern), NEW f \in ManagedFile,
         CaptureEntry(i, f)
  PROVE  ScanInv'
<1> DEFINE p0 == Pattern[i].partition
<1>1. /\ <<i, f>> \in capturing /\ capturing' = capturing \ {<<i, f>>}
      /\ UNCHANGED <<pattern, roots, queue>>
  BY DEF CaptureEntry
<1>2. /\ i = pattern /\ ~Excludes(i, f) /\ p0 \in Partition
      /\ \E r \in Pattern[i].roots : Reaches(r, f)
      /\ \A p \in Partition : listed[p][f] = 0
  BY <1>1, PatternTyped DEF ScanInv, CurrentWalk, CapturedOnce
<1>3. CurrentWalk'
  BY <1>1 DEF ScanInv, CurrentWalk
<1>4. ASSUME NEW g \in still, Pending(g), g # f PROVE Pending(g)'
  BY <1>1, <1>4 DEF Pending
<1>5. CASE f \notin files
  <2>1. UNCHANGED <<listed, fresh>>
    BY <1>5 DEF CaptureEntry
  <2>2. ScanTypeOK'
    BY <1>1, <2>1, ListingKept DEF ScanInv, ScanTypeOK
  <2>3. CapturedOnce'
    BY <1>1, <2>1 DEF ScanInv, CapturedOnce, Excludes
  <2>4. f \notin still
    BY <1>5 DEF ScanInv, NotPassedOver, ScanFrame
  <2> QED  BY <1>1, <1>3, <1>4, <2>1, <2>2, <2>3, <2>4, WalkInv
<1>6. CASE f \in files
  <2>1. /\ listed' = [listed EXCEPT ![p0][f] = @ + 1]
        /\ fresh' = fresh \cup ({f} \cap recent)
    BY <1>6 DEF CaptureEntry
  <2>2. listed \in [Partition -> [ManagedFile -> Nat]]
    BY DEF ScanInv, ScanTypeOK
  <2>3. /\ listed' \in [Partition -> [ManagedFile -> Nat]]
        /\ \A p \in Partition, g \in ManagedFile :
             listed'[p][g] = IF p = p0 /\ g = f THEN 1 ELSE listed[p][g]
    BY <1>2, <2>1, <2>2
  <2>4. Listed' = Listed \cup {f}
    BY <1>2, <2>2, <2>3 DEF Listed
  <2>5. ScanTypeOK'
    BY <1>1, <2>1, <2>3, <2>4 DEF ScanInv, ScanTypeOK, ScanFrame, fileSystem, scanHistory
  <2>6. TreeInv'
    BY DEF ScanInv, TreeInv, ScanFrame, fileSystem
  <2>7. CapturedOnce'
    <3> SUFFICES ASSUME NEW item \in capturing'
                 PROVE  ~Excludes(item[1], item[2]) /\ \A p \in Partition : listed'[p][item[2]] = 0
      BY DEF CapturedOnce, Excludes
    <3>1. item \in capturing /\ item # <<i, f>> /\ item[1] = i /\ item[2] \in ManagedFile
      BY <1>1, <1>2 DEF ScanInv, CurrentWalk, ScanTypeOK
    <3>2. item[2] # f
      BY <3>1 DEF ScanInv, ScanTypeOK
    <3> QED  BY <2>3, <3>1, <3>2 DEF ScanInv, CapturedOnce
  <2>8. ListedByOwner'
    <3>1. p0 \in Owners(f)
      BY <1>2, ReachedHasOwner
    <3>2. \A p \in Partition, g \in ManagedFile : listed'[p][g] > 0 => p \in Owners(g)
      BY <2>3, <3>1 DEF ScanInv, ListedByOwner
    <3> QED  BY <3>2 DEF ListedByOwner, Owners
  <2>9. EachPathOnce'
    <3> SUFFICES ASSUME NEW g \in ManagedFile, NEW p \in Partition, NEW q \in Partition
                 PROVE  listed'[p][g] + (IF p = q THEN 0 ELSE listed'[q][g]) <= 1
      BY DEF EachPathOnce
    <3>1. CASE g = f
      BY <1>2, <2>3, <3>1
    <3>2. CASE g # f
      BY <2>3, <3>2 DEF ScanInv, EachPathOnce
    <3> QED  BY <3>1, <3>2
  <2>10. NotPassedOver'
    <3> SUFFICES ASSUME NEW g \in still, NEW j \in 1 .. pattern, Covers(j, g)
                 PROVE  Seen(j, g)' \/ (j = pattern /\ Pending(g)')
      BY <1>1 DEF ScanInv, NotPassedOver, ScanFrame, scanHistory, fileSystem, Covers, Excludes
    <3>1. Seen(j, g) \/ (j = pattern /\ Pending(g))
      BY DEF ScanInv, NotPassedOver, ScanFrame
    <3>2. j \in 1 .. Len(Pattern) /\ Pattern[j].partition \in Partition /\ g \in ManagedFile
      BY <1>2, PatternTyped DEF ScanInv, ScanTypeOK
    <3>3. CASE Seen(j, g)
      BY <2>3, <3>2, <3>3 DEF Seen
    <3>4. CASE j = pattern /\ g = f
      BY <1>2, <2>3, <3>2, <3>4 DEF Seen
    <3>5. CASE j = pattern /\ Pending(g) /\ g # f
      BY <1>4, <3>5
    <3> QED  BY <3>1, <3>3, <3>4, <3>5
  <2>11. RecentIsUsed'
    BY <2>1, <2>4 DEF ScanInv, RecentIsUsed, ScanFrame, fileSystem, scanHistory
  <2> QED  BY <1>3, <2>5, <2>6, <2>7, <2>8, <2>9, <2>10, <2>11 DEF ScanInv
<1> QED  BY <1>5, <1>6

\* Every step of the scan.
LEMMA ScanGcInv ==
  ASSUME GcInv, Scan
  PROVE  GcInv'
<1>1. gcPhase = "scan" /\ UNCHANGED gc /\ ScanStep /\ ScanInv
  BY DEF Scan, GcInv
<1>2. CASE ExpandPattern
  <2>1. ScanFrame
    BY <1>1, <1>2 DEF ScanFrame, ExpandPattern
  <2> QED  BY <1>1, <1>2, <2>1, ExpandPatternInv, ScanFrameInv
<1>3. ASSUME NEW r \in Dir, WalkRoot(r) PROVE GcInv'
  <2>1. ScanFrame
    BY <1>1, <1>3 DEF ScanFrame, WalkRoot
  <2> QED  BY <1>1, <1>3, <2>1, WalkRootInv, ScanFrameInv
<1>4. ASSUME NEW i \in 1 .. Len(Pattern), NEW d \in Dir, Inspect(i, d) PROVE GcInv'
  <2>1. ScanFrame
    BY <1>1, <1>4 DEF ScanFrame, Inspect
  <2> QED  BY <1>1, <1>4, <2>1, InspectInv, ScanFrameInv
<1>5. ASSUME NEW i \in 1 .. Len(Pattern), NEW f \in ManagedFile, Visit(i, f) PROVE GcInv'
  <2>1. ScanFrame
    BY <1>1, <1>5 DEF ScanFrame, Visit
  <2> QED  BY <1>1, <1>5, <2>1, VisitInv, ScanFrameInv
<1>6. ASSUME NEW i \in 1 .. Len(Pattern), NEW f \in ManagedFile, CaptureEntry(i, f) PROVE GcInv'
  <2>1. ScanFrame
    BY <1>1, <1>6 DEF ScanFrame, CaptureEntry
  <2> QED  BY <1>1, <1>6, <2>1, CaptureEntryInv, ScanFrameInv
<1> QED  BY <1>1, <1>2, <1>3, <1>4, <1>5, <1>6 DEF ScanStep
-----------------------------------------------------------------------------
LEMMA ListedTyped == Listed \subseteq ManagedFile
  BY DEF Listed

LEMMA GcInitInv == GcInit => GcInv
<1> SUFFICES ASSUME GcInit PROVE GcInv
  OBVIOUS
<1> USE DEF GcInit, ScanInit
<1>1. TreeInv
  <2>1. dirs \subseteq Dir /\ Root \in dirs
    BY AncestorsAreDirectories, ScanAssumption
  <2>2. \A x \in files : Parent[x] \in dirs
    <3> SUFFICES ASSUME NEW x \in files PROVE Parent[x] \in dirs
      OBVIOUS
    <3>1. Parent[x] = Root \/ Parent[x] \in Ancestors(x)
      BY ParentIsAncestor DEF Below
    <3> QED  BY <3>1
  <2>3. \A x \in dirs \ {Root} : Parent[x] \in dirs
    <3> SUFFICES ASSUME NEW x \in dirs \ {Root} PROVE Parent[x] \in dirs
      OBVIOUS
    <3>1. PICK f \in files : x \in Ancestors(f)
      OBVIOUS
    <3>2. Parent[x] \in Ancestors(f) \cup {Root}
      BY <3>1, AncestorsClosed
    <3> QED  BY <3>2
  <2> QED  BY <2>1, <2>2, <2>3 DEF TreeInv
<1>2. Listed = {}
  BY DEF Listed
<1>3. ScanTypeOK
  BY <1>2, ScanAssumption DEF ScanTypeOK
<1>4. CurrentWalk /\ CapturedOnce /\ ListedByOwner /\ NotPassedOver /\ RecentIsUsed
  BY <1>2 DEF CurrentWalk, CapturedOnce, ListedByOwner, NotPassedOver, RecentIsUsed
<1>5. EachPathOnce
  BY DEF EachPathOnce
<1>6. GcTypeOK /\ StillFilesAreListed /\ OnlyCandidates /\ RecentLostOnlyAfterScan /\ Quiet /\ Pruning
  BY DEF GcTypeOK, StillFilesAreListed, OnlyCandidates, RecentLostOnlyAfterScan, Quiet, Pruning
<1> QED  BY <1>1, <1>3, <1>4, <1>5, <1>6 DEF GcInv, ScanInv

\* Steps after the scan, which others may only disturb in the file system.
LEMMA SnapshotKept ==
  ASSUME GcInv, TreeInv', gcPhase' # "scan", UNCHANGED <<recent, scan, scanHistory>>
  PROVE  /\ ScanInv' /\ Listed' = Listed /\ Candidates' = Candidates
         /\ (gcPhase \notin {"scan", "failed"} \/ gcPhase' = "failed") => StillFilesAreListed'
<1> USE DEF GcInv, ScanInv, scan, scanHistory
<1>1. Listed' = Listed
  BY DEF Listed
<1>2. ScanTypeOK'
  BY <1>1 DEF ScanTypeOK
<1>3. CurrentWalk' /\ CapturedOnce' /\ ListedByOwner' /\ EachPathOnce'
  BY DEF CurrentWalk, CapturedOnce, ListedByOwner, EachPathOnce, Owners, Excludes
<1>4. NotPassedOver' /\ RecentIsUsed'
  BY <1>1 DEF NotPassedOver, RecentIsUsed
<1>5. Candidates' = Candidates
  BY <1>1 DEF Candidates
<1>6. (gcPhase \notin {"scan", "failed"} \/ gcPhase' = "failed") => StillFilesAreListed'
  BY DEF StillFilesAreListed, Owners
<1> QED  BY <1>1, <1>2, <1>3, <1>4, <1>5, <1>6

LEMMA RefuseScanInv ==
  ASSUME GcInv, RefuseScan
  PROVE  GcInv'
<1> USE DEF RefuseScan, fileSystem
<1>1. TreeInv'
  BY DEF GcInv, ScanInv, TreeInv
<1>2. ScanInv' /\ StillFilesAreListed' /\ Candidates' = Candidates
  BY <1>1, SnapshotKept
<1>3. GcTypeOK' /\ RecentLostOnlyAfterScan'
  BY DEF GcInv, GcTypeOK, RecentLostOnlyAfterScan, scanHistory
<1>4. OnlyCandidates' /\ Quiet' /\ Pruning'
  BY <1>2 DEF GcInv, OnlyCandidates, Quiet, Pruning, scanHistory
<1> QED  BY <1>2, <1>3, <1>4 DEF GcInv

LEMMA TakeSnapshotInv ==
  ASSUME GcInv, TakeSnapshot
  PROVE  GcInv'
<1>1. /\ gcPhase = "scan" /\ gcPhase' = "collect" /\ deleted = {} /\ toPrune = {}
      /\ pattern = Len(Pattern) /\ roots = {} /\ queue = {} /\ capturing = {}
      /\ old' = {f \in ManagedFile \ Protected : IsOld(f)}
      /\ UNCHANGED <<fileSystem, scan, scanHistory, at, deleted, toPrune, regret>>
  BY DEF TakeSnapshot, ScanEnded, RootWalked, GcInv, GcTypeOK
<1>2. TreeInv'
  BY <1>1 DEF GcInv, ScanInv, TreeInv, fileSystem
<1>3. ScanInv' /\ Listed' = Listed /\ Candidates' = Candidates
  BY <1>1, <1>2, SnapshotKept DEF fileSystem
<1>4. old' = Candidates
  BY <1>1, ListedTyped DEF IsOld, Candidates
<1>5. StillFilesAreListed'
  <2> SUFFICES ASSUME NEW f \in still
               PROVE  /\ Owners(f) = {p \in Partition : listed[p][f] > 0}
                      /\ Cardinality(Owners(f)) <= 1
    BY <1>1 DEF StillFilesAreListed, Owners, scan, scanHistory
  <2>1. f \in ManagedFile
    BY DEF GcInv, ScanInv, ScanTypeOK
  <2>2. ASSUME NEW p \in Owners(f) PROVE p \in Partition /\ listed[p][f] > 0
    <3>1. PICK i \in DOMAIN Pattern :
            /\ Pattern[i].partition = p /\ f \notin Excluded[p]
            /\ Pattern[i].roots \cap (Ancestors(f) \cup {Root}) # {}
      BY <2>2 DEF Owners
    <3>2. i \in 1 .. pattern /\ Covers(i, f)
      BY <1>1, <3>1, ScanAssumption DEF Covers, Excludes
    <3>3. ~Pending(f)
      BY <1>1 DEF Pending
    <3>4. Seen(i, f)
      BY <1>1, <3>2, <3>3 DEF GcInv, ScanInv, NotPassedOver
    <3> QED  BY <2>2, <3>1, <3>4 DEF Seen, Owners
  <2>3. Owners(f) = {p \in Partition : listed[p][f] > 0}
    BY <2>1, <2>2 DEF GcInv, ScanInv, ListedByOwner
  <2>4. \A p, q \in Owners(f) : p = q
    <3> SUFFICES ASSUME NEW p \in Owners(f), NEW q \in Owners(f), p # q PROVE FALSE
      OBVIOUS
    <3>1. p \in Partition /\ q \in Partition /\ listed[p][f] > 0 /\ listed[q][f] > 0
      BY <2>2
    <3>2. listed[p][f] \in Nat /\ listed[q][f] \in Nat
      BY <2>1, <3>1 DEF GcInv, ScanInv, ScanTypeOK
    <3>3. listed[p][f] + listed[q][f] <= 1
      BY <2>1, <3>1 DEF GcInv, ScanInv, EachPathOnce
    <3> QED  BY <3>1, <3>2, <3>3
  <2>5. CASE Owners(f) = {}
    <3>1. Cardinality(Owners(f)) = 0
      BY <2>5, FS_EmptySet
    <3> QED  BY <2>3, <3>1
  <2>6. CASE Owners(f) # {}
    <3>1. PICK p : Owners(f) = {p}
      BY <2>4, <2>6
    <3>2. Cardinality(Owners(f)) = 1
      BY <3>1, FS_Singleton
    <3> QED  BY <2>3, <3>2
  <2> QED  BY <2>5, <2>6
<1>6. GcTypeOK' /\ RecentLostOnlyAfterScan'
  BY <1>1 DEF GcInv, GcTypeOK, RecentLostOnlyAfterScan, scanHistory
<1>7. OnlyCandidates' /\ Pruning'
  BY <1>1, <1>3, <1>4 DEF OnlyCandidates, Pruning
<1>8. Quiet'
  BY <1>1, <1>3, <1>4 DEF GcInv, Quiet, fileSystem, scanHistory
<1> QED  BY <1>3, <1>5, <1>6, <1>7, <1>8 DEF GcInv

LEMMA ConsiderInv ==
  ASSUME GcInv, NEW f \in ManagedFile, Consider(f)
  PROVE  GcInv'
<1>1. /\ gcPhase = "collect" /\ f \in old /\ old' = old \ {f}
      /\ IF f \in files THEN gcPhase' = "delete" /\ at' = f ELSE UNCHANGED <<gcPhase, at>>
      /\ UNCHANGED <<fileSystem, scan, scanHistory, deleted, toPrune, regret>>
  BY DEF Consider
<1>2. TreeInv'
  BY <1>1 DEF GcInv, ScanInv, TreeInv, fileSystem
<1>3. ScanInv' /\ StillFilesAreListed' /\ Candidates' = Candidates
  BY <1>1, <1>2, SnapshotKept DEF fileSystem
<1>4. GcTypeOK' /\ RecentLostOnlyAfterScan'
  BY <1>1 DEF GcInv, GcTypeOK, RecentLostOnlyAfterScan, scanHistory
<1>5. OnlyCandidates' /\ Pruning'
  BY <1>1, <1>3 DEF GcInv, OnlyCandidates, Pruning
<1>6. Quiet'
  <2>1. used' = used /\ still' = still /\ actions' = actions /\ files' = files
    BY <1>1 DEF scanHistory, fileSystem
  <2>2. CASE f \in files
    BY <1>1, <1>3, <2>1, <2>2 DEF GcInv, Quiet
  <2>3. CASE f \notin files
    BY <1>1, <1>3, <2>1, <2>3 DEF GcInv, Quiet
  <2> QED  BY <2>2, <2>3
<1> QED  BY <1>3, <1>4, <1>5, <1>6 DEF GcInv

LEMMA DeleteInv ==
  ASSUME GcInv, Delete
  PROVE  GcInv'
<1>1. /\ gcPhase = "delete" /\ gcPhase' = "collect"
      /\ files' = files \ {at} /\ deleted' = deleted \cup {at}
      /\ regret' = regret \cup ({at} \cap files \cap recent)
      /\ toPrune' = toPrune \cup Ancestors(at)
      /\ UNCHANGED <<recent, dirs, scan, scanHistory, old, at>>
  BY DEF Delete, Emptied
<1>2. TreeInv'
  BY <1>1 DEF GcInv, ScanInv, TreeInv
<1>3. ScanInv' /\ StillFilesAreListed' /\ Candidates' = Candidates
  BY <1>1, <1>2, SnapshotKept
<1>4. GcTypeOK'
  BY <1>1, AncestorsAreDirectories DEF GcInv, GcTypeOK
<1>5. at \in Candidates
  BY <1>1 DEF GcInv, OnlyCandidates
<1>6. RecentLostOnlyAfterScan'
  <2>1. at \in recent => at \in used
    BY <1>5 DEF GcInv, ScanInv, RecentIsUsed, Candidates
  <2> QED  BY <1>1, <2>1 DEF GcInv, RecentLostOnlyAfterScan, scanHistory
<1>7. OnlyCandidates'
  BY <1>1, <1>3, <1>5 DEF GcInv, OnlyCandidates
<1>8. Quiet'
  BY <1>1, <1>3 DEF GcInv, Quiet, scanHistory
<1>9. Pruning'
  <2>1. toPrune = UNION {Ancestors(f) : f \in deleted}
    BY <1>1 DEF GcInv, Pruning
  <2>2. toPrune' = UNION {Ancestors(f) : f \in deleted'}
    BY <1>1, <2>1
  <2> QED  BY <1>1, <2>2 DEF Pruning
<1> QED  BY <1>3, <1>4, <1>6, <1>7, <1>8, <1>9 DEF GcInv

LEMMA CollectedInv ==
  ASSUME GcInv, Collected
  PROVE  GcInv'
<1>1. /\ gcPhase = "collect" /\ old = {} /\ gcPhase' = "prune"
      /\ UNCHANGED <<fileSystem, scan, scanHistory, old, at, deleted, toPrune, regret>>
  BY DEF Collected
<1>2. TreeInv'
  BY <1>1 DEF GcInv, ScanInv, TreeInv, fileSystem
<1>3. ScanInv' /\ StillFilesAreListed' /\ Candidates' = Candidates
  BY <1>1, <1>2, SnapshotKept DEF fileSystem
<1>4. GcTypeOK' /\ RecentLostOnlyAfterScan'
  BY <1>1 DEF GcInv, GcTypeOK, RecentLostOnlyAfterScan, scanHistory
<1>5. OnlyCandidates' /\ Quiet'
  BY <1>1, <1>3 DEF GcInv, OnlyCandidates, Quiet, scanHistory, fileSystem
<1>6. Pruning'
  <2>1. toPrune = UNION {Ancestors(f) : f \in deleted}
    BY <1>1 DEF GcInv, Pruning
  <2>2. \A f \in deleted' : \A d \in Ancestors(f) : d \in toPrune'
    BY <1>1, <2>1
  <2> QED  BY <1>1, <2>2 DEF Pruning
<1> QED  BY <1>3, <1>4, <1>5, <1>6 DEF GcInv

LEMMA PruneInv ==
  ASSUME GcInv, NEW d \in Dir, Prune(d)
  PROVE  GcInv'
<1>1. /\ gcPhase = "prune" /\ d \in toPrune /\ toPrune' = toPrune \ {d}
      /\ \A e \in toPrune : d \notin Ancestors(e)
      /\ dirs' = IF Removable(d) THEN dirs \ {d} ELSE dirs
      /\ UNCHANGED <<files, recent, scan, scanHistory, gcPhase, old, at, deleted, regret>>
  BY DEF Prune, IsNext
<1>2. d \in Below /\ d # Root
  BY <1>1 DEF GcInv, GcTypeOK, Below
<1>3. TreeInv'
  <2>1. CASE Removable(d)
    <3>1. \A x \in files \cup (dirs \ {Root}) : Parent[x] # d
      BY <2>1 DEF Removable, Children
    <3> QED  BY <1>1, <1>2, <2>1, <3>1 DEF GcInv, ScanInv, TreeInv
  <2>2. CASE ~Removable(d)
    BY <1>1, <2>2 DEF GcInv, ScanInv, TreeInv
  <2> QED  BY <2>1, <2>2
<1>4. ScanInv' /\ StillFilesAreListed' /\ Candidates' = Candidates
  BY <1>1, <1>3, SnapshotKept
<1>5. GcTypeOK' /\ RecentLostOnlyAfterScan'
  BY <1>1 DEF GcInv, GcTypeOK, RecentLostOnlyAfterScan, scanHistory
<1>6. OnlyCandidates' /\ Quiet'
  BY <1>1, <1>4 DEF GcInv, OnlyCandidates, Quiet, scanHistory
<1>7. Pruning'
  <2> SUFFICES ASSUME actions = 0, NEW f \in deleted, NEW e \in Ancestors(f)
               PROVE  \/ e \in toPrune'
                      \/ ~Removable(e)' /\ \A c \in toPrune' : e \notin Ancestors(c)
    BY <1>1 DEF Pruning, scanHistory
  <2>1. e \in toPrune \/ (~Removable(e) /\ \A c \in toPrune : e \notin Ancestors(c))
    BY <1>1 DEF GcInv, Pruning
  <2>2. CASE e = d
    <3>1. ~Removable(d)'
      BY <1>1 DEF Removable, Children
    <3> QED  BY <1>1, <2>2, <3>1
  <2>3. CASE e # d /\ e \in toPrune
    BY <1>1, <2>3
  <2>4. CASE e # d /\ e \notin toPrune
    <3>1. e # Root /\ e \notin Ancestors(d)
      BY <1>1, <2>1, <2>4, AncestorsAreDirectories
    <3>2. Parent[d] # e
      BY <1>2, <3>1, ParentIsAncestor
    <3>3. Children(e)' = Children(e) /\ (e \in dirs' <=> e \in dirs)
      BY <1>1, <2>4, <3>2 DEF Children
    <3> QED  BY <1>1, <2>1, <2>4, <3>3 DEF Removable
  <2> QED  BY <2>1, <2>2, <2>3, <2>4
<1> QED  BY <1>4, <1>5, <1>6, <1>7 DEF GcInv

LEMMA FinishInv ==
  ASSUME GcInv, Finish
  PROVE  GcInv'
<1>1. /\ gcPhase = "prune" /\ toPrune = {} /\ gcPhase' = "done"
      /\ UNCHANGED <<fileSystem, scan, scanHistory, old, at, deleted, toPrune, regret>>
  BY DEF Finish
<1>2. TreeInv'
  BY <1>1 DEF GcInv, ScanInv, TreeInv, fileSystem
<1>3. ScanInv' /\ StillFilesAreListed' /\ Candidates' = Candidates
  BY <1>1, <1>2, SnapshotKept DEF fileSystem
<1>4. GcTypeOK' /\ RecentLostOnlyAfterScan'
  BY <1>1 DEF GcInv, GcTypeOK, RecentLostOnlyAfterScan, scanHistory
<1>5. OnlyCandidates' /\ Quiet'
  BY <1>1, <1>3 DEF GcInv, OnlyCandidates, Quiet, scanHistory, fileSystem
<1>6. Pruning'
  BY <1>1 DEF GcInv, Pruning, Removable, Children, fileSystem, scanHistory
<1> QED  BY <1>3, <1>4, <1>5, <1>6 DEF GcInv

\* What others do leaves the tree a tree, takes from the files that nobody
\* touched at least those that went, and counts every listed file they touched.
LEMMA OthersFrame ==
  ASSUME ScanInv, Others
  PROVE  /\ TreeInv' /\ recent' \subseteq ManagedFile /\ recent \subseteq recent'
         /\ still' \subseteq still /\ still' \subseteq ManagedFile
         /\ still \subseteq files => still' \subseteq files'
         /\ used \subseteq used' /\ used' \subseteq ManagedFile
         /\ \A f \in Listed : f \in recent' => f \in recent \/ f \in used'
         /\ actions' = actions + 1 /\ UNCHANGED scan
<1> USE DEF ScanInv, ScanTypeOK
<1>1. actions' = actions + 1 /\ UNCHANGED scan
  BY DEF Others
<1>2. ASSUME NEW f \in ManagedFile, dirs' = dirs \cup Ancestors(f),
             UNCHANGED <<files, recent, still, used>>
      PROVE  TreeInv'
  <2>1. \A d \in Ancestors(f) : Parent[d] \in Ancestors(f) \cup {Root}
    BY AncestorsClosed
  <2>2. Ancestors(f) \subseteq Dir
    BY AncestorsAreDirectories
  <2> QED  BY <1>2, <2>1, <2>2 DEF TreeInv
<1>3. ASSUME NEW f \in ManagedFile, Parent[f] \in dirs, files' = files \cup {f},
             recent' = recent \cup {f}, UNCHANGED dirs
      PROVE  TreeInv'
  BY <1>3 DEF TreeInv
<1>4. ASSUME NEW f \in ManagedFile, files' = files \ {f}, UNCHANGED <<recent, dirs>>
      PROVE  TreeInv'
  BY <1>4 DEF TreeInv
<1>5. ASSUME NEW d \in dirs \ {Root}, Children(d) = {}, dirs' = dirs \ {d},
             UNCHANGED <<files, recent>>
      PROVE  TreeInv'
  BY <1>5 DEF TreeInv, Children
<1>6. TreeInv'
  BY <1>2, <1>3, <1>4, <1>5 DEF Others
<1>7. /\ recent \subseteq recent' /\ still' \subseteq still
      /\ still \subseteq files => still' \subseteq files'
      /\ used \subseteq used' /\ used' \subseteq ManagedFile
      /\ \A f \in Listed : f \in recent' => f \in recent \/ f \in used'
  BY DEF Others
<1> QED  BY <1>1, <1>6, <1>7 DEF TreeInv

LEMMA OthersWriteInv ==
  ASSUME GcInv, OthersWrite
  PROVE  GcInv'
<1>1. ScanInv /\ Others /\ UNCHANGED gc
  BY DEF GcInv, OthersWrite
<1>2. UNCHANGED <<scan, gcPhase, old, at, deleted, toPrune, regret>>
  BY <1>1 DEF Others, gc
<1>3. Listed' = Listed /\ Candidates' = Candidates
  BY <1>2 DEF scan, Listed, Candidates
<1>4. actions \in Nat /\ actions' = actions + 1
  BY <1>1, OthersFrame DEF ScanInv, ScanTypeOK
<1>5. ScanTypeOK' /\ TreeInv'
  BY <1>1, <1>2, <1>3, <1>4, OthersFrame DEF ScanInv, ScanTypeOK, scan
<1>6. CurrentWalk' /\ CapturedOnce' /\ ListedByOwner' /\ EachPathOnce'
  BY <1>1, <1>2 DEF ScanInv, CurrentWalk, CapturedOnce, ListedByOwner, EachPathOnce, Owners,
                    Excludes, scan
<1>7. NotPassedOver'
  <2> SUFFICES ASSUME gcPhase = "scan"
               PROVE  /\ still' \subseteq files'
                      /\ \A f \in still', i \in 1 .. pattern :
                           Covers(i, f) => Seen(i, f) \/ (i = pattern /\ Pending(f))
    BY <1>2 DEF NotPassedOver, Covers, Seen, Pending, Excludes, scan
  <2>1. /\ still \subseteq files
        /\ \A f \in still, i \in 1 .. pattern :
             Covers(i, f) => Seen(i, f) \/ (i = pattern /\ Pending(f))
    BY <1>1 DEF ScanInv, NotPassedOver
  <2> QED  BY <1>1, <2>1, OthersFrame
<1>8. RecentIsUsed'
  BY <1>1, <1>2, <1>3, OthersFrame DEF ScanInv, RecentIsUsed, scan
<1>9. StillFilesAreListed'
  <2>1. still' \subseteq still
    BY <1>1, OthersFrame
  <2> QED  BY <1>2, <2>1 DEF GcInv, StillFilesAreListed, Owners, scan
<1>10. RecentLostOnlyAfterScan' /\ OnlyCandidates' /\ GcTypeOK'
  BY <1>1, <1>2, <1>3, OthersFrame DEF GcInv, RecentLostOnlyAfterScan, OnlyCandidates, GcTypeOK
<1>11. Quiet' /\ Pruning'
  BY <1>2, <1>4 DEF GcInv, Quiet, Pruning
<1> QED  BY <1>5, <1>6, <1>7, <1>8, <1>9, <1>10, <1>11 DEF GcInv, ScanInv
-----------------------------------------------------------------------------
\* The inductive invariant of collectTimestampCacheGarbage and of the scan it
\* starts with holds in every run, for every tree, set of patterns and partitions.
THEOREM SpecGcInv == GcSpec => []GcInv
<1>1. GcInit => GcInv
  BY GcInitInv
<1>2. GcInv /\ [GcNext]_gcVars => GcInv'
  <2> SUFFICES ASSUME GcInv, [GcNext]_gcVars PROVE GcInv'
    OBVIOUS
  <2>1. CASE Scan
    BY <2>1, ScanGcInv
  <2>2. CASE RefuseScan
    BY <2>2, RefuseScanInv
  <2>3. CASE TakeSnapshot
    BY <2>3, TakeSnapshotInv
  <2>4. ASSUME NEW f \in ManagedFile, Consider(f) PROVE GcInv'
    BY <2>4, ConsiderInv
  <2>5. CASE Delete
    BY <2>5, DeleteInv
  <2>6. CASE Collected
    BY <2>6, CollectedInv
  <2>7. ASSUME NEW d \in Dir, Prune(d) PROVE GcInv'
    BY <2>7, PruneInv
  <2>8. CASE Finish
    BY <2>8, FinishInv
  <2>9. CASE OthersWrite
    BY <2>9, OthersWriteInv
  <2>10. CASE UNCHANGED gcVars
    <3>1. UNCHANGED <<fileSystem, scan, scanHistory, gc>>
      BY <2>10 DEF gcVars
    <3> USE <3>1 DEF fileSystem, scan, scanHistory, gc
    <3>2. Listed' = Listed /\ Candidates' = Candidates
      BY DEF Listed, Candidates
    <3>3. TreeInv' /\ ScanTypeOK' /\ CurrentWalk' /\ CapturedOnce' /\ ListedByOwner' /\ EachPathOnce'
      BY <3>2 DEF GcInv, ScanInv, TreeInv, ScanTypeOK, CurrentWalk, CapturedOnce, ListedByOwner,
                  EachPathOnce, Owners, Excludes
    <3>4. NotPassedOver'
      BY DEF GcInv, ScanInv, NotPassedOver, Covers, Pending, Seen, Excludes
    <3>5. RecentIsUsed' /\ OnlyCandidates'
      BY <3>2 DEF GcInv, ScanInv, RecentIsUsed, OnlyCandidates
    <3>6. GcTypeOK' /\ RecentLostOnlyAfterScan' /\ StillFilesAreListed'
      BY DEF GcInv, GcTypeOK, RecentLostOnlyAfterScan, StillFilesAreListed, Owners
    <3>7. Quiet' /\ Pruning'
      BY <3>2 DEF GcInv, Quiet, Pruning, Removable, Children
    <3> QED  BY <3>3, <3>4, <3>5, <3>6, <3>7 DEF GcInv, ScanInv
  <2> QED  BY <2>1, <2>2, <2>3, <2>4, <2>5, <2>6, <2>7, <2>8, <2>9, <2>10 DEF GcNext
<1> QED  BY <1>1, <1>2, PTL DEF GcSpec

\* No path is in two entries of a scan, of one partition or of two: overlapping
\* patterns, nested roots and concurrent changes list no file twice.
THEOREM SpecEachPathOnce == GcSpec => []EachPathOnce
<1>1. GcInv => EachPathOnce
  BY DEF GcInv, ScanInv
<1> QED  BY <1>1, SpecGcInv, PTL

\* The snapshot misses no file that was there all the time and that a
\* partition covers, and a file that two cover lets no snapshot be taken.
THEOREM SpecStillFilesAreListed == GcSpec => []StillFilesAreListed
<1>1. GcInv => StillFilesAreListed
  BY DEF GcInv
<1> QED  BY <1>1, SpecGcInv, PTL

\* Garbage collection deletes a recent file only when others used it between
\* the scan and the deletion: the snapshot's timestamps are not read again.
THEOREM SpecRecentLostOnlyAfterScan == GcSpec => []RecentLostOnlyAfterScan
<1>1. GcInv => RecentLostOnlyAfterScan
  BY DEF GcInv
<1> QED  BY <1>1, SpecGcInv, PTL

\* With nobody else in the cache, garbage collection leaves the recent, the
\* protected and the unmanaged files, no others, and no directory it emptied:
\* "deepest first" removes chains of directories of every length.
THEOREM SpecQuietGcIsComplete == GcSpec => []QuietGcIsComplete
<1>1. GcInv => QuietGcIsComplete
  <2> SUFFICES ASSUME GcInv, gcPhase = "done", actions = 0
               PROVE  /\ \A f \in files \ (recent \cup Protected) : Owners(f) = {}
                      /\ \A f \in deleted : f \notin recent \cup Protected /\ Owners(f) # {}
                      /\ \A f \in deleted : \A d \in Ancestors(f) : d \in dirs => Children(d) # {}
    BY DEF QuietGcIsComplete
  <2>1. /\ used = {} /\ still = files \cup deleted /\ old = {}
        /\ deleted \subseteq Candidates /\ \A f \in Candidates : f \notin files
    BY DEF GcInv, GcTypeOK, Quiet, OnlyCandidates
  <2>2. \A f \in Listed \ fresh : f \notin recent
    BY <2>1 DEF GcInv, ScanInv, RecentIsUsed
  <2>3. \A f \in still : Owners(f) # {} => f \in Listed
    BY DEF GcInv, ScanInv, ScanTypeOK, StillFilesAreListed, Listed
  <2>4. fresh \subseteq recent
    BY DEF GcInv, ScanInv, ScanTypeOK
  <2>5. ASSUME NEW f \in files \ (recent \cup Protected) PROVE Owners(f) = {}
    BY <2>1, <2>3, <2>4 DEF Candidates
  <2>6. ASSUME NEW f \in deleted PROVE f \notin recent \cup Protected /\ Owners(f) # {}
    <3>1. f \in Listed /\ f \notin fresh /\ f \notin Protected
      BY <2>1 DEF Candidates
    <3>2. PICK p \in Partition : listed[p][f] > 0 /\ f \in ManagedFile
      BY <3>1 DEF Listed
    <3>3. p \in Owners(f)
      BY <3>2 DEF GcInv, ScanInv, ListedByOwner
    <3> QED  BY <2>2, <3>1, <3>3
  <2>7. ASSUME NEW f \in deleted, NEW d \in Ancestors(f), d \in dirs PROVE Children(d) # {}
    <3>1. ~Removable(d)
      BY DEF GcInv, GcTypeOK, Pruning
    <3> QED  BY <2>7, <3>1 DEF Removable
  <2> QED  BY <2>5, <2>6, <2>7
<1> QED  BY <1>1, SpecGcInv, PTL

\* Whatever others do meanwhile, garbage collection deletes no protected file and
\* none that the patterns of the managed partitions do not cover.
DeletesOnlyManaged == \A f \in deleted : f \notin Protected /\ Owners(f) # {}

\* No protected and no unmanaged file is ever deleted: protectedRelativePaths of
\* collectTimestampCacheGarbage holds in a cache that is not quiet, too.
THEOREM SpecDeletesOnlyManaged == GcSpec => []DeletesOnlyManaged
<1>1. GcInv => DeletesOnlyManaged
  <2> SUFFICES ASSUME GcInv, NEW f \in deleted PROVE f \notin Protected /\ Owners(f) # {}
    BY DEF DeletesOnlyManaged
  <2>1. f \in Listed /\ f \notin Protected
    BY DEF GcInv, OnlyCandidates, Candidates
  <2>2. PICK p \in Partition : listed[p][f] > 0 /\ f \in ManagedFile
    BY <2>1 DEF Listed
  <2> QED  BY <2>1, <2>2 DEF GcInv, ScanInv, ListedByOwner
<1> QED  BY <1>1, SpecGcInv, PTL
-----------------------------------------------------------------------------
\* The items of a walk lie side by side: none is another's ancestor, and none is
\* queued and being captured at once.
Active == queue \cup capturing
SideBySide ==
  /\ queue \cap capturing = {}
  /\ \A a, b \in Active : a # b => ~Reaches(a[2], b[2])

\* Children of one directory lie side by side.
LEMMA SiblingsApart ==
  ASSUME NEW x \in Below, NEW y \in Below, x # y, Parent[x] = Parent[y]
  PROVE  ~Reaches(x, y)
<1> SUFFICES ASSUME Reaches(x, y) PROVE FALSE
  OBVIOUS
<1> DEFINE d == Parent[x]
<1>1. x \in Ancestors(y) /\ x # Root
  BY ScanAssumption DEF Reaches, Below
<1>2. d # Root /\ (x = d \/ x \in Ancestors(d))
  BY <1>1, AncestorsUnfold
<1>3. d \in Ancestors(x)
  BY <1>2, ParentIsAncestor
<1>4. x \in Ancestors(x)
  BY <1>2, <1>3, AncestorsClosed
<1> QED  BY <1>4, NotOwnAncestor

\* What reaches a child is the child or reaches its directory.
LEMMA ReachesUp ==
  ASSUME NEW x \in Below, NEW r, Reaches(r, x)
  PROVE  r = x \/ Reaches(r, Parent[x])
  BY AncestorsUnfold DEF Reaches

\* What is below a child is below its directory.
LEMMA ReachesDown ==
  ASSUME NEW x \in Below, NEW y \in Below, Reaches(x, y)
  PROVE  Reaches(Parent[x], y)
<1>1. x # Root /\ y # Root
  BY ScanAssumption DEF Below
<1>2. CASE Parent[x] = Root
  BY <1>2 DEF Reaches
<1>3. CASE Parent[x] # Root
  <2>1. Parent[x] \in Ancestors(x)
    BY <1>3, ParentIsAncestor
  <2> QED  BY <1>1, <2>1, AncestorsClosed DEF Reaches
<1> QED  BY <1>2, <1>3

LEMMA InspectSideBySide ==
  ASSUME GcInv, SideBySide, NEW i \in 1 .. Len(Pattern), NEW d \in Dir, Inspect(i, d)
  PROVE  SideBySide'
<1> DEFINE entries == IF d \in dirs THEN Children(d) ELSE {}
           item == <<i, d>>
<1>1. /\ item \in queue /\ queue' = (queue \ {item}) \cup {<<i, x>> : x \in entries}
      /\ capturing' = capturing
  BY DEF Inspect
<1>2. \A x \in entries : x \in Below /\ Parent[x] = d
  BY DEF Children, GcInv, ScanInv, TreeInv, Below
<1> HIDE DEF entries
<1>3. \A a \in Active \ {item} : ~Reaches(d, a[2]) /\ ~Reaches(a[2], d)
  <2> SUFFICES ASSUME NEW a \in Active \ {item} PROVE ~Reaches(item[2], a[2]) /\ ~Reaches(a[2], item[2])
    OBVIOUS
  <2>1. item \in Active /\ a \in Active /\ a # item
    BY <1>1 DEF Active
  <2> QED  BY <2>1 DEF SideBySide
<1>4. item \notin capturing
  BY <1>1 DEF SideBySide
<1>5. \A a \in Active \ {item} : a[2] = Root \/ a[2] \in Below
  BY DEF Active, GcInv, ScanInv, ScanTypeOK, Below
<1>6. ASSUME NEW x \in entries, NEW a \in Active \ {item}
      PROVE  ~Reaches(x, a[2]) /\ ~Reaches(a[2], x)
  <2>1. x \in Below /\ Parent[x] = d
    BY <1>2
  <2>2. a[2] # Root
    BY <1>3 DEF Reaches
  <2>3. ~Reaches(x, a[2])
    BY <1>3, <1>5, <2>1, <2>2, ReachesDown
  <2>4. Reaches(x, x)
    BY DEF Reaches
  <2> QED  BY <1>3, <2>1, <2>3, <2>4, ReachesUp
<1>7. ASSUME NEW x \in entries, NEW y \in entries, x # y PROVE ~Reaches(x, y)
  BY <1>2, <1>7, SiblingsApart
<1>8. \A x \in entries : <<i, x>> \notin Active \ {item}
  <2> SUFFICES ASSUME NEW x \in entries, <<i, x>> \in Active \ {item} PROVE FALSE
    OBVIOUS
  <2>1. ~Reaches(x, <<i, x>>[2])
    BY <1>6
  <2> QED  BY <2>1 DEF Reaches
<1>9. Active' = (Active \ {item}) \cup {<<i, x>> : x \in entries}
  BY <1>1, <1>4 DEF Active
<1>10. queue' \cap capturing' = {}
  <2> SUFFICES ASSUME NEW a \in queue', a \in capturing PROVE FALSE
    BY <1>1
  <2>1. a \notin queue /\ a \in Active \ {item}
    BY <1>4 DEF SideBySide, Active
  <2>2. PICK x \in entries : a = <<i, x>>
    BY <1>1, <2>1
  <2> QED  BY <1>8, <2>1, <2>2
<1>11. ASSUME NEW a \in Active', NEW b \in Active', a # b PROVE ~Reaches(a[2], b[2])
  <2>1. CASE a \in Active \ {item} /\ b \in Active \ {item}
    BY <1>11, <2>1 DEF SideBySide
  <2>2. CASE a \in Active \ {item} /\ b \notin Active \ {item}
    <3>1. PICK y \in entries : b = <<i, y>>
      BY <1>9, <2>2
    <3> QED  BY <1>6, <2>2, <3>1
  <2>3. CASE a \notin Active \ {item} /\ b \in Active \ {item}
    <3>1. PICK x \in entries : a = <<i, x>>
      BY <1>9, <2>3
    <3> QED  BY <1>6, <2>3, <3>1
  <2>4. CASE a \notin Active \ {item} /\ b \notin Active \ {item}
    <3>1. PICK x \in entries : a = <<i, x>>
      BY <1>9, <2>4
    <3>2. PICK y \in entries : b = <<i, y>>
      BY <1>9, <2>4
    <3> QED  BY <1>7, <1>11, <3>1, <3>2
  <2> QED  BY <2>1, <2>2, <2>3, <2>4
<1> QED  BY <1>10, <1>11 DEF SideBySide

\* In one walk nothing is queued that is still queued or being captured, or that
\* lies above or below it, so that a set stands for the list of work items of
\* walkIncludedTree.
THEOREM SpecSideBySide == GcSpec => []SideBySide
<1>1. GcInit => SideBySide
  BY DEF GcInit, ScanInit, SideBySide, Active
<1>2. GcInv /\ SideBySide /\ [GcNext]_gcVars => SideBySide'
  <2> SUFFICES ASSUME GcInv, SideBySide, [GcNext]_gcVars PROVE SideBySide'
    OBVIOUS
  <2>1. CASE UNCHANGED <<queue, capturing>>
    BY <2>1 DEF SideBySide, Active
  <2>2. ASSUME NEW r \in Dir, WalkRoot(r) PROVE SideBySide'
    <3>1. queue' = {<<pattern, r>>} /\ capturing' = {}
      BY <2>2 DEF WalkRoot, RootWalked
    <3> QED  BY <3>1 DEF SideBySide, Active
  <2>3. ASSUME NEW i \in 1 .. Len(Pattern), NEW d \in Dir, Inspect(i, d) PROVE SideBySide'
    BY <2>3, InspectSideBySide
  <2>4. ASSUME NEW i \in 1 .. Len(Pattern), NEW f \in ManagedFile, Visit(i, f) PROVE SideBySide'
    <3>1. /\ <<i, f>> \in queue /\ queue' = queue \ {<<i, f>>}
          /\ capturing' \subseteq capturing \cup {<<i, f>>}
      BY <2>4 DEF Visit
    <3>2. Active' \subseteq Active /\ queue' \cap capturing' = {}
      BY <3>1 DEF Active, SideBySide
    <3> QED  BY <3>2 DEF SideBySide
  <2>5. ASSUME NEW i \in 1 .. Len(Pattern), NEW f \in ManagedFile, CaptureEntry(i, f)
        PROVE  SideBySide'
    <3>1. Active' \subseteq Active /\ queue' \cap capturing' = {}
      BY <2>5 DEF CaptureEntry, Active, SideBySide
    <3> QED  BY <3>1 DEF SideBySide
  <2>6. CASE Scan
    <3>1. CASE ExpandPattern
      BY <2>1, <3>1 DEF ExpandPattern
    <3> QED  BY <2>2, <2>3, <2>4, <2>5, <2>6, <3>1 DEF Scan, ScanStep
  <2>7. CASE ~Scan
    <3>1. UNCHANGED scan
      BY <2>7 DEF GcNext, gcVars, RefuseScan, TakeSnapshot, Consider, Delete, Collected, Prune,
                  Finish, OthersWrite, Others
    <3> QED  BY <2>1, <3>1 DEF scan
  <2> QED  BY <2>6, <2>7
<1> QED  BY <1>1, <1>2, SpecGcInv, PTL DEF GcSpec
=============================================================================
