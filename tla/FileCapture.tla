---------------------------- MODULE FileCapture ----------------------------
(***************************************************************************)
(* One cache file of a worker, from the manifest to the delta package,     *)
(* while a build-tool daemon may still write to it: captureStableFileEntry *)
(* (src/src/cache/manifest.ts) with hashStableFileSha256 (util/fs.ts), and *)
(* copyAndVerifySourceFile (src/src/delta/service.ts).                     *)
(*                                                                         *)
(* The file is read in two parts, so that a read can be torn.  A digest    *)
(* stands for the bytes it was computed from.  Every change of the file    *)
(* sets its change time to the clock, which may stand still between two    *)
(* changes, as the clocks of file systems do; the inode may be reused.     *)
(* Size, mode and access time, links and errors of the file system are     *)
(* left out.                                                               *)
(***************************************************************************)
EXTENDS Integers

CONSTANTS
  Byte,
  Attempts,     \* STABLE_ENTRY_CAPTURE_ATTEMPTS, 3 in the code
  Absent,       \* no file, no bytes
  MaxClock,     \* bound: ticks of the clock
  MaxWrites     \* bound: changes the daemon makes

Part == {1, 2}
Bytes == [Part -> Byte]
Tick == 0 .. MaxClock

ASSUME CaptureAssumption ==
  /\ Attempts \in Nat \ {0} /\ MaxClock \in Nat /\ MaxWrites \in Nat
  /\ Absent \notin [bytes : Bytes, mtime : Tick, ctime : Tick]
  /\ Absent \notin [bytes : Bytes, mtime : Tick] /\ Absent \notin Bytes

File == [bytes : Bytes, mtime : Tick, ctime : Tick]
Entry == [bytes : Bytes, mtime : Tick]

VARIABLES
  file,      \* what is at the path: a File or Absent
  clock,
  pc,        \* where capture or staging is
  attempt,   \* attempts of the capture so far
  before,    \* lstat before reading
  handle,    \* bytes of an opened file that is no longer at the path
  read,      \* bytes read so far, by part
  entry,     \* captured manifest entry, Absent for a missing file
  payload,   \* staged copy
  was,       \* history: what was at the path since the lstat before reading
  raced,     \* history: a change since then within the tick of before.ctime
  writes     \* history: changes the daemon made

reading == <<before, handle, read>>
results == <<entry, payload>>
history == <<was, raced, writes>>
vars == <<file, clock, pc, attempt, reading, results, history>>

EntryOf(f) == IF f = Absent THEN Absent ELSE [bytes |-> f.bytes, mtime |-> f.mtime]
Stat(f) == <<f.mtime, f.ctime>>

Init ==
  /\ clock = 0
  /\ file \in {Absent} \cup {f \in File : f.bytes[1] = f.bytes[2] /\ f.ctime = 0}
  /\ pc = "capture" /\ attempt = 0
  /\ before = Absent /\ handle = Absent /\ read = [k \in {} |-> Absent]
  /\ entry = Absent /\ payload = Absent
  /\ was = {EntryOf(file)} /\ raced = FALSE /\ writes = 0

-----------------------------------------------------------------------------
\* lstat, and what it starts: a new window in which the file is read.
LookBefore ==
  /\ before' = file /\ handle' = Absent /\ read' = [k \in {} |-> Absent]
  /\ was' = {EntryOf(file)} /\ raced' = FALSE
  /\ UNCHANGED <<file, clock, writes>>

MoreAttempts == attempt < Attempts

StartAttempt ==
  /\ pc = "capture" /\ MoreAttempts
  /\ LookBefore
  /\ attempt' = attempt + 1
  /\ pc' = IF file = Absent THEN "captured" ELSE "open"
  /\ UNCHANGED results

\* No attempt gave a stable snapshot.
GiveUp ==
  /\ pc = "capture" /\ ~MoreAttempts
  /\ pc' = "failed"
  /\ UNCHANGED <<file, clock, attempt, reading, results, history>>

\* isSameOpenedFile of the descriptor.
SameFile == file # Absent /\ Stat(file) = Stat(before)

\* open and stat of the descriptor; null, or a missing file, is looked at
\* again before the next attempt.
Open ==
  /\ pc = "open"
  /\ pc' = IF SameFile THEN "read" ELSE "recheck"
  /\ UNCHANGED <<file, clock, attempt, reading, results, history>>

Recheck ==
  /\ pc = "recheck"
  /\ pc' = IF file = Absent THEN "captured" ELSE "capture"
  /\ UNCHANGED <<file, clock, attempt, reading, results, history>>

ReadComplete == DOMAIN read = Part

\* The stream reads the file that was opened, wherever that is by now.
ReadPart(k) ==
  /\ pc \in {"read", "copy"} /\ k \notin DOMAIN read
  /\ \A j \in Part : j < k => j \in DOMAIN read
  /\ LET source == IF handle # Absent THEN handle ELSE file.bytes
     IN read' = [j \in DOMAIN read \cup {k} |-> IF j = k THEN source[k] ELSE read[j]]
  /\ UNCHANGED <<file, clock, pc, attempt, before, handle, results, history>>

\* Mutant of Stable: the size is compared only.
MutStable == TRUE

\* isStableDuringCapture
Stable == Stat(file) = Stat(before)

LookAfter ==
  /\ pc = "read" /\ ReadComplete
  /\ pc' = IF file = Absent \/ Stable THEN "captured" ELSE "capture"
  /\ entry' = IF file # Absent /\ Stable THEN [bytes |-> read, mtime |-> file.mtime] ELSE Absent
  /\ UNCHANGED <<file, clock, attempt, reading, payload, history>>

-----------------------------------------------------------------------------
\* assertStatMatchesSnapshot
MatchesEntry == file # Absent /\ file.mtime = entry.mtime

\* The file goes into the delta, as added or modified.
StartStaging ==
  /\ pc = "captured" /\ entry # Absent
  /\ LookBefore
  /\ pc' = IF MatchesEntry THEN "opencopy" ELSE "failed"
  /\ UNCHANGED <<attempt, results>>

OpenCopy ==
  /\ pc = "opencopy"
  /\ pc' = IF file = Absent THEN "failed" ELSE "copy"
  /\ UNCHANGED <<file, clock, attempt, reading, results, history>>

\* Mutant of CopyIsEntry: only the second look at the file decides.
MutCopyIsEntry == TRUE
CopyIsEntry == read = entry.bytes

FinishCopy ==
  /\ pc = "copy" /\ ReadComplete
  /\ IF file # Absent /\ CopyIsEntry /\ Stable
     THEN pc' = "staged" /\ payload' = read
     ELSE pc' = "failed" /\ UNCHANGED payload
  /\ UNCHANGED <<file, clock, attempt, reading, entry, history>>

-----------------------------------------------------------------------------
Ended == pc \in {"staged", "failed"} \/ (pc = "captured" /\ entry = Absent)

\* What the path holds changes, and the change time is the clock's.
Change(new) ==
  /\ ~Ended /\ writes < MaxWrites /\ writes' = writes + 1
  /\ file' = new
  /\ was' = was \cup {EntryOf(new)}
  /\ raced' = (raced \/ (before # Absent /\ clock = before.ctime))
  /\ UNCHANGED <<clock, pc, attempt, before, read, results>>

WriteInPlace ==
  /\ file # Absent
  /\ \E k \in Part, b \in Byte :
       Change([bytes |-> [file.bytes EXCEPT ![k] = b], mtime |-> clock, ctime |-> clock])
  /\ UNCHANGED handle

SetTime ==
  /\ file # Absent
  /\ \E t \in 0 .. clock : Change([file EXCEPT !.mtime = t, !.ctime = clock])
  /\ UNCHANGED handle

\* The file is replaced by another one, or removed; a descriptor that is open
\* keeps the file it was opened on.
Replace ==
  /\ \/ Change(Absent)
     \/ \E b \in Byte, t \in 0 .. clock :
          Change([bytes |-> [k \in Part |-> b], mtime |-> t, ctime |-> clock])
  /\ handle' = IF pc \in {"read", "copy"} /\ handle = Absent /\ file # Absent
               THEN file.bytes ELSE handle

TimePasses ==
  /\ ~Ended /\ clock < MaxClock /\ clock' = clock + 1
  /\ UNCHANGED <<file, pc, attempt, reading, results, history>>

Next ==
  \/ StartAttempt \/ GiveUp \/ Open \/ Recheck \/ LookAfter
  \/ \E k \in Part : ReadPart(k)
  \/ StartStaging \/ OpenCopy \/ FinishCopy
  \/ WriteInPlace \/ SetTime \/ Replace \/ TimePasses

Spec == Init /\ [][Next]_vars
-----------------------------------------------------------------------------
\* Types: the capture ends after the attempts the code allows.
TypeOK ==
  /\ file \in File \cup {Absent} /\ before \in File \cup {Absent}
  /\ clock \in Tick /\ attempt \in 0 .. Attempts /\ writes \in 0 .. MaxWrites
  /\ pc \in {"capture", "open", "read", "recheck", "captured", "opencopy", "copy",
             "staged", "failed"}
  /\ handle \in Bytes \cup {Absent} /\ DOMAIN read \subseteq Part /\ read \in [DOMAIN read -> Byte]
  /\ entry \in Entry \cup {Absent} /\ payload \in Bytes \cup {Absent}
  /\ was \subseteq Entry \cup {Absent} /\ raced \in BOOLEAN

\* A manifest entry is what was at the path at one moment of the capture, be
\* it nothing, and never a mixture of two contents, of the bytes of one file
\* and the time of another, unless a change came within the tick of the
\* change before it.
EntryWasReal == pc = "captured" => entry \in was \/ raced

\* What goes into the package is what the entry says, and what was at the
\* path at one moment while it was copied, under the same proviso.
PayloadWasReal ==
  pc = "staged" => payload = entry.bytes /\ (entry \in was \/ raced)
=============================================================================
