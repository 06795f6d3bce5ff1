----------------------------- MODULE DeltaApply -----------------------------
(***************************************************************************)
(* applyMergedDeltaPlan (src/src/delta/apply-execution.ts): a merged plan  *)
(* is applied to a cache root that a build-tool daemon may be writing to.  *)
(* Every target is inspected before any is changed; each is looked at once *)
(* more and then replaced through a temporary file, and its times are      *)
(* restored.  Every step may fail, and the plan may be applied again to    *)
(* the same root.                                                          *)
(*                                                                         *)
(* content stands for digest, size and mode.  A modification time counts   *)
(* half milliseconds: the file system and the manifest keep fractions of a *)
(* millisecond, new Date(mtimeMs) does not.  Targets are regular files in  *)
(* existing directories; whether a file was written by somebody else since *)
(* it was inspected is what the comparison of its identity (inode, size,   *)
(* change time) tells.                                                     *)
(***************************************************************************)
EXTENDS Integers, FiniteSets

CONSTANTS
  Path, Content,
  Now,          \* modification time of a file written during this run
  Absent,       \* the state of a path that does not exist
  Plans,        \* the merged plans considered
  MaxForeign,   \* bound: writes of other processes
  MaxRuns       \* bound: applications of the plan to the root

Time == 0 .. Now
Snapshot == [content : Content, mtime : Time]
State == Snapshot \cup {Absent}

\* One path of the plan: desired = Absent is a deletion.
PlanEntry == [accepted : SUBSET State, desired : State]

ASSUME ApplyAssumption ==
  /\ Now \in Nat /\ MaxForeign \in Nat /\ MaxRuns \in Nat /\ Absent \notin Snapshot
  /\ Plans \subseteq [Path -> PlanEntry]

VARIABLES
  plan,
  target,     \* the state of every path in the cache root
  pc,         \* "ready", "stage", "replace", "restage", "times", or how it ended
  at,         \* the path being mutated
  pending,    \* paths not yet inspected
  todo,       \* paths whose operation is mutate, not yet mutated
  changed,    \* paths others wrote to since they were inspected
  late,       \* history: the part of changed written after the second look
  lost,       \* history: paths where a write of others was overwritten
  written,    \* history: paths this run of apply changed
  foreign,    \* history: number of writes of others
  run,        \* number of the application
  applied     \* history: the application before this one was done

progress == <<pending, todo, at>>
history == <<changed, late, lost, written, foreign, run, applied>>
vars == <<plan, target, pc, progress, history>>

Ended == pc \in {"done", "rejected", "failed"}

Start ==
  /\ pc' = "ready" /\ pending' = Path /\ todo' = {}
  /\ changed' = {} /\ late' = {} /\ lost' = {} /\ written' = {}

Init ==
  /\ plan \in Plans /\ target \in [Path -> State] /\ at \in Path
  /\ pc = "ready" /\ pending = Path /\ todo = {}
  /\ changed = {} /\ late = {} /\ lost = {} /\ written = {}
  /\ foreign = 0 /\ run = 1 /\ applied = FALSE

-----------------------------------------------------------------------------
\* validateDeltaPreconditions: already applied, or in an accepted state.
AlreadyApplied(p) == target[p] = plan[p].desired
Permitted(p) == target[p] \in plan[p].accepted

Inspect(p) ==
  /\ pc = "ready" /\ p \in pending
  /\ AlreadyApplied(p) \/ Permitted(p)
  /\ pending' = pending \ {p}
  /\ todo' = IF AlreadyApplied(p) THEN todo ELSE todo \cup {p}
  /\ UNCHANGED <<plan, target, pc, at, history>>

Reject(p) ==
  /\ pc = "ready" /\ p \in pending
  /\ ~AlreadyApplied(p) /\ ~Permitted(p)
  /\ pc' = "rejected"
  /\ UNCHANGED <<plan, target, progress, history>>

\* Mutants of AllInspected and LooksUnchanged: targets are changed as they
\* are inspected, the second look is left out.
MutInspectAsWeGo == TRUE
MutNoSecondLook(p) == TRUE

AllInspected == pending = {}

\* assertTargetUnchanged
LooksUnchanged(p) == p \notin changed

\* The second look at a target that is to be mutated.
LookAgain(p) ==
  /\ pc = "ready" /\ AllInspected /\ p \in todo
  /\ LooksUnchanged(p)
  /\ at' = p /\ todo' = todo \ {p}
  /\ pc' = "stage"
  /\ UNCHANGED <<plan, target, pending, history>>

NoticeChange(p) ==
  /\ pc = "ready" /\ AllInspected /\ p \in todo
  /\ ~LooksUnchanged(p)
  /\ pc' = "failed"
  /\ UNCHANGED <<plan, target, progress, history>>

\* What others had written to the path is gone, unless it was the same.
Overwrite(state) ==
  /\ target' = [target EXCEPT ![at] = state]
  /\ lost' = IF target[at] # state THEN lost \cup ({at} \cap changed) ELSE lost
  /\ changed' = changed \ {at}
  /\ written' = written \cup {at}
  /\ UNCHANGED <<late, foreign, run, applied>>

\* deleteTargetPath
DeleteTarget ==
  /\ pc = "stage" /\ plan[at].desired = Absent
  /\ Overwrite(Absent)
  /\ pc' = "ready"
  /\ UNCHANGED <<plan, progress>>

\* copyAndVerifyPayload and chmod on the temporary file.
StagePayload ==
  /\ pc = "stage" /\ plan[at].desired # Absent
  /\ pc' = "replace"
  /\ UNCHANGED <<plan, target, progress, history>>

Payload == [content |-> plan[at].desired.content, mtime |-> Now]

\* rename over the target, or, where the platform refuses to replace a file,
\* remove it and rename again.
ReplaceTarget ==
  /\ pc \in {"replace", "restage"}
  /\ Overwrite(Payload)
  /\ pc' = "times"
  /\ UNCHANGED <<plan, progress>>

RemoveTarget ==
  /\ pc = "replace"
  /\ Overwrite(Absent)
  /\ pc' = "restage"
  /\ UNCHANGED <<plan, progress>>

\* Mutant of Restored: the time of the temporary file is kept.
MutTimesKept(time) == Now

\* new Date(mtimeMs) keeps whole milliseconds.
Restored(time) == 2 * (time \div 2)

\* restoreFileTimestamps: utimes works on whatever is at the path by now.
RestoreTimes ==
  /\ pc = "times" /\ target[at] # Absent
  /\ target' = [target EXCEPT ![at].mtime = Restored(plan[at].desired.mtime)]
  /\ pc' = "ready"
  /\ UNCHANGED <<plan, progress, history>>

Finish ==
  /\ pc = "ready" /\ AllInspected /\ todo = {}
  /\ pc' = "done"
  /\ UNCHANGED <<plan, target, progress, history>>

\* An I/O error at any step, a payload that does not match, or a crash.
Fail ==
  /\ ~Ended
  /\ pc' = "failed"
  /\ UNCHANGED <<plan, target, progress, history>>

\* A build-tool process writes a file, or removes it.
ForeignWrite(p) ==
  /\ ~Ended /\ foreign < MaxForeign
  /\ \E state \in ({Absent} \cup [content : Content, mtime : {Now}]) \ {target[p]} :
       target' = [target EXCEPT ![p] = state]
  /\ changed' = IF p \in pending THEN changed ELSE changed \cup {p}
  /\ late' = IF p = at /\ pc \in {"stage", "replace", "restage"} THEN late \cup {p} ELSE late
  /\ foreign' = foreign + 1
  /\ UNCHANGED <<plan, pc, progress, lost, written, run, applied>>

\* The plan is applied to the same root once more.
ApplyAgain ==
  /\ pc \in {"done", "failed"} /\ run < MaxRuns
  /\ Start /\ run' = run + 1 /\ applied' = (pc = "done")
  /\ UNCHANGED <<plan, target, at, foreign>>

Next ==
  \/ \E p \in Path : Inspect(p) \/ Reject(p) \/ LookAgain(p) \/ NoticeChange(p) \/ ForeignWrite(p)
  \/ DeleteTarget \/ StagePayload \/ ReplaceTarget \/ RemoveTarget \/ RestoreTimes
  \/ Finish \/ Fail \/ ApplyAgain

Spec == Init /\ [][Next]_vars
-----------------------------------------------------------------------------
\* Types: a plan is looked at, applied and left path by path.
TypeOK ==
  /\ plan \in Plans /\ target \in [Path -> State] /\ at \in Path
  /\ pc \in {"ready", "stage", "replace", "restage", "times", "done", "rejected", "failed"}
  /\ pending \subseteq Path /\ todo \subseteq Path \ pending
  /\ changed \subseteq Path \ pending /\ late \subseteq Path
  /\ lost \subseteq written /\ written \subseteq Path
  /\ foreign \in 0 .. MaxForeign /\ run \in Nat /\ applied \in BOOLEAN

\* A plan one of whose targets is in no accepted state changes no target at
\* all ("Any mismatch rejects the complete plan before a path changes").
RejectedPlanChangesNothing == pc = "rejected" => written = {}

\* A write of another process is overwritten only if it came after the
\* second look at its target, while the payload was being staged.
LostOnlyAfterSecondLook == lost \subseteq late

\* The state the plan wants, but for a fraction of a millisecond.
AsDesired(p) ==
  \/ target[p] = plan[p].desired
  \/ /\ target[p] # Absent /\ plan[p].desired # Absent
     /\ target[p].content = plan[p].desired.content
     /\ target[p].mtime \div 2 = plan[p].desired.mtime \div 2

\* When apply returns, every path that nobody else wrote to is in its desired
\* state, up to the fraction of a millisecond of its modification time.
DoneMeansDesired == pc = "done" => \A p \in Path \ (changed \cup late) : AsDesired(p)
=============================================================================
