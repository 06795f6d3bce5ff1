-------------------------- MODULE DeltaApplyProofs --------------------------
(***************************************************************************)
(* Proofs about DeltaApply, for every plan, every set of paths and any     *)
(* number of concurrent writes and applications.  The inductive invariant  *)
(* says what each phase may have changed so far.                           *)
(***************************************************************************)
EXTENDS DeltaApply, TLAPS

\* A path has been looked at again and not yet replaced.
InWindow == pc \in {"stage", "replace", "restage"}
Mutating == InWindow \/ pc = "times"

\* Nothing is changed before every target has been inspected.
Ordered ==
  /\ pending # {} => written = {}
  /\ pc = "rejected" => pending # {}
  /\ (Mutating \/ pc = "done") => pending = {}
  /\ pc = "done" => todo = {}
  /\ Mutating => at \notin todo
  /\ pc \in {"replace", "restage", "times"} => plan[at].desired # Absent

\* What others wrote inside the window was recorded as late.
Windowed == InWindow => (at \in changed => at \in late)

\* Paths that are still to be written, or that others wrote to.
Open == pending \cup todo \cup changed \cup late \cup (IF Mutating THEN {at} ELSE {})

Settled ==
  /\ pc # "failed" => \A p \in Path \ Open : AsDesired(p)
  /\ (pc = "times" /\ at \notin changed \cup late) => target[at] = Payload

IInv == TypeOK /\ Ordered /\ LostOnlyAfterSecondLook /\ Windowed /\ Settled

-----------------------------------------------------------------------------
LEMMA InitIInv == Init => IInv
<1> SUFFICES ASSUME Init PROVE IInv
  OBVIOUS
<1>1. TypeOK
  <2>1. foreign \in 0 .. MaxForeign /\ run \in Nat
    BY ApplyAssumption DEF Init
  <2>2. applied \in BOOLEAN
    BY DEF Init
  <2> QED
    BY <2>1, <2>2 DEF Init, TypeOK
<1>2. Ordered /\ LostOnlyAfterSecondLook /\ Windowed /\ Settled
  BY DEF Init, Ordered, LostOnlyAfterSecondLook, Windowed, Settled, Open, InWindow, Mutating
<1> QED
  BY <1>1, <1>2 DEF IInv

\* What a plan says of a path is well typed.
LEMMA PlanTyped ==
  ASSUME TypeOK, NEW p \in Path
  PROVE  plan[p] \in PlanEntry /\ target[p] \in State
BY ApplyAssumption DEF TypeOK

\* The payload written for an entry, and its restored time, are snapshots.
LEMMA PayloadTyped ==
  ASSUME TypeOK, plan[at].desired # Absent
  PROVE  /\ Payload \in Snapshot
         /\ Restored(plan[at].desired.mtime) \in Time
         /\ Restored(plan[at].desired.mtime) \div 2 = plan[at].desired.mtime \div 2
<1>1. plan[at].desired \in Snapshot
  BY PlanTyped DEF TypeOK, PlanEntry, State
<1>2. plan[at].desired.content \in Content /\ plan[at].desired.mtime \in 0 .. Now /\ Now \in Nat
  BY <1>1, ApplyAssumption DEF Snapshot, Time
<1>3. \A t \in Nat : 2 * (t \div 2) <= t /\ 2 * (t \div 2) \in Nat /\ (2 * (t \div 2)) \div 2 = t \div 2
  OBVIOUS
<1> QED
  BY <1>2, <1>3 DEF Payload, Snapshot, Restored, Time

LEMMA TypeStep == IInv /\ [Next]_vars => TypeOK'
<1> SUFFICES ASSUME IInv, [Next]_vars PROVE TypeOK'
  OBVIOUS
<1> USE DEF IInv, TypeOK, progress, history
<1>1. ASSUME NEW p \in Path, Inspect(p) PROVE TypeOK'
  BY <1>1 DEF Inspect
<1>2. ASSUME NEW p \in Path, Reject(p) PROVE TypeOK'
  BY <1>2 DEF Reject
<1>3. ASSUME NEW p \in Path, LookAgain(p) PROVE TypeOK'
  BY <1>3 DEF LookAgain
<1>4. ASSUME NEW p \in Path, NoticeChange(p) PROVE TypeOK'
  BY <1>4 DEF NoticeChange
<1>5. ASSUME NEW p \in Path, ForeignWrite(p) PROVE TypeOK'
  <2>1. PICK state \in State : target' = [target EXCEPT ![p] = state]
    <3>1. Now \in Time
      BY ApplyAssumption DEF Time
    <3> QED
      BY <1>5, <3>1 DEF ForeignWrite, State, Snapshot
  <2>2. target' \in [Path -> State]
    BY <2>1
  <2>3. late' \subseteq Path /\ changed' \subseteq Path \ pending' /\ foreign' \in 0 .. MaxForeign
    BY <1>5, ApplyAssumption DEF ForeignWrite
  <2> QED
    BY <1>5, <2>2, <2>3 DEF ForeignWrite
<1>6. CASE DeleteTarget
  BY <1>6 DEF DeleteTarget, Overwrite, State
<1>7. CASE StagePayload
  BY <1>7 DEF StagePayload
<1>8. CASE ReplaceTarget
  <2>1. Payload \in Snapshot
    BY <1>8, PayloadTyped DEF ReplaceTarget, Ordered
  <2> QED
    BY <1>8, <2>1 DEF ReplaceTarget, Overwrite, State
<1>9. CASE RemoveTarget
  BY <1>9 DEF RemoveTarget, Overwrite, State
<1>10. CASE RestoreTimes
  <2>1. Restored(plan[at].desired.mtime) \in Time
    BY <1>10, PayloadTyped DEF RestoreTimes, Ordered
  <2>2. target[at] \in Snapshot
    BY <1>10, PlanTyped DEF RestoreTimes, State
  <2>3. [target[at] EXCEPT !.mtime = Restored(plan[at].desired.mtime)] \in State
    BY <2>1, <2>2 DEF Snapshot, State
  <2>4. target' = [target EXCEPT ![at] = [target[at] EXCEPT !.mtime = Restored(plan[at].desired.mtime)]]
    BY <1>10 DEF RestoreTimes
  <2>5. target' \in [Path -> State]
    BY <2>3, <2>4
  <2> QED
    BY <1>10, <2>5 DEF RestoreTimes
<1>11. CASE Finish
  BY <1>11 DEF Finish
<1>12. CASE Fail
  BY <1>12 DEF Fail
<1>13. CASE ApplyAgain
  BY <1>13 DEF ApplyAgain, Start
<1>14. CASE UNCHANGED vars
  BY <1>14 DEF vars
<1> QED
  BY <1>1, <1>2, <1>3, <1>4, <1>5, <1>6, <1>7, <1>8, <1>9, <1>10, <1>11, <1>12, <1>13, <1>14 DEF Next

LEMMA OrderStep == IInv /\ [Next]_vars => (Ordered /\ LostOnlyAfterSecondLook /\ Windowed)'
<1> SUFFICES ASSUME IInv, [Next]_vars PROVE (Ordered /\ LostOnlyAfterSecondLook /\ Windowed)'
  OBVIOUS
<1> USE DEF IInv, TypeOK, Ordered, LostOnlyAfterSecondLook, Windowed, InWindow, Mutating,
            progress, history
<1>1. ASSUME NEW p \in Path, Inspect(p) PROVE (Ordered /\ LostOnlyAfterSecondLook /\ Windowed)'
  BY <1>1 DEF Inspect
<1>2. ASSUME NEW p \in Path, Reject(p) PROVE (Ordered /\ LostOnlyAfterSecondLook /\ Windowed)'
  BY <1>2 DEF Reject
<1>3. ASSUME NEW p \in Path, LookAgain(p) PROVE (Ordered /\ LostOnlyAfterSecondLook /\ Windowed)'
  BY <1>3 DEF LookAgain, AllInspected, LooksUnchanged
<1>4. ASSUME NEW p \in Path, NoticeChange(p) PROVE (Ordered /\ LostOnlyAfterSecondLook /\ Windowed)'
  BY <1>4 DEF NoticeChange
<1>5. ASSUME NEW p \in Path, ForeignWrite(p) PROVE (Ordered /\ LostOnlyAfterSecondLook /\ Windowed)'
  BY <1>5 DEF ForeignWrite, Ended
<1>6. CASE DeleteTarget
  BY <1>6 DEF DeleteTarget, Overwrite
<1>7. CASE StagePayload
  BY <1>7 DEF StagePayload
<1>8. CASE ReplaceTarget
  BY <1>8 DEF ReplaceTarget, Overwrite
<1>9. CASE RemoveTarget
  BY <1>9 DEF RemoveTarget, Overwrite
<1>10. CASE RestoreTimes
  BY <1>10 DEF RestoreTimes
<1>11. CASE Finish
  BY <1>11 DEF Finish, AllInspected
<1>12. CASE Fail
  BY <1>12 DEF Fail, Ended
<1>13. CASE ApplyAgain
  BY <1>13 DEF ApplyAgain, Start
<1>14. CASE UNCHANGED vars
  BY <1>14 DEF vars
<1> QED
  BY <1>1, <1>2, <1>3, <1>4, <1>5, <1>6, <1>7, <1>8, <1>9, <1>10, <1>11, <1>12, <1>13, <1>14 DEF Next

LEMMA SettledStep == IInv /\ [Next]_vars => Settled'
<1> SUFFICES ASSUME IInv, [Next]_vars PROVE Settled'
  OBVIOUS
<1> USE DEF IInv, TypeOK, Ordered, Settled, Open, InWindow, Mutating, progress, history
<1>1. ASSUME NEW p \in Path, Inspect(p) PROVE Settled'
  <2>1. AlreadyApplied(p) => AsDesired(p)
    BY DEF AlreadyApplied, AsDesired
  <2> QED
    BY <1>1, <2>1 DEF Inspect, AsDesired
<1>2. ASSUME NEW p \in Path, Reject(p) PROVE Settled'
  BY <1>2 DEF Reject, AsDesired
<1>3. ASSUME NEW p \in Path, LookAgain(p) PROVE Settled'
  BY <1>3 DEF LookAgain, AsDesired
<1>4. ASSUME NEW p \in Path, NoticeChange(p) PROVE Settled'
  BY <1>4 DEF NoticeChange, AsDesired
<1>5. ASSUME NEW p \in Path, ForeignWrite(p) PROVE Settled'
  <2>1. \A q \in Path \ {p} : target'[q] = target[q]
    BY <1>5 DEF ForeignWrite
  <2>2. \A q \in Path \ {p} : AsDesired(q) => AsDesired(q)'
    BY <1>5, <2>1 DEF ForeignWrite, AsDesired
  <2>3. p \in Open'
    BY <1>5 DEF ForeignWrite
  <2>4. Open \subseteq Open'
    BY <1>5 DEF ForeignWrite
  <2>5. \A q \in Path \ Open' : AsDesired(q)'
    BY <1>5, <2>2, <2>3, <2>4 DEF ForeignWrite, Ended
  <2>6. (pc = "times" /\ at \notin changed \cup late)' => (target[at] = Payload)'
    <3>1. p = at => p \in changed' \/ pc # "times"
      BY <1>5 DEF ForeignWrite
    <3> QED
      BY <1>5, <2>1, <3>1 DEF ForeignWrite, Payload
  <2> QED
    BY <2>5, <2>6
<1>6. CASE DeleteTarget
  <2>1. target'[at] = Absent /\ \A q \in Path \ {at} : target'[q] = target[q]
    BY <1>6 DEF DeleteTarget, Overwrite
  <2>2. AsDesired(at)'
    BY <1>6, <2>1 DEF DeleteTarget, AsDesired
  <2> QED
    BY <1>6, <2>1, <2>2 DEF DeleteTarget, Overwrite, AsDesired
<1>7. CASE StagePayload
  BY <1>7 DEF StagePayload, AsDesired
<1>8. CASE ReplaceTarget
  <2>1. target'[at] = Payload /\ \A q \in Path \ {at} : target'[q] = target[q]
    BY <1>8 DEF ReplaceTarget, Overwrite
  <2> QED
    BY <1>8, <2>1 DEF ReplaceTarget, Overwrite, AsDesired, Payload
<1>9. CASE RemoveTarget
  <2>1. \A q \in Path \ {at} : target'[q] = target[q]
    BY <1>9 DEF RemoveTarget, Overwrite
  <2> QED
    BY <1>9, <2>1 DEF RemoveTarget, Overwrite, AsDesired
<1>10. CASE RestoreTimes
  <2>1. \A q \in Path \ {at} : target'[q] = target[q]
    BY <1>10 DEF RestoreTimes
  <2>2. \A q \in Path \ {at} : AsDesired(q) => AsDesired(q)'
    BY <1>10, <2>1 DEF RestoreTimes, AsDesired
  <2>3. at \notin changed \cup late => AsDesired(at)'
    <3> SUFFICES ASSUME at \notin changed \cup late PROVE AsDesired(at)'
      OBVIOUS
    <3>1. target[at] = Payload /\ plan[at].desired # Absent
      BY <1>10 DEF RestoreTimes
    <3>2. target'[at] = [Payload EXCEPT !.mtime = Restored(plan[at].desired.mtime)]
      BY <1>10, <3>1 DEF RestoreTimes
    <3>3. /\ target'[at].content = plan[at].desired.content
          /\ target'[at].mtime = Restored(plan[at].desired.mtime)
      BY <3>2 DEF Payload
    <3>4. target'[at] \in Snapshot
      BY <3>1, <3>2, PayloadTyped DEF Snapshot
    <3>5. Restored(plan[at].desired.mtime) \div 2 = plan[at].desired.mtime \div 2
      BY <3>1, PayloadTyped
    <3> QED
      BY <1>10, <3>1, <3>3, <3>4, <3>5, ApplyAssumption DEF RestoreTimes, AsDesired
  <2> QED
    BY <1>10, <2>2, <2>3 DEF RestoreTimes
<1>11. CASE Finish
  BY <1>11 DEF Finish, AsDesired
<1>12. CASE Fail
  BY <1>12 DEF Fail
<1>13. CASE ApplyAgain
  BY <1>13 DEF ApplyAgain, Start
<1>14. CASE UNCHANGED vars
  BY <1>14 DEF vars, AsDesired, Payload
<1> QED
  BY <1>1, <1>2, <1>3, <1>4, <1>5, <1>6, <1>7, <1>8, <1>9, <1>10, <1>11, <1>12, <1>13, <1>14 DEF Next

-----------------------------------------------------------------------------
\* The invariant holds in every reachable state.
THEOREM SpecIInv == Spec => []IInv
<1>1. IInv /\ [Next]_vars => IInv'
  BY TypeStep, OrderStep, SettledStep DEF IInv
<1> QED
  BY InitIInv, <1>1, PTL DEF Spec

\* The state of an application keeps its type.
THEOREM SpecTypeOK == Spec => []TypeOK
<1>1. IInv => TypeOK
  BY DEF IInv
<1> QED
  BY SpecIInv, <1>1, PTL

\* A plan that is rejected has changed no target.
THEOREM SpecRejectedPlanChangesNothing == Spec => []RejectedPlanChangesNothing
<1>1. IInv => RejectedPlanChangesNothing
  BY DEF IInv, Ordered, RejectedPlanChangesNothing
<1> QED
  BY SpecIInv, <1>1, PTL

\* A concurrent write is overwritten only if it came after the second look.
THEOREM SpecLostOnlyAfterSecondLook == Spec => []LostOnlyAfterSecondLook
<1>1. IInv => LostOnlyAfterSecondLook
  BY DEF IInv
<1> QED
  BY SpecIInv, <1>1, PTL

\* Where nobody else wrote, a completed application left the desired state.
THEOREM SpecDoneMeansDesired == Spec => []DoneMeansDesired
<1>1. IInv => DoneMeansDesired
  BY DEF IInv, Ordered, Settled, Open, InWindow, Mutating, DoneMeansDesired
<1> QED
  BY SpecIInv, <1>1, PTL
=============================================================================
