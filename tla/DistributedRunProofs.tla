------------------------ MODULE DistributedRunProofs ------------------------
(***************************************************************************)
(* Proofs about DistributedRun, for any set of workers and any number of   *)
(* attempts and foreign generations.  That a published generation is       *)
(* complete is not inductive alone: the invariant follows the envelopes    *)
(* from their selection through the plan and the lifecycle record to the   *)
(* save, across failures, crashes and reruns.                              *)
(***************************************************************************)
EXTENDS DistributedRun, FiniteSetTheorems, SequenceTheorems, TLAPS

\* Jobs that have not persisted a record in their latest execution, or ended.
Unrecorded == {"idle", "restored", "selected", "applying",
               "succeeded", "failed", "buildFailed"}

\* A lifecycle record exists only from the end of prepare to the end of the job.
RecordPhases ==
  /\ \A j \in Job : pc[j] \in Unrecorded => record[j] = NoRecord
  /\ pc[Aggregator] = "cleaned" => record[Aggregator] # NoRecord

\* The selection holds exactly one envelope of every worker.
Selection ==
  pc[Aggregator] \in {"selected", "applying"} =>
    /\ ~readOnly
    /\ {e.worker : e \in selected} = Worker
    /\ \A d, e \in selected : d.worker = e.worker => d = e

\* No change is left to write before there is a plan.
Unplanned == pc[Aggregator] \in {"idle", "restored", "selected"} => todo = {}

\* A selected change is in the aggregator's cache or still to be written.
Applying ==
  pc[Aggregator] = "applying" =>
    \A e \in selected :
      ~IsEmptyEnvelope(e) => e \in todo \/ cache[Aggregator][e.worker] = e.to

\* From the record to the save the cache holds what the record says was consumed.
Recorded ==
  (record[Aggregator] # NoRecord /\ ~readOnly) =>
    IsComplete(record[Aggregator].consumed, cache[Aggregator])

IInv ==
  /\ TypeOK /\ IsFiniteSet(uploaded)
  /\ RecordPhases /\ Selection /\ Unplanned /\ Applying /\ Recorded
  /\ PublishedIsComplete

-----------------------------------------------------------------------------
LEMMA ConstantFacts ==
  /\ Aggregator \in Job /\ Worker \subseteq Job /\ Aggregator \notin Worker
  /\ 0 \in Version /\ Foreign \in Version /\ 1 .. MaxAttempt \subseteq Version
  /\ Empty \in Content
  /\ \A v \in Version : [j \in Job |-> v] \in Content
  /\ NoRecord \notin Record
<1>1. MaxAttempt \in Nat \ {0} /\ Aggregator \notin Worker
  BY RunAssumption
<1>2. /\ 0 \in Version /\ Foreign \in Version /\ 1 .. MaxAttempt \subseteq Version
  BY <1>1 DEF Version, Foreign
<1>3. NoRecord \notin Record
  BY DEF NoRecord, Record
<1>. QED  BY <1>1, <1>2, <1>3 DEF Job, Empty, Content

\* What restoreBaseCache restores is a cache content.
LEMMA LastGeneration ==
  ASSUME TypeOK, generations # <<>>
  PROVE  generations[Len(generations)].content \in Content
<1> DEFINE G == [content : Content, deltas : SUBSET Envelope, own : BOOLEAN]
           last == generations[Len(generations)]
<1>1. generations \in Seq(G)
  BY DEF TypeOK
<1>2. Len(generations) \in 1 .. Len(generations)
  <2>1. Len(generations) \in Nat \ {0}
    BY <1>1, EmptySeq
  <2>. QED  BY <2>1
<1>3. last \in G
  <2> HIDE DEF G
  <2>. QED  BY <1>1, <1>2, ElementOfSeq
<1>. QED  BY <1>3

LEMMA InitIInv == Init => IInv
<1> SUFFICES ASSUME Init PROVE IInv
  OBVIOUS
<1>1. TypeOK
  BY ConstantFacts, RunAssumption DEF Init, TypeOK, Phase, Content, Empty
<1>2. IsFiniteSet(uploaded)
  BY FS_EmptySet DEF Init
<1>3. RecordPhases /\ Selection /\ Unplanned /\ Applying /\ Recorded
  BY ConstantFacts DEF Init, RecordPhases, Selection, Unplanned, Applying, Recorded
<1>4. PublishedIsComplete
  BY DEF Init, PublishedIsComplete, OwnGenerations
<1>. QED  BY <1>1, <1>2, <1>3, <1>4 DEF IInv

-----------------------------------------------------------------------------
LEMMA StartPrepareIInv ==
  ASSUME IInv, NEW j \in Job, StartPrepare(j)
  PROVE  IInv'
<1>1. /\ pc[j] = "idle" /\ pc' = [pc EXCEPT ![j] = "restored"]
      /\ UNCHANGED <<runVars, record, planVars, storeVars, lastRun>>
      /\ \/ UNCHANGED <<cache, restored>>
         \/ /\ generations # <<>>
            /\ cache' = [cache EXCEPT ![j] = generations[Len(generations)].content]
            /\ restored' = [restored EXCEPT ![j] = TRUE]
  BY DEF StartPrepare, CanStart, Goto
<1>2. TypeOK'
  <2>1. generations # <<>> => generations[Len(generations)].content \in Content
    BY LastGeneration DEF IInv
  <2>. QED  BY <1>1, <2>1 DEF IInv, TypeOK, Phase, runVars, planVars, storeVars
<1>3. RecordPhases'
  BY <1>1 DEF IInv, TypeOK, RecordPhases, Unrecorded
<1>4. Selection' /\ Unplanned' /\ Applying'
  BY <1>1, ConstantFacts
  DEF IInv, TypeOK, Selection, Unplanned, Applying, runVars, planVars, IsEmptyEnvelope
<1>5. Recorded'
  <2>1. record[Aggregator]' # NoRecord => cache[Aggregator]' = cache[Aggregator]
    BY <1>1, ConstantFacts DEF IInv, TypeOK, RecordPhases, Unrecorded
  <2>. QED  BY <1>1, <2>1 DEF IInv, Recorded, runVars
<1>6. PublishedIsComplete'
  BY <1>1 DEF IInv, PublishedIsComplete, OwnGenerations, storeVars
<1>. QED  BY <1>1, <1>2, <1>3, <1>4, <1>5, <1>6 DEF IInv, storeVars

LEMMA FailPrepareIInv ==
  ASSUME IInv, NEW j \in Job, FailPrepare(j)
  PROVE  IInv'
<1>1. /\ pc[j] \in {"restored", "selected", "applying"} /\ pc' = [pc EXCEPT ![j] = "built"]
      /\ UNCHANGED <<runVars, cache, restored, record, planVars, storeVars, lastRun>>
  BY DEF FailPrepare, Goto
<1>2. TypeOK'
  BY <1>1 DEF IInv, TypeOK, Phase, runVars, planVars, storeVars
<1>3. RecordPhases'
  BY <1>1 DEF IInv, TypeOK, RecordPhases, Unrecorded
<1>4. Selection' /\ Unplanned' /\ Applying'
  BY <1>1, ConstantFacts
  DEF IInv, TypeOK, Selection, Unplanned, Applying, runVars, planVars, IsEmptyEnvelope
<1>5. Recorded' /\ PublishedIsComplete'
  BY <1>1 DEF IInv, Recorded, PublishedIsComplete, OwnGenerations, runVars, storeVars
<1>. QED  BY <1>1, <1>2, <1>3, <1>4, <1>5 DEF IInv, storeVars

LEMMA SelectEnvelopesIInv ==
  ASSUME IInv, SelectEnvelopes
  PROVE  IInv'
<1>1. /\ pc[Aggregator] = "restored" /\ ~readOnly
      /\ \A w \in Worker : Cardinality(Newest(w)) = 1
      /\ selected' = UNION {Newest(w) : w \in Worker}
      /\ pc' = [pc EXCEPT ![Aggregator] = "selected"]
      /\ UNCHANGED <<runVars, cache, restored, record, todo, mutations, storeVars, lastRun>>
  BY DEF SelectEnvelopes, Unambiguous, Goto
<1>2. \A w \in Worker : \E e \in Envelope : Newest(w) = {e} /\ e.worker = w
  <2> TAKE w \in Worker
  <2>1. Newest(w) \subseteq uploaded /\ Newest(w) \subseteq Envelope
    BY DEF IInv, TypeOK, Newest, Eligible
  <2>2. IsFiniteSet(Newest(w))
    BY <2>1, FS_Subset DEF IInv
  <2>3. PICK e : Newest(w) = {e}
    BY <1>1, <2>2, FS_Singleton
  <2>. QED  BY <2>1, <2>3 DEF Newest, Eligible
<1>3. selected' \subseteq uploaded
  BY <1>1 DEF IInv, TypeOK, Newest, Eligible
<1>4. TypeOK'
  <2>1. todo' = {} /\ todo' \subseteq selected'
    BY <1>1 DEF IInv, Unplanned
  <2>. QED  BY <1>1, <1>3, <2>1 DEF IInv, TypeOK, Phase, runVars, storeVars
<1>5. RecordPhases'
  BY <1>1, ConstantFacts DEF IInv, TypeOK, RecordPhases, Unrecorded
<1>6. Selection' /\ Unplanned' /\ Applying'
  <2>1. pc'[Aggregator] = "selected" /\ readOnly' = FALSE
    BY <1>1, ConstantFacts DEF IInv, TypeOK, runVars
  <2>2. {e.worker : e \in selected'} = Worker
    BY <1>1, <1>2
  <2>3. \A d, e \in selected' : d.worker = e.worker => d = e
    BY <1>1, <1>2
  <2>. QED  BY <1>1, <2>1, <2>2, <2>3 DEF IInv, Selection, Unplanned, Applying
<1>7. Recorded' /\ PublishedIsComplete'
  BY <1>1 DEF IInv, Recorded, PublishedIsComplete, OwnGenerations, runVars, storeVars
<1>. QED  BY <1>1, <1>4, <1>5, <1>6, <1>7 DEF IInv, storeVars

LEMMA ValidatePlanIInv ==
  ASSUME IInv, ValidatePlan
  PROVE  IInv'
<1>1. /\ pc[Aggregator] = "selected" /\ pc' = [pc EXCEPT ![Aggregator] = "applying"]
      /\ todo' = {e \in selected : ~IsEmptyEnvelope(e) /\ cache[Aggregator][e.worker] # e.to}
      /\ mutations' = Cardinality(todo')
      /\ UNCHANGED <<runVars, cache, restored, record, selected, storeVars, lastRun>>
  BY DEF ValidatePlan, Goto
<1>2. mutations' \in Nat
  <2>1. todo' \subseteq selected
    BY <1>1
  <2>2. IsFiniteSet(selected)
    BY FS_Subset DEF IInv, TypeOK
  <2>. QED  BY <1>1, <2>1, <2>2, FS_Subset, FS_CardinalityType
<1>3. TypeOK'
  BY <1>1, <1>2 DEF IInv, TypeOK, Phase, runVars, storeVars
<1>4. RecordPhases'
  BY <1>1, ConstantFacts DEF IInv, TypeOK, RecordPhases, Unrecorded
<1>5. Selection' /\ Unplanned' /\ Applying'
  BY <1>1, ConstantFacts
  DEF IInv, TypeOK, Selection, Unplanned, Applying, runVars, IsEmptyEnvelope
<1>6. Recorded' /\ PublishedIsComplete'
  BY <1>1 DEF IInv, Recorded, PublishedIsComplete, OwnGenerations, runVars, storeVars
<1>. QED  BY <1>1, <1>3, <1>4, <1>5, <1>6 DEF IInv, storeVars

\* Writing one change disturbs no other: no two of them are of one worker.
LEMMA ApplyEntryIInv ==
  ASSUME IInv, NEW e \in todo, ApplyEntry(e)
  PROVE  IInv'
<1>1. /\ pc[Aggregator] = "applying" /\ e \in selected
      /\ cache' = [cache EXCEPT ![Aggregator] = [cache[Aggregator] EXCEPT ![e.worker] = e.to]]
      /\ todo' = todo \ {e}
      /\ UNCHANGED <<runVars, pc, restored, record, selected, mutations, storeVars, lastRun>>
  BY DEF ApplyEntry, IInv, TypeOK
<1>2. /\ e \in Envelope /\ e.worker \in Worker /\ e.to \in Version
      /\ \A d \in selected : d.worker \in Worker
  BY <1>1 DEF IInv, TypeOK, Envelope
<1>3. TypeOK'
  <2>1. cache' \in [Job -> Content]
    BY <1>1, <1>2, ConstantFacts DEF IInv, TypeOK, Content
  <2>. QED  BY <1>1, <2>1 DEF IInv, TypeOK, runVars, storeVars
<1>4. RecordPhases' /\ Selection' /\ Unplanned'
  BY <1>1 DEF IInv, RecordPhases, Selection, Unplanned, runVars
<1>5. Applying'
  <2> SUFFICES ASSUME NEW d \in selected, ~IsEmptyEnvelope(d), d \notin todo'
               PROVE  cache'[Aggregator][d.worker] = d.to
    BY <1>1 DEF Applying, IsEmptyEnvelope
  <2>1. cache[Aggregator] \in Content /\ cache \in [Job -> Content]
    BY ConstantFacts DEF IInv, TypeOK
  <2>2. cache'[Aggregator] = [cache[Aggregator] EXCEPT ![e.worker] = e.to]
    BY <1>1, <2>1, ConstantFacts
  <2>3. CASE d = e
    BY <1>2, <2>1, <2>2, <2>3, ConstantFacts DEF Content
  <2>4. CASE d # e
    <3>1. d.worker # e.worker
      BY <1>1, <2>4 DEF IInv, Selection
    <3>2. cache[Aggregator][d.worker] = d.to
      BY <1>1, <2>4 DEF IInv, Applying
    <3>. QED  BY <1>2, <2>1, <2>2, <3>1, <3>2, ConstantFacts DEF Content
  <2>. QED  BY <2>3, <2>4
<1>6. Recorded'
  <2>1. record[Aggregator] = NoRecord
    BY <1>1, ConstantFacts DEF IInv, RecordPhases, Unrecorded
  <2>. QED  BY <1>1, <2>1 DEF Recorded
<1>7. PublishedIsComplete'
  BY <1>1 DEF IInv, PublishedIsComplete, OwnGenerations, storeVars
<1>. QED  BY <1>1, <1>3, <1>4, <1>5, <1>6, <1>7 DEF IInv, storeVars

\* The record takes over what the finished plan established.
LEMMA PersistRecordIInv ==
  ASSUME IInv, NEW j \in Job, PersistRecord(j)
  PROVE  IInv'
<1> DEFINE r == [restored |-> restored[j], pre |-> cache[j],
                 consumed |-> IF AppliesDeltas(j) THEN selected ELSE {},
                 mutations |-> IF AppliesDeltas(j) THEN mutations ELSE 0]
<1>1. /\ IF AppliesDeltas(j) THEN pc[j] = "applying" /\ todo = {} ELSE pc[j] = "restored"
      /\ record' = [record EXCEPT ![j] = r]
      /\ pc' = [pc EXCEPT ![j] = "prepared"]
      /\ UNCHANGED <<runVars, cache, restored, planVars, storeVars, lastRun>>
  BY DEF PersistRecord, PlanApplied, Goto
<1>2. TypeOK'
  <2>1. r \in Record
    BY <1>1 DEF IInv, TypeOK, Record
  <2>. QED  BY <1>1, <2>1 DEF IInv, TypeOK, Phase, runVars, planVars, storeVars
<1>3. RecordPhases'
  BY <1>1 DEF IInv, TypeOK, RecordPhases, Unrecorded
<1>4. Selection' /\ Unplanned' /\ Applying'
  BY <1>1, ConstantFacts
  DEF IInv, TypeOK, Selection, Unplanned, Applying, runVars, planVars, IsEmptyEnvelope
<1>5. Recorded'
  <2> SUFFICES ASSUME record'[Aggregator] # NoRecord, ~readOnly
               PROVE  IsComplete(record'[Aggregator].consumed, cache[Aggregator])
    BY <1>1 DEF Recorded, IsComplete, IsEmptyEnvelope, runVars
  <2>1. CASE j = Aggregator
    <3>1. AppliesDeltas(j) /\ pc[Aggregator] = "applying" /\ todo = {}
      BY <1>1, <2>1 DEF AppliesDeltas
    <3>2. record'[Aggregator].consumed = selected
      BY <1>1, <2>1, <3>1, ConstantFacts DEF IInv, TypeOK
    <3>3. IsComplete(selected, cache[Aggregator])
      BY <3>1 DEF IInv, Selection, Applying, IsComplete
    <3>. QED  BY <3>2, <3>3
  <2>2. CASE j # Aggregator
    BY <1>1, <2>2, ConstantFacts DEF IInv, TypeOK, Recorded
  <2>. QED  BY <2>1, <2>2
<1>6. PublishedIsComplete'
  BY <1>1 DEF IInv, PublishedIsComplete, OwnGenerations, storeVars
<1>. QED  BY <1>1, <1>2, <1>3, <1>4, <1>5, <1>6 DEF IInv, storeVars

\* A build writes or deletes its own job's file only, which no worker's delta is about.
LEMMA BuildIInv ==
  ASSUME IInv, NEW j \in Job, Build(j)
  PROVE  IInv'
<1>1. /\ pc[j] = "prepared"
      /\ \/ cache' = cache
         \/ \E version \in {attempt, 0} :
              cache' = [cache EXCEPT ![j] = [cache[j] EXCEPT ![j] = version]]
      /\ pc' = [pc EXCEPT ![j] = "built"] \/ pc' = [pc EXCEPT ![j] = "broken"]
      /\ UNCHANGED <<runVars, restored, record, planVars, storeVars, lastRun>>
  BY DEF Build, Goto
<1>2. TypeOK'
  <2>1. \A version \in {attempt, 0} : [cache[j] EXCEPT ![j] = version] \in Content
    BY ConstantFacts DEF IInv, TypeOK, Content
  <2>2. cache' \in [Job -> Content]
    BY <1>1, <2>1 DEF IInv, TypeOK
  <2>. QED  BY <1>1, <2>2 DEF IInv, TypeOK, Phase, runVars, planVars, storeVars
<1>3. RecordPhases'
  BY <1>1, ConstantFacts DEF IInv, TypeOK, RecordPhases, Unrecorded
<1>4. pc'[Aggregator] \notin {"idle", "restored", "selected", "applying"} \/ j # Aggregator
  BY <1>1, ConstantFacts DEF IInv, TypeOK
<1>5. j # Aggregator => pc'[Aggregator] = pc[Aggregator] /\ cache'[Aggregator] = cache[Aggregator]
  BY <1>1, ConstantFacts DEF IInv, TypeOK
<1>6. Selection' /\ Unplanned' /\ Applying'
  BY <1>1, <1>4, <1>5
  DEF IInv, Selection, Unplanned, Applying, runVars, planVars, IsEmptyEnvelope
<1>7. Recorded'
  <2> SUFFICES ASSUME record[Aggregator] # NoRecord, ~readOnly
               PROVE  IsComplete(record[Aggregator].consumed, cache'[Aggregator])
    BY <1>1 DEF Recorded, IsComplete, IsEmptyEnvelope, runVars
  <2>1. IsComplete(record[Aggregator].consumed, cache[Aggregator])
    BY DEF IInv, Recorded
  <2>2. \A w \in Worker : cache'[Aggregator][w] = cache[Aggregator][w]
    <3>1. cache[Aggregator] \in [Job -> Version] /\ cache \in [Job -> Content]
      BY ConstantFacts DEF IInv, TypeOK, Content
    <3>2. CASE cache' = cache \/ j # Aggregator
      BY <1>5, <3>2
    <3>3. CASE j = Aggregator /\ cache' # cache
      <4>1. \E version \in {attempt, 0} :
              cache'[Aggregator] = [cache[Aggregator] EXCEPT ![Aggregator] = version]
        BY <1>1, <3>1, <3>3, ConstantFacts
      <4>. QED  BY <3>1, <4>1, ConstantFacts
    <3>. QED  BY <3>2, <3>3
  <2>. QED  BY <2>1, <2>2 DEF IsComplete
<1>8. PublishedIsComplete'
  BY <1>1 DEF IInv, PublishedIsComplete, OwnGenerations, storeVars
<1>. QED  BY <1>1, <1>2, <1>3, <1>6, <1>7, <1>8 DEF IInv, storeVars

-----------------------------------------------------------------------------
\* What the end of a job preserves, whatever it did to the stores.
LEMMA EndFacts ==
  ASSUME IInv, NEW j \in Job, NEW result \in {"succeeded", "failed", "buildFailed"},
         End(j, result), UNCHANGED <<runVars, planVars, lastRun>>
  PROVE  /\ pc' \in [Job -> Phase] /\ cache' \in [Job -> Content]
         /\ restored' \in [Job -> BOOLEAN] /\ record' \in [Job -> Record \cup {NoRecord}]
         /\ RecordPhases' /\ Selection' /\ Unplanned' /\ Applying' /\ Recorded'
<1>1. /\ pc' = [pc EXCEPT ![j] = result]
      /\ cache' = [cache EXCEPT ![j] = Empty]
      /\ restored' = [restored EXCEPT ![j] = FALSE]
      /\ record' = [record EXCEPT ![j] = NoRecord]
  BY DEF End, Goto
<1>2. /\ pc' \in [Job -> Phase] /\ cache' \in [Job -> Content]
      /\ restored' \in [Job -> BOOLEAN] /\ record' \in [Job -> Record \cup {NoRecord}]
  BY <1>1, ConstantFacts DEF IInv, TypeOK, Phase
<1>3. RecordPhases'
  BY <1>1, ConstantFacts DEF IInv, TypeOK, RecordPhases, Unrecorded
<1>4. j # Aggregator => /\ pc'[Aggregator] = pc[Aggregator]
                        /\ cache'[Aggregator] = cache[Aggregator]
                        /\ record'[Aggregator] = record[Aggregator]
  BY <1>1, ConstantFacts DEF IInv, TypeOK
<1>5. j = Aggregator => pc'[Aggregator] = result /\ record'[Aggregator] = NoRecord
  BY <1>1, ConstantFacts DEF IInv, TypeOK
<1>6. Selection' /\ Unplanned' /\ Applying'
  BY <1>4, <1>5 DEF IInv, Selection, Unplanned, Applying, runVars, planVars, IsEmptyEnvelope
<1>7. Recorded'
  BY <1>4, <1>5 DEF IInv, Recorded, runVars
<1>. QED  BY <1>2, <1>3, <1>6, <1>7

\* A job that ends without touching a store.
LEMMA QuietEndIInv ==
  ASSUME IInv, NEW j \in Job, End(j, "failed"), UNCHANGED <<runVars, planVars, storeVars, lastRun>>
  PROVE  IInv'
<1>1. /\ pc' \in [Job -> Phase] /\ cache' \in [Job -> Content]
      /\ restored' \in [Job -> BOOLEAN] /\ record' \in [Job -> Record \cup {NoRecord}]
      /\ RecordPhases' /\ Selection' /\ Unplanned' /\ Applying' /\ Recorded'
  BY EndFacts
<1>2. TypeOK'
  BY <1>1 DEF IInv, TypeOK, runVars, planVars, storeVars
<1>3. PublishedIsComplete'
  BY DEF IInv, PublishedIsComplete, OwnGenerations, storeVars
<1>. QED  BY <1>1, <1>2, <1>3 DEF IInv, storeVars

LEMMA FinalizeWorkerIInv ==
  ASSUME IInv, NEW w \in Worker, FinalizeWorker(w)
  PROVE  IInv'
<1>1. w \in Job /\ record[w] \in Record /\ UNCHANGED <<runVars, planVars, generations, lastRun>>
  BY ConstantFacts DEF FinalizeWorker, IInv, TypeOK
<1>2. EnvelopeOf(w) \in Envelope
  <2>1. lastRun[w] \in 1 .. MaxAttempt /\ record[w].pre \in Content /\ cache[w] \in Content
    BY <1>1 DEF IInv, TypeOK, Record
  <2>. QED  BY <1>1, <2>1 DEF EnvelopeOf, Envelope, Content
<1>3. PICK result \in {"succeeded", "failed", "buildFailed"} : End(w, result)
  BY DEF FinalizeWorker, JobResult
<1>4. \/ artifacts' = artifacts /\ uploaded' = uploaded
      \/ artifacts' = artifacts \cup {EnvelopeOf(w)} /\ uploaded' = uploaded \cup {EnvelopeOf(w)}
  BY DEF FinalizeWorker, Store
<1>5. /\ pc' \in [Job -> Phase] /\ cache' \in [Job -> Content]
      /\ restored' \in [Job -> BOOLEAN] /\ record' \in [Job -> Record \cup {NoRecord}]
      /\ RecordPhases' /\ Selection' /\ Unplanned' /\ Applying' /\ Recorded'
  BY <1>1, <1>3, EndFacts
<1>6. TypeOK' /\ IsFiniteSet(uploaded')
  <2>1. IsFiniteSet(uploaded')
    BY <1>4, FS_AddElement DEF IInv
  <2>2. /\ artifacts' \subseteq uploaded' /\ uploaded' \subseteq Envelope
        /\ uploaded \subseteq uploaded'
    BY <1>2, <1>4 DEF IInv, TypeOK
  <2>. QED  BY <1>1, <1>5, <2>1, <2>2 DEF IInv, TypeOK, runVars, planVars
<1>7. PublishedIsComplete'
  BY <1>1 DEF IInv, PublishedIsComplete, OwnGenerations
<1>. QED  BY <1>5, <1>6, <1>7 DEF IInv

LEMMA CleanupConsumedIInv ==
  ASSUME IInv, CleanupConsumed
  PROVE  IInv'
<1>1. /\ pc[Aggregator] \in {"built", "broken"} /\ artifacts' \subseteq artifacts
      /\ record[Aggregator] # NoRecord
      /\ pc' = [pc EXCEPT ![Aggregator] = "cleaned"]
      /\ UNCHANGED <<runVars, cache, restored, record, planVars, generations, uploaded, lastRun>>
  BY DEF CleanupConsumed, PostReached, Goto
<1>2. TypeOK'
  BY <1>1 DEF IInv, TypeOK, Phase, runVars, planVars
<1>3. RecordPhases'
  BY <1>1, ConstantFacts DEF IInv, TypeOK, RecordPhases, Unrecorded
<1>4. Selection' /\ Unplanned' /\ Applying'
  <2>1. pc'[Aggregator] = "cleaned"
    BY <1>1, ConstantFacts DEF IInv, TypeOK
  <2>. QED  BY <2>1 DEF Selection, Unplanned, Applying
<1>5. Recorded' /\ PublishedIsComplete'
  BY <1>1 DEF IInv, Recorded, PublishedIsComplete, OwnGenerations, runVars
<1>. QED  BY <1>1, <1>2, <1>3, <1>4, <1>5 DEF IInv

\* Publishing keeps the older generations; the new one is complete if it is
\* this run's own.
LEMMA PublishFacts ==
  ASSUME TypeOK, PublishedIsComplete, NEW content \in Content, NEW deltas \in SUBSET Envelope,
         NEW own \in BOOLEAN, Publish(content, deltas, own), own => IsComplete(deltas, content)
  PROVE  /\ generations' \in Seq([content : Content, deltas : SUBSET Envelope, own : BOOLEAN])
         /\ PublishedIsComplete'
<1> DEFINE G == [content : Content, deltas : SUBSET Envelope, own : BOOLEAN]
           g == [content |-> content, deltas |-> deltas, own |-> own]
<1>1. generations \in Seq(G) /\ g \in G /\ generations' = Append(generations, g)
  BY DEF TypeOK, Publish
<1>2. /\ generations' \in Seq(G)
      /\ DOMAIN generations' = DOMAIN generations \cup {Len(generations) + 1}
      /\ \A k \in DOMAIN generations : generations'[k] = generations[k]
      /\ generations'[Len(generations) + 1] = g
  <2> HIDE DEF G, g
  <2>. QED  BY <1>1
<1>3. PublishedIsComplete'
  <2> SUFFICES ASSUME NEW k \in DOMAIN generations', generations'[k].own
               PROVE  IsComplete(generations'[k].deltas, generations'[k].content)
    BY DEF PublishedIsComplete, OwnGenerations, IsComplete, IsEmptyEnvelope
  <2>1. CASE k \in DOMAIN generations
    BY <1>2, <2>1 DEF PublishedIsComplete, OwnGenerations
  <2>2. CASE k = Len(generations) + 1
    BY <1>2, <2>2
  <2>. QED  BY <1>2, <2>1, <2>2
<1>. QED  BY <1>2, <1>3

LEMMA SaveGenerationIInv ==
  ASSUME IInv, SaveGeneration
  PROVE  IInv'
<1>1. /\ pc[Aggregator] = "cleaned" /\ UNCHANGED <<runVars, planVars, artifacts, uploaded, lastRun>>
      /\ \E result \in {"succeeded", "failed", "buildFailed"} : End(Aggregator, result)
      /\ \/ generations' = generations
         \/ /\ ~readOnly
            /\ Publish(cache[Aggregator], record[Aggregator].consumed, TRUE)
  BY DEF SaveGeneration, SaveEligible
<1>2. /\ pc' \in [Job -> Phase] /\ cache' \in [Job -> Content]
      /\ restored' \in [Job -> BOOLEAN] /\ record' \in [Job -> Record \cup {NoRecord}]
      /\ RecordPhases' /\ Selection' /\ Unplanned' /\ Applying' /\ Recorded'
  BY <1>1, ConstantFacts, EndFacts
<1>3. /\ generations' \in Seq([content : Content, deltas : SUBSET Envelope, own : BOOLEAN])
      /\ PublishedIsComplete'
  <2>1. CASE generations' = generations
    BY <2>1 DEF IInv, TypeOK, PublishedIsComplete, OwnGenerations
  <2>2. CASE ~readOnly /\ Publish(cache[Aggregator], record[Aggregator].consumed, TRUE)
    <3>1. record[Aggregator] \in Record /\ cache[Aggregator] \in Content
      BY <1>1, ConstantFacts DEF IInv, TypeOK, RecordPhases
    <3>2. IsComplete(record[Aggregator].consumed, cache[Aggregator])
      BY <2>2, <3>1, ConstantFacts DEF IInv, Recorded
    <3>3. record[Aggregator].consumed \in SUBSET Envelope
      BY <3>1 DEF Record
    <3>. QED  BY <2>2, <3>1, <3>2, <3>3, PublishFacts DEF IInv
  <2>. QED  BY <1>1, <2>1, <2>2
<1>4. TypeOK'
  BY <1>1, <1>2, <1>3 DEF IInv, TypeOK, runVars, planVars
<1>. QED  BY <1>1, <1>2, <1>3, <1>4 DEF IInv

\* A rerun keeps the stores and starts the aggregator without a plan.
LEMMA RerunIInv ==
  ASSUME IInv, NEW jobs \in SUBSET Job, Rerun(jobs)
  PROVE  IInv'
<1>1. /\ \A j \in Job : Ended(j)
      /\ attempt < MaxAttempt /\ attempt' = attempt + 1 /\ Aggregator \in jobs
      /\ pc' = [j \in Job |-> IF j \in jobs THEN "idle" ELSE pc[j]]
      /\ selected' = {} /\ todo' = {} /\ mutations' = 0
      /\ lastRun' = [j \in Job |-> IF j \in jobs THEN attempt' ELSE lastRun[j]]
      /\ UNCHANGED <<readOnly, cache, restored, record, storeVars>>
  BY DEF Rerun
<1>2. TypeOK'
  <2>1. attempt' \in 1 .. MaxAttempt
    BY <1>1, RunAssumption DEF IInv, TypeOK
  <2>2. pc' \in [Job -> Phase] /\ lastRun' \in [Job -> 1 .. MaxAttempt]
    BY <1>1, <2>1 DEF IInv, TypeOK, Phase
  <2>. QED  BY <1>1, <2>1, <2>2 DEF IInv, TypeOK, storeVars
<1>3. \A j \in Job : record[j] = NoRecord
  BY <1>1 DEF IInv, RecordPhases, Unrecorded, Ended
<1>4. pc'[Aggregator] = "idle"
  BY <1>1, ConstantFacts
<1>5. RecordPhases' /\ Selection' /\ Unplanned' /\ Applying' /\ Recorded'
  BY <1>1, <1>3, <1>4, ConstantFacts
  DEF RecordPhases, Selection, Unplanned, Applying, Recorded
<1>6. PublishedIsComplete'
  BY <1>1 DEF IInv, PublishedIsComplete, OwnGenerations, storeVars
<1>. QED  BY <1>1, <1>2, <1>5, <1>6 DEF IInv, storeVars

LEMMA ForeignPublishIInv ==
  ASSUME IInv, ForeignPublish
  PROVE  IInv'
<1>1. UNCHANGED <<runVars, jobVars, planVars, artifacts, uploaded, lastRun>>
  BY DEF ForeignPublish
<1>2. PICK v \in {0, Foreign} : Publish([j \in Job |-> v], {}, FALSE)
  BY DEF ForeignPublish
<1>3. /\ generations' \in Seq([content : Content, deltas : SUBSET Envelope, own : BOOLEAN])
      /\ PublishedIsComplete'
  BY <1>2, ConstantFacts, PublishFacts DEF IInv
<1>4. TypeOK'
  BY <1>1, <1>3 DEF IInv, TypeOK, runVars, jobVars, planVars
<1>5. RecordPhases' /\ Selection' /\ Unplanned' /\ Applying' /\ Recorded'
  BY <1>1
  DEF IInv, RecordPhases, Selection, Unplanned, Applying, Recorded, runVars, jobVars, planVars
<1>. QED  BY <1>1, <1>3, <1>4, <1>5 DEF IInv

LEMMA StutterIInv == ASSUME IInv, UNCHANGED vars PROVE IInv'
  BY DEF vars, runVars, jobVars, planVars, storeVars, IInv, TypeOK, RecordPhases, Selection,
         Unplanned, Applying, Recorded, PublishedIsComplete, OwnGenerations

\* The steps every job has, and a crash at any of them.
LEMMA JobStepIInv ==
  ASSUME IInv, NEW j \in Job, JobStep(j) \/ Crash(j)
  PROVE  IInv'
<1>1. CASE FinalizeWithoutRecord(j)
  BY <1>1, QuietEndIInv DEF FinalizeWithoutRecord
<1>2. CASE Crash(j)
  BY <1>2, QuietEndIInv DEF Crash
<1>3. CASE StartPrepare(j) \/ FailPrepare(j) \/ PersistRecord(j) \/ Build(j)
  BY <1>3, StartPrepareIInv, FailPrepareIInv, PersistRecordIInv, BuildIInv
<1>. QED  BY <1>1, <1>2, <1>3 DEF JobStep

LEMMA NextIInv == IInv /\ [Next]_vars => IInv'
<1> SUFFICES ASSUME IInv, [Next]_vars PROVE IInv'
  OBVIOUS
<1>1. CASE \E w \in Worker : WorkerStep(w)
  BY <1>1, ConstantFacts, JobStepIInv, FinalizeWorkerIInv DEF WorkerStep
<1>2. CASE AggregatorStep
  BY <1>2, ConstantFacts, JobStepIInv, SelectEnvelopesIInv, ValidatePlanIInv, ApplyEntryIInv,
     CleanupConsumedIInv, SaveGenerationIInv
  DEF AggregatorStep
<1>3. CASE \E j \in Job : Crash(j)
  BY <1>3, JobStepIInv
<1>4. CASE \E jobs \in SUBSET Job : Rerun(jobs)
  BY <1>4, RerunIInv
<1>5. CASE ForeignPublish
  BY <1>5, ForeignPublishIInv
<1>6. CASE UNCHANGED vars
  BY <1>6, StutterIInv
<1>. QED  BY <1>1, <1>2, <1>3, <1>4, <1>5, <1>6 DEF Next

-----------------------------------------------------------------------------
\* The inductive invariant holds in every reachable state.
THEOREM SpecIInv == Spec => []IInv
  BY InitIInv, NextIInv, PTL DEF Spec

\* Every store, record and plan of a run keeps its type through failures,
\* crashes and reruns; an envelope never claims an attempt that did not run.
THEOREM SpecTypeOK == Spec => []TypeOK
<1>1. IInv => TypeOK
  BY DEF IInv
<1>. QED  BY <1>1, SpecIInv, PTL

\* No partial aggregation is ever published, whatever fails or crashes.
THEOREM SpecPublishedIsComplete == Spec => []PublishedIsComplete
<1>1. IInv => PublishedIsComplete
  BY DEF IInv
<1>. QED  BY <1>1, SpecIInv, PTL

\* A read-only run uploads and publishes nothing, in any attempt.
THEOREM SpecReadOnlyLeavesNoTrace == Spec => []ReadOnlyLeavesNoTrace
<1>1. Init => ReadOnlyLeavesNoTrace
  BY DEF Init, ReadOnlyLeavesNoTrace, OwnGenerations
<1>2. IInv /\ ReadOnlyLeavesNoTrace /\ [Next]_vars => ReadOnlyLeavesNoTrace'
  <2> SUFFICES ASSUME IInv, ReadOnlyLeavesNoTrace, [Next]_vars, readOnly'
               PROVE  uploaded' = {} /\ OwnGenerations' = {}
    BY DEF ReadOnlyLeavesNoTrace
  <2>1. readOnly /\ uploaded = {} /\ OwnGenerations = {}
    BY DEF ReadOnlyLeavesNoTrace, Next, WorkerStep, AggregatorStep, JobStep, StartPrepare,
           FailPrepare, SelectEnvelopes, ValidatePlan, ApplyEntry, PersistRecord, Build,
           FinalizeWithoutRecord, FinalizeWorker, CleanupConsumed, SaveGeneration, Crash, Rerun,
           ForeignPublish, runVars, vars
  <2>2. uploaded' = uploaded
    BY <2>1
    DEF Next, WorkerStep, AggregatorStep, JobStep, StartPrepare, FailPrepare, SelectEnvelopes,
        ValidatePlan, ApplyEntry, PersistRecord, Build, FinalizeWithoutRecord, FinalizeWorker,
        CleanupConsumed, SaveGeneration, Crash, Rerun, ForeignPublish, storeVars, vars
  <2>3. generations' = generations \/ ForeignPublish
    BY <2>1
    DEF Next, WorkerStep, AggregatorStep, JobStep, StartPrepare, FailPrepare, SelectEnvelopes,
        ValidatePlan, ApplyEntry, PersistRecord, Build, FinalizeWithoutRecord, FinalizeWorker,
        CleanupConsumed, SaveGeneration, SaveEligible, Crash, Rerun, storeVars, vars
  <2>4. ForeignPublish => OwnGenerations' = OwnGenerations
    <3> SUFFICES ASSUME ForeignPublish PROVE OwnGenerations' = OwnGenerations
      OBVIOUS
    <3> DEFINE G == [content : Content, deltas : SUBSET Envelope, own : BOOLEAN]
    <3>1. PICK v \in {0, Foreign} : Publish([j \in Job |-> v], {}, FALSE)
      BY DEF ForeignPublish
    <3> DEFINE g == [content |-> [j \in Job |-> v], deltas |-> {}, own |-> FALSE]
    <3>2. generations' = Append(generations, g) /\ generations \in Seq(G) /\ g.own = FALSE
      BY <3>1 DEF IInv, TypeOK, Publish
    <3>3. /\ DOMAIN generations' = DOMAIN generations \cup {Len(generations) + 1}
          /\ \A k \in DOMAIN generations : generations'[k] = generations[k]
          /\ generations'[Len(generations) + 1] = g
      <4> HIDE DEF G, g
      <4>. QED  BY <3>2
    <3>4. Len(generations) + 1 \notin DOMAIN generations
      <4> HIDE DEF G
      <4>. QED  BY <3>2
    <3>. QED  BY <3>2, <3>3, <3>4 DEF OwnGenerations
  <2>. QED  BY <2>1, <2>2, <2>3, <2>4 DEF OwnGenerations
<1>. QED  BY <1>1, <1>2, SpecIInv, PTL DEF Spec
-----------------------------------------------------------------------------
\* No envelope and no execution is of an attempt yet to come.
AttemptsPast ==
  /\ \A e \in uploaded : e.attempt <= attempt
  /\ \A j \in Job : lastRun[j] <= attempt

\* Once the aggregator runs no worker does, so nothing is uploaded any more.
WorkersFirst == pc[Aggregator] # "idle" => \A w \in Worker : Ended(w)

\* Nothing is selected before the selection, and never in a read-only run.
Unselected == pc[Aggregator] \in {"idle", "restored"} \/ readOnly => selected = {}

SelectionInv == AttemptsPast /\ WorkersFirst /\ Unselected /\ NoNewerEnvelopePassedOver

\* What a step of a worker, or its crash, leaves alone.
LEMMA WorkerFrame ==
  ASSUME IInv, NEW w \in Worker, WorkerStep(w) \/ Crash(w)
  PROVE  /\ ~Ended(w)
         /\ \A j \in Job \ {w} : pc'[j] = pc[j] /\ cache'[j] = cache[j]
                              /\ record'[j] = record[j] /\ restored'[j] = restored[j]
         /\ UNCHANGED <<runVars, planVars, generations, lastRun>>
         /\ \/ UNCHANGED <<artifacts, uploaded>>
            \/ record[w] # NoRecord /\ Store(EnvelopeOf(w))
<1>1. w \in Job
  BY ConstantFacts
<1>2. CASE StartPrepare(w) \/ FailPrepare(w) \/ PersistRecord(w) \/ Build(w)
  <2>1. w # Aggregator
    BY RunAssumption
  <2>. QED
    BY <1>1, <1>2, <2>1
    DEF StartPrepare, CanStart, FailPrepare, PersistRecord, AppliesDeltas, Build, Goto, Ended,
        IInv, TypeOK, storeVars
<1>3. CASE FinalizeWithoutRecord(w) \/ Crash(w)
  BY <1>1, <1>3
  DEF FinalizeWithoutRecord, Crash, PostReached, End, Goto, Ended, IInv, TypeOK, storeVars
<1>4. CASE FinalizeWorker(w)
  BY <1>1, <1>4 DEF FinalizeWorker, PostReached, End, Goto, Ended, IInv, TypeOK
<1>. QED  BY <1>2, <1>3, <1>4 DEF WorkerStep, JobStep

\* What a step of the aggregator, or its crash, leaves alone.
LEMMA AggregatorFrame ==
  ASSUME IInv, AggregatorStep \/ Crash(Aggregator)
  PROVE  /\ \A w \in Worker : pc'[w] = pc[w] /\ cache'[w] = cache[w] /\ record'[w] = record[w]
         /\ UNCHANGED <<runVars, uploaded, lastRun>> /\ artifacts' \subseteq artifacts
         /\ pc[Aggregator] = "idle" => \A w \in Worker : Ended(w)
         /\ pc'[Aggregator] # "idle"
<1>1. Aggregator \in Job /\ Aggregator \notin Worker /\ Worker \subseteq Job
  BY ConstantFacts
<1>2. CASE StartPrepare(Aggregator) \/ FailPrepare(Aggregator) \/ PersistRecord(Aggregator)
           \/ Build(Aggregator)
  BY <1>1, <1>2
  DEF StartPrepare, CanStart, FailPrepare, PersistRecord, AppliesDeltas, Build, Goto,
      IInv, TypeOK, storeVars
<1>3. CASE FinalizeWithoutRecord(Aggregator) \/ Crash(Aggregator)
  BY <1>1, <1>3
  DEF FinalizeWithoutRecord, Crash, PostReached, End, Goto, IInv, TypeOK, storeVars
<1>4. CASE SelectEnvelopes \/ ValidatePlan \/ CleanupConsumed
  BY <1>1, <1>4
  DEF SelectEnvelopes, ValidatePlan, CleanupConsumed, PostReached, Goto, IInv, TypeOK, storeVars
<1>5. CASE \E e \in todo : ApplyEntry(e)
  BY <1>1, <1>5 DEF ApplyEntry, IInv, TypeOK, storeVars
<1>6. CASE SaveGeneration
  BY <1>1, <1>6 DEF SaveGeneration, End, Goto, IInv, TypeOK
<1>. QED  BY <1>2, <1>3, <1>4, <1>5, <1>6 DEF AggregatorStep, JobStep

LEMMA InitSelectionInv == Init => SelectionInv
  BY ConstantFacts
  DEF Init, SelectionInv, AttemptsPast, WorkersFirst, Unselected, NoNewerEnvelopePassedOver

\* No worker is running any more when the aggregator selects, so no step of
\* theirs can put an envelope behind its back; and it selects the newest.
LEMMA NextSelectionInv == IInv /\ SelectionInv /\ [Next]_vars => SelectionInv'
<1> SUFFICES ASSUME IInv, SelectionInv, [Next]_vars PROVE SelectionInv'
  OBVIOUS
<1> USE DEF SelectionInv
<1>1. ASSUME NEW w \in Worker, WorkerStep(w) \/ Crash(w)
      PROVE  SelectionInv'
  <2>1. pc[Aggregator] = "idle" /\ selected = {}
    BY <1>1, WorkerFrame DEF WorkersFirst, Unselected
  <2>2. pc'[Aggregator] = "idle" /\ selected' = {}
    BY <1>1, <2>1, WorkerFrame, ConstantFacts DEF planVars
  <2>3. AttemptsPast'
    <3>1. EnvelopeOf(w).attempt <= attempt
      BY ConstantFacts DEF EnvelopeOf, AttemptsPast
    <3>. QED  BY <1>1, <3>1, WorkerFrame DEF AttemptsPast, Store, runVars
  <2>. QED  BY <2>2, <2>3 DEF WorkersFirst, Unselected, NoNewerEnvelopePassedOver
<1>2. ASSUME AggregatorStep \/ Crash(Aggregator)
      PROVE  SelectionInv'
  <2>1. AttemptsPast'
    BY <1>2, AggregatorFrame DEF AttemptsPast, runVars
  <2>2. WorkersFirst'
    BY <1>2, AggregatorFrame DEF WorkersFirst, Ended
  <2>3. CASE SelectEnvelopes
    <3>1. /\ pc'[Aggregator] = "selected" /\ readOnly' = FALSE /\ UNCHANGED <<artifacts, uploaded>>
          /\ selected' = UNION {Newest(w) : w \in Worker}
      BY <2>3, ConstantFacts DEF SelectEnvelopes, Goto, IInv, TypeOK, runVars, storeVars
    <3>2. \A e \in selected', f \in uploaded :
            (f.worker = e.worker /\ f.attempt > e.attempt) => f \notin artifacts
      <4> SUFFICES ASSUME NEW e \in selected', NEW f \in artifacts, f.worker = e.worker
                   PROVE  ~(f.attempt > e.attempt)
        OBVIOUS
      <4>1. PICK w \in Worker : e \in Newest(w)
        BY <3>1
      <4>2. f \in uploaded /\ f.attempt <= attempt /\ f.attempt \in Int
        BY DEF IInv, TypeOK, Envelope, AttemptsPast
      <4>3. f \in Eligible(w) /\ e \in uploaded
        BY <4>1, <4>2 DEF Newest, Eligible, IInv, TypeOK
      <4>4. f.attempt <= e.attempt /\ e.attempt \in Int
        BY <4>1, <4>3 DEF Newest, IInv, TypeOK, Envelope
      <4>. QED  BY <4>2, <4>4
    <3>. QED  BY <2>1, <2>2, <3>1, <3>2 DEF Unselected, NoNewerEnvelopePassedOver
  <2>4. CASE ~SelectEnvelopes
    <3>1. selected' = selected
      BY <1>2, <2>4
      DEF AggregatorStep, JobStep, StartPrepare, FailPrepare, PersistRecord, Build,
          FinalizeWithoutRecord, ValidatePlan, ApplyEntry, CleanupConsumed, SaveGeneration, Crash,
          planVars
    <3>2. pc'[Aggregator] \in {"idle", "restored"} => pc[Aggregator] = "idle"
      BY <1>2, <2>4, ConstantFacts
      DEF AggregatorStep, JobStep, StartPrepare, CanStart, FailPrepare, PersistRecord, Build,
          FinalizeWithoutRecord, ValidatePlan, ApplyEntry, CleanupConsumed, SaveGeneration, Crash,
          End, Goto, IInv, TypeOK
    <3>3. Unselected'
      BY <1>2, <3>1, <3>2, AggregatorFrame DEF Unselected, runVars
    <3>4. NoNewerEnvelopePassedOver'
      BY <1>2, <3>1, AggregatorFrame DEF NoNewerEnvelopePassedOver
    <3>. QED  BY <2>1, <2>2, <3>3, <3>4
  <2>. QED  BY <2>3, <2>4
<1>3. ASSUME NEW jobs \in SUBSET Job, Rerun(jobs)
      PROVE  SelectionInv'
  <2>1. /\ attempt' = attempt + 1 /\ uploaded' = uploaded
        /\ selected' = {} /\ pc'[Aggregator] = "idle"
        /\ lastRun' = [j \in Job |-> IF j \in jobs THEN attempt' ELSE lastRun[j]]
    BY <1>3, ConstantFacts DEF Rerun, storeVars
  <2>2. AttemptsPast'
    <3>1. attempt \in Int /\ (\A e \in uploaded : e.attempt \in Int)
          /\ (\A j \in Job : lastRun[j] \in Int)
      BY DEF IInv, TypeOK, Envelope
    <3>. QED  BY <2>1, <3>1 DEF AttemptsPast
  <2>. QED  BY <2>1, <2>2 DEF WorkersFirst, Unselected, NoNewerEnvelopePassedOver
<1>4. ASSUME ForeignPublish \/ UNCHANGED vars
      PROVE  SelectionInv'
  <2>1. UNCHANGED <<attempt, readOnly, pc, selected, artifacts, uploaded, lastRun>>
    BY <1>4 DEF ForeignPublish, vars, runVars, jobVars, planVars, storeVars
  <2>2. AttemptsPast' /\ WorkersFirst' /\ Unselected'
    BY <2>1 DEF AttemptsPast, WorkersFirst, Ended, Unselected
  <2>3. NoNewerEnvelopePassedOver'
    BY <2>1 DEF NoNewerEnvelopePassedOver
  <2>. QED  BY <2>2, <2>3
<1>5. \A j \in Job : Crash(j) => j \in Worker \/ j = Aggregator
  BY DEF Job
<1>. QED  BY <1>1, <1>2, <1>3, <1>4, <1>5 DEF Next

\* No aggregator takes an envelope while the store has a newer one of the
\* same worker, in any attempt and however often jobs were rerun.
THEOREM SpecNoNewerEnvelopePassedOver == Spec => []NoNewerEnvelopePassedOver
<1>1. SelectionInv => NoNewerEnvelopePassedOver
  BY DEF SelectionInv
<1>. QED  BY <1>1, SpecIInv, InitSelectionInv, NextSelectionInv, PTL DEF Spec
-----------------------------------------------------------------------------
Kept(content) == \E k \in DOMAIN generations : generations[k].content = content

\* A job holds no base cache before it restored one, nor after its end.
RestoredLater == pc[Aggregator] = "idle" \/ Ended(Aggregator) => ~restored[Aggregator]

\* What the aggregator restored, and its plan does not mutate, is a generation.
Origin ==
  /\ pc[Aggregator] \in {"restored", "selected"} /\ restored[Aggregator] => Kept(cache[Aggregator])
  /\ pc[Aggregator] = "applying" /\ mutations = 0 =>
       todo = {} /\ (restored[Aggregator] => Kept(cache[Aggregator]))
  /\ LET r == record[Aggregator]
     IN r # NoRecord /\ r.restored /\ r.mutations = 0 => Kept(r.pre)

\* The record consumes what was selected.
Consumed ==
  record[Aggregator] # NoRecord /\ ~readOnly => record[Aggregator].consumed = selected

\* The record tells whether the base cache the job holds was restored.
Remembered ==
  record[Aggregator] # NoRecord => record[Aggregator].restored = restored[Aggregator]

DurableInv == RestoredLater /\ Origin /\ Consumed /\ Remembered

\* No generation is ever withdrawn or altered.
LEMMA GenerationsStay ==
  ASSUME IInv, [Next]_vars
  PROVE  \A k \in DOMAIN generations : k \in DOMAIN generations' /\ generations'[k] = generations[k]
<1> DEFINE G == [content : Content, deltas : SUBSET Envelope, own : BOOLEAN]
<1>1. \/ generations' = generations
      \/ \E content \in Content, deltas \in SUBSET Envelope, own \in BOOLEAN :
           Publish(content, deltas, own)
  <2>1. CASE SaveGeneration
    <3>1. record[Aggregator] \in Record /\ cache[Aggregator] \in Content
      BY <2>1, ConstantFacts DEF SaveGeneration, IInv, TypeOK, RecordPhases
    <3>2. record[Aggregator].consumed \in SUBSET Envelope
      BY <3>1 DEF Record
    <3>. QED  BY <2>1, <3>1, <3>2 DEF SaveGeneration
  <2>2. CASE ForeignPublish
    BY <2>2, ConstantFacts DEF ForeignPublish
  <2>3. CASE ~SaveGeneration /\ ~ForeignPublish
    BY <2>3
    DEF Next, WorkerStep, AggregatorStep, JobStep, StartPrepare, FailPrepare, SelectEnvelopes,
        ValidatePlan, ApplyEntry, PersistRecord, Build, FinalizeWithoutRecord, FinalizeWorker,
        CleanupConsumed, Crash, Rerun, storeVars, vars
  <2>. QED  BY <2>1, <2>2, <2>3
<1>2. CASE generations' = generations
  BY <1>2
<1>3. ASSUME NEW content \in Content, NEW deltas \in SUBSET Envelope, NEW own \in BOOLEAN,
             Publish(content, deltas, own)
      PROVE  \A k \in DOMAIN generations :
               k \in DOMAIN generations' /\ generations'[k] = generations[k]
  <2> DEFINE g == [content |-> content, deltas |-> deltas, own |-> own]
  <2>1. generations \in Seq(G) /\ g \in G /\ generations' = Append(generations, g)
    BY <1>3 DEF IInv, TypeOK, Publish
  <2> HIDE DEF G, g
  <2>. QED  BY <2>1
<1>. QED  BY <1>1, <1>2, <1>3

LEMMA InitDurableInv == Init => DurableInv
  BY ConstantFacts
  DEF Init, DurableInv, RestoredLater, Ended, Origin, Consumed, Remembered

\* A step that leaves the aggregator alone keeps what is known of it.
LEMMA AggregatorAlone ==
  ASSUME IInv, DurableInv, [Next]_vars, UNCHANGED <<readOnly, planVars>>,
         pc'[Aggregator] = pc[Aggregator], cache'[Aggregator] = cache[Aggregator],
         record'[Aggregator] = record[Aggregator], restored'[Aggregator] = restored[Aggregator]
  PROVE  DurableInv'
<1>1. \A k \in DOMAIN generations : k \in DOMAIN generations' /\ generations'[k] = generations[k]
  BY GenerationsStay
<1>2. RestoredLater' /\ Consumed' /\ Remembered'
  BY DEF DurableInv, RestoredLater, Ended, Consumed, Remembered, planVars
<1>3. Origin'
  BY <1>1 DEF DurableInv, Origin, Kept, planVars
<1>. QED  BY <1>2, <1>3 DEF DurableInv

\* When the record asks for no generation, neither plan nor build altered what
\* was restored; and if nothing was, the cache is empty, so that every change
\* consumed is a deletion.
LEMMA NotRequiredMeansKept ==
  ASSUME IInv, DurableInv, ~readOnly, record[Aggregator] # NoRecord,
         ~GenerationRequired(record[Aggregator], cache[Aggregator])
  PROVE  Kept(cache[Aggregator]) \/ EmptyMiss
<1> DEFINE r == record[Aggregator]
<1>1. r \in Record /\ cache[Aggregator] \in Content
  BY ConstantFacts DEF IInv, TypeOK
<1>2. r.pre = cache[Aggregator] /\ r.mutations = 0 /\ (r.restored \/ cache[Aggregator] = Empty)
  BY <1>1 DEF GenerationRequired, Record
<1>3. CASE r.restored
  BY <1>2, <1>3 DEF DurableInv, Origin
<1>4. CASE ~r.restored
  <2>1. ~restored[Aggregator] /\ cache[Aggregator] = Empty
    BY <1>2, <1>4 DEF DurableInv, Remembered
  <2>2. \A e \in Changes : cache[Aggregator][e.worker] = e.to
    BY DEF Changes, IInv, Recorded, IsComplete, DurableInv, Consumed
  <2>3. \A e \in Changes : e.worker \in Job
    BY ConstantFacts DEF Changes, IInv, TypeOK, Envelope
  <2>. QED  BY <2>1, <2>2, <2>3 DEF EmptyMiss, Empty
<1>. QED  BY <1>3, <1>4

\* What the aggregator consumed, when its last step succeeds.
LEMMA SaveDurable ==
  ASSUME IInv, SelectionInv, DurableInv, SaveGeneration,
         pc'[Aggregator] = "succeeded", Changes # {}
  PROVE  \/ \E k \in DOMAIN generations' : \A e \in Changes :
              generations'[k].content[e.worker] = e.to
         \/ EmptyMiss
<1> DEFINE current == cache[Aggregator]
           r == record[Aggregator]
<1>1. r # NoRecord /\ r \in Record /\ current \in Content
  BY ConstantFacts DEF SaveGeneration, IInv, TypeOK, RecordPhases
<1>2. ~readOnly
  BY DEF SelectionInv, Unselected, Changes
<1>3. \A e \in Changes : current[e.worker] = e.to
  BY <1>1, <1>2 DEF Changes, IInv, Recorded, IsComplete, DurableInv, Consumed
<1>4. CASE ~SaveEligible(r, current) /\ generations' = generations
  <2>1. Kept(current) \/ EmptyMiss
    BY <1>1, <1>2, <1>4, NotRequiredMeansKept DEF SaveEligible
  <2>. QED  BY <1>3, <1>4, <2>1 DEF Kept
<1>5. CASE Publish(current, r.consumed, TRUE)
  <2> DEFINE G == [content : Content, deltas : SUBSET Envelope, own : BOOLEAN]
             g == [content |-> current, deltas |-> r.consumed, own |-> TRUE]
  <2>1. generations \in Seq(G) /\ generations' = Append(generations, g) /\ g \in G
    BY <1>1, <1>5 DEF Publish, IInv, TypeOK, Record
  <2>2. \E k \in DOMAIN generations' : generations'[k] = g
    <3> HIDE DEF G, g
    <3>. QED  BY <2>1
  <2>3. g.content = current
    OBVIOUS
  <2>. QED  BY <1>3, <2>2, <2>3
<1>6. End(Aggregator, "failed") => pc'[Aggregator] = "failed"
  BY ConstantFacts DEF End, Goto, IInv, TypeOK
<1>. QED  BY <1>4, <1>5, <1>6 DEF SaveGeneration

\* The end of the aggregator leaves nothing to follow but its success.
LEMMA AggregatorEndDurable ==
  ASSUME IInv, NEW result \in {"succeeded", "failed"}, End(Aggregator, result)
  PROVE  DurableInv'
<1>1. /\ pc'[Aggregator] = result /\ record'[Aggregator] = NoRecord
      /\ restored'[Aggregator] = FALSE
  BY ConstantFacts DEF End, Goto, IInv, TypeOK
<1>. QED  BY <1>1 DEF DurableInv, RestoredLater, Origin, Consumed, Remembered

LEMMA AggregatorDurableInv ==
  ASSUME IInv, DurableInv, [Next]_vars, AggregatorStep \/ Crash(Aggregator)
  PROVE  DurableInv'
<1> USE ConstantFacts
<1> DEFINE A == Aggregator
<1>1. A \in Job /\ pc \in [Job -> Phase] /\ cache \in [Job -> Content]
      /\ restored \in [Job -> BOOLEAN] /\ record \in [Job -> Record \cup {NoRecord}]
  BY DEF IInv, TypeOK
<1>2. CASE StartPrepare(A)
  <2>1. /\ pc'[A] = "restored" /\ UNCHANGED <<readOnly, planVars, generations>>
        /\ record'[A] = NoRecord /\ ~restored[A]
        /\ \/ restored'[A] = restored[A]
           \/ /\ generations # <<>> /\ cache'[A] = generations[Len(generations)].content
    BY <1>1, <1>2
    DEF StartPrepare, CanStart, Goto, IInv, RecordPhases, Unrecorded, DurableInv, RestoredLater,
        runVars, storeVars
  <2>2. generations # <<>> => Len(generations) \in DOMAIN generations
    <3> DEFINE G == [content : Content, deltas : SUBSET Envelope, own : BOOLEAN]
    <3>1. generations \in Seq(G)
      BY DEF IInv, TypeOK
    <3> HIDE DEF G
    <3>. QED  BY <3>1, EmptySeq
  <2>3. Origin'
    BY <2>1, <2>2 DEF Origin, Kept
  <2>. QED
    BY <2>1, <2>3 DEF DurableInv, RestoredLater, Ended, Consumed, Remembered
<1>3. CASE FailPrepare(A)
  <2>1. /\ pc'[A] = "built" /\ pc[A] \in Unrecorded
        /\ UNCHANGED <<readOnly, cache, restored, record, planVars, generations>>
    BY <1>1, <1>3 DEF FailPrepare, Goto, Unrecorded, runVars, storeVars
  <2>2. record'[A] = NoRecord
    BY <2>1 DEF IInv, RecordPhases
  <2>. QED
    BY <2>1, <2>2
    DEF DurableInv, RestoredLater, Ended, Origin, Consumed, Remembered
<1>4. CASE SelectEnvelopes
  <2>1. /\ pc[A] = "restored" /\ pc'[A] = "selected" /\ record[A] = NoRecord
        /\ UNCHANGED <<readOnly, cache, restored, record, todo, mutations, generations>>
    BY <1>1, <1>4
    DEF SelectEnvelopes, Goto, IInv, RecordPhases, Unrecorded, runVars, storeVars
  <2>2. Origin'
    BY <2>1 DEF DurableInv, Origin, Kept
  <2>. QED
    BY <2>1, <2>2 DEF DurableInv, RestoredLater, Ended, Consumed, Remembered
<1>5. CASE ValidatePlan
  <2>1. /\ pc[A] = "selected" /\ pc'[A] = "applying" /\ record[A] = NoRecord
        /\ UNCHANGED <<readOnly, cache, restored, record, selected, generations>>
        /\ todo' \subseteq selected /\ mutations' = Cardinality(todo')
    BY <1>1, <1>5
    DEF ValidatePlan, Goto, IInv, RecordPhases, Unrecorded, runVars, storeVars
  <2>2. mutations' = 0 => todo' = {}
    <3>1. IsFiniteSet(todo')
      BY <2>1, FS_Subset DEF IInv, TypeOK
    <3>. QED  BY <2>1, <3>1, FS_EmptySet
  <2>3. Origin'
    BY <2>1, <2>2 DEF DurableInv, Origin, Kept
  <2>. QED
    BY <2>1, <2>3 DEF DurableInv, RestoredLater, Ended, Consumed, Remembered
<1>6. CASE \E e \in todo : ApplyEntry(e)
  <2>1. /\ pc[A] = "applying" /\ pc'[A] = "applying" /\ todo # {} /\ record[A] = NoRecord
        /\ UNCHANGED <<readOnly, restored, record, selected, mutations, generations>>
    BY <1>6 DEF ApplyEntry, IInv, RecordPhases, Unrecorded, runVars, storeVars
  <2>2. mutations # 0
    BY <2>1 DEF DurableInv, Origin
  <2>. QED
    BY <2>1, <2>2
    DEF DurableInv, RestoredLater, Ended, Origin, Consumed, Remembered
<1>7. CASE PersistRecord(A)
  <2>1. /\ IF readOnly THEN pc[A] = "restored" ELSE pc[A] = "applying"
        /\ pc'[A] = "prepared"
        /\ UNCHANGED <<readOnly, restored, selected, generations>>
        /\ record'[A].restored = restored[A] /\ record'[A].pre = cache[A]
        /\ ~readOnly => record'[A].consumed = selected /\ record'[A].mutations = mutations
    BY <1>1, <1>7
    DEF PersistRecord, AppliesDeltas, Goto, runVars, planVars, storeVars
  <2>2. Origin'
    BY <2>1 DEF DurableInv, Origin, Kept
  <2>. QED
    BY <2>1, <2>2 DEF DurableInv, RestoredLater, Ended, Consumed, Remembered
<1>8. CASE Build(A) \/ CleanupConsumed
  <2>1. /\ pc'[A] \in {"built", "broken", "cleaned"}
        /\ UNCHANGED <<readOnly, restored, record, planVars, generations>>
    BY <1>1, <1>8 DEF Build, CleanupConsumed, Goto, runVars, storeVars
  <2>2. Origin' /\ Consumed'
    BY <2>1 DEF DurableInv, Origin, Kept, Consumed, planVars
  <2>. QED
    BY <2>1, <2>2 DEF DurableInv, RestoredLater, Ended, Remembered
<1>9. CASE FinalizeWithoutRecord(A) \/ Crash(A) \/ SaveGeneration
  <2>1. \E result \in {"succeeded", "failed"} : End(A, result)
    BY <1>9 DEF FinalizeWithoutRecord, Crash, SaveGeneration
  <2>. QED  BY <2>1, AggregatorEndDurable
<1>. QED
  BY <1>2, <1>3, <1>4, <1>5, <1>6, <1>7, <1>8, <1>9 DEF AggregatorStep, JobStep

LEMMA NextDurableInv == IInv /\ DurableInv /\ [Next]_vars => DurableInv'
<1> SUFFICES ASSUME IInv, DurableInv, [Next]_vars PROVE DurableInv'
  OBVIOUS
<1>1. CASE \E w \in Worker : WorkerStep(w) \/ Crash(w)
  BY <1>1, WorkerFrame, AggregatorAlone, ConstantFacts DEF runVars
<1>2. CASE AggregatorStep \/ Crash(Aggregator)
  BY <1>2, AggregatorDurableInv
<1>3. ASSUME NEW jobs \in SUBSET Job, Rerun(jobs)
      PROVE  DurableInv'
  <2>1. /\ pc'[Aggregator] = "idle" /\ UNCHANGED <<cache, record, restored>>
        /\ ~restored[Aggregator] /\ record[Aggregator] = NoRecord
    BY <1>3, ConstantFacts
    DEF Rerun, DurableInv, RestoredLater, IInv, RecordPhases, Unrecorded, Ended
  <2>. QED  BY <2>1 DEF DurableInv, RestoredLater, Ended, Origin, Consumed, Remembered
<1>4. CASE ForeignPublish \/ UNCHANGED vars
  <2>1. UNCHANGED <<readOnly, pc, cache, restored, record, planVars>>
    BY <1>4 DEF ForeignPublish, vars, runVars, jobVars, storeVars
  <2>. QED  BY <2>1, AggregatorAlone
<1>5. \A j \in Job : Crash(j) => j \in Worker \/ j = Aggregator
  BY DEF Job
<1>. QED  BY <1>1, <1>2, <1>3, <1>4, <1>5 DEF Next

\* Only the save lets the aggregator succeed.
LEMMA SucceedsBySaving ==
  ASSUME IInv, [Next]_vars, pc[Aggregator] # "succeeded", pc'[Aggregator] = "succeeded"
  PROVE  SaveGeneration
<1> USE ConstantFacts
<1>1. pc \in [Job -> Phase]
  BY DEF IInv, TypeOK
<1>2. \A w \in Worker : ~WorkerStep(w) /\ ~Crash(w)
  BY WorkerFrame
<1>3. ~JobStep(Aggregator) /\ ~Crash(Aggregator)
  BY <1>1
  DEF JobStep, StartPrepare, FailPrepare, PersistRecord, Build, FinalizeWithoutRecord, Crash,
      End, Goto
<1>4. ~SelectEnvelopes /\ ~ValidatePlan /\ ~CleanupConsumed /\ \A e \in todo : ~ApplyEntry(e)
  BY <1>1 DEF SelectEnvelopes, ValidatePlan, CleanupConsumed, ApplyEntry, Goto
<1>5. ~ForeignPublish /\ ~UNCHANGED vars /\ \A jobs \in SUBSET Job : ~Rerun(jobs)
  BY <1>1 DEF ForeignPublish, vars, jobVars, Rerun
<1>. QED  BY <1>2, <1>3, <1>4, <1>5 DEF Next, AggregatorStep, Job

\* When an aggregator succeeds, one durable generation holds every change it
\* consumed, also when it publishes none because none is required; only
\* deletions consumed after a missed restore, with nothing to save, are dropped.
THEOREM SpecDroppedOnlyAfterEmptyMiss == Spec => DroppedOnlyAfterEmptyMiss
<1> DEFINE Step ==
      (pc[Aggregator] # "succeeded" /\ pc'[Aggregator] = "succeeded" /\ Changes # {}) =>
        \/ \E k \in DOMAIN generations' : \A e \in Changes :
             generations'[k].content[e.worker] = e.to
        \/ EmptyMiss
<1>1. Init => SelectionInv /\ DurableInv
  BY InitSelectionInv, InitDurableInv
<1>2. IInv /\ SelectionInv /\ DurableInv /\ [Next]_vars => SelectionInv' /\ DurableInv'
  BY NextSelectionInv, NextDurableInv
<1>3. IInv /\ SelectionInv /\ DurableInv /\ [Next]_vars => [Step]_vars
  BY SucceedsBySaving, SaveDurable
<1>. QED  BY <1>1, <1>2, <1>3, SpecIInv, PTL DEF Spec, DroppedOnlyAfterEmptyMiss
-----------------------------------------------------------------------------
\* Envelopes without a change leave their worker's file as the base has it.
Based ==
  \E base \in AtomicStore!Bases : \A e \in selected :
    IsEmptyEnvelope(e) => cache[Aggregator][e.worker] = base[e.worker]

\* From the restored base, through the plan, to the save.
Provenance ==
  /\ pc[Aggregator] = "idle" \/ Ended(Aggregator) => cache[Aggregator] = Empty
  /\ pc[Aggregator] \in {"restored", "selected"} => cache[Aggregator] \in AtomicStore!Bases
  /\ \A e \in todo : ~IsEmptyEnvelope(e)
  /\ pc[Aggregator] = "applying" \/ (record[Aggregator] # NoRecord /\ ~readOnly) =>
       AtomicStore!OneEnvelopePerWorker(selected) /\ Based

LEMMA BasesStay ==
  ASSUME IInv, [Next]_vars
  PROVE  AtomicStore!Bases \subseteq AtomicStore!Bases'
  BY GenerationsStay DEF AtomicStore!Bases, AtomicStore!Visible

LEMMA InitProvenance == Init => Provenance
  BY ConstantFacts DEF Init, Provenance

LEMMA AggregatorProvenance ==
  ASSUME IInv, Provenance, [Next]_vars, AggregatorStep \/ Crash(Aggregator)
  PROVE  Provenance'
<1> USE ConstantFacts, BasesStay
<1> DEFINE A == Aggregator
<1>1. A \in Job /\ pc \in [Job -> Phase] /\ cache \in [Job -> [Job -> Version]]
      /\ record \in [Job -> Record \cup {NoRecord}]
  BY DEF IInv, TypeOK, Content
<1>2. CASE StartPrepare(A)
  <2>1. /\ pc'[A] = "restored" /\ record'[A] = NoRecord /\ todo' = {}
        /\ \/ cache'[A] = Empty
           \/ generations # <<>> /\ cache'[A] = generations[Len(generations)].content
    BY <1>1, <1>2
    DEF StartPrepare, CanStart, Goto, Provenance, IInv, Unplanned, RecordPhases, Unrecorded, planVars
  <2>2. generations # <<>> => Len(generations) \in DOMAIN generations
    <3> DEFINE G == [content : Content, deltas : SUBSET Envelope, own : BOOLEAN]
    <3>1. generations \in Seq(G)
      BY DEF IInv, TypeOK
    <3> HIDE DEF G
    <3>. QED  BY <3>1, EmptySeq
  <2>3. cache'[A] \in AtomicStore!Bases
    BY <2>1, <2>2 DEF AtomicStore!Bases, AtomicStore!Visible, Empty
  <2>. QED  BY <2>1, <2>3 DEF Provenance, Ended
<1>3. CASE FailPrepare(A)
  <2>1. pc'[A] = "built" /\ record'[A] = NoRecord /\ todo' = todo
    BY <1>1, <1>3 DEF FailPrepare, Goto, IInv, RecordPhases, Unrecorded, planVars
  <2>. QED  BY <2>1 DEF Provenance, Ended
<1>4. CASE SelectEnvelopes
  <2>1. /\ pc[A] = "restored" /\ pc'[A] = "selected" /\ record'[A] = NoRecord
        /\ todo' = todo /\ cache' = cache
    BY <1>1, <1>4 DEF SelectEnvelopes, Goto, IInv, RecordPhases, Unrecorded
  <2>. QED  BY <2>1 DEF Provenance, Ended
<1>5. CASE ValidatePlan
  <2>1. /\ pc[A] = "selected" /\ pc'[A] = "applying" /\ cache' = cache /\ selected' = selected
        /\ \A e \in todo' : ~IsEmptyEnvelope(e)
    BY <1>1, <1>5 DEF ValidatePlan, Goto
  <2>2. AtomicStore!OneEnvelopePerWorker(selected)
    BY <2>1 DEF IInv, Selection, AtomicStore!OneEnvelopePerWorker
  <2>3. Based'
    BY <2>1 DEF Provenance, Based
  <2>. QED
    BY <2>1, <2>2, <2>3
    DEF Provenance, Ended, IsEmptyEnvelope, AtomicStore!OneEnvelopePerWorker
<1>6. ASSUME NEW d \in todo, ApplyEntry(d)
      PROVE  Provenance'
  <2>1. /\ pc[A] = "applying" /\ UNCHANGED <<pc, record, readOnly, selected>> /\ d \in selected
        /\ cache'[A] = [cache[A] EXCEPT ![d.worker] = d.to] /\ todo' \subseteq todo
    BY <1>1, <1>6 DEF ApplyEntry, IInv, TypeOK, runVars
  <2>2. ~IsEmptyEnvelope(d) /\ AtomicStore!OneEnvelopePerWorker(selected)
    BY <2>1 DEF Provenance
  <2>3. \A e \in selected : IsEmptyEnvelope(e) => cache'[A][e.worker] = cache[A][e.worker]
    <3> SUFFICES ASSUME NEW e \in selected, IsEmptyEnvelope(e)
                 PROVE  cache'[A][e.worker] = cache[A][e.worker]
      OBVIOUS
    <3>1. e.worker # d.worker /\ e.worker \in Job
      BY <2>1, <2>2 DEF AtomicStore!OneEnvelopePerWorker
    <3>. QED  BY <1>1, <2>1, <3>1
  <2>4. Based'
    BY <2>1, <2>3 DEF Provenance, Based
  <2>. QED
    BY <2>1, <2>2, <2>4
    DEF Provenance, Ended, IsEmptyEnvelope, AtomicStore!OneEnvelopePerWorker
<1>7. CASE PersistRecord(A)
  <2>1. /\ readOnly' = readOnly /\ (~readOnly => pc[A] = "applying")
        /\ pc'[A] = "prepared" /\ UNCHANGED <<cache, selected, todo>>
    BY <1>1, <1>7 DEF PersistRecord, AppliesDeltas, Goto, runVars, planVars
  <2>2. ~readOnly => Based'
    BY <2>1 DEF Provenance, Based, IsEmptyEnvelope
  <2>. QED
    BY <2>1, <2>2 DEF Provenance, Ended, IsEmptyEnvelope, AtomicStore!OneEnvelopePerWorker
<1>8. CASE Build(A) \/ CleanupConsumed
  <2>1. /\ pc'[A] \in {"built", "broken", "cleaned"}
        /\ UNCHANGED <<readOnly, record, selected, todo>>
        /\ \/ cache' = cache
           \/ \E version \in {attempt, 0} :
                cache' = [cache EXCEPT ![A] = [cache[A] EXCEPT ![A] = version]]
    BY <1>1, <1>8 DEF Build, CleanupConsumed, Goto, runVars, planVars
  <2>2. \A w \in Worker : cache'[A][w] = cache[A][w]
    BY <1>1, <2>1
  <2>3. \A e \in selected : e.worker \in Worker
    BY DEF IInv, TypeOK, Envelope
  <2>4. Based => Based'
    BY <2>1, <2>2, <2>3 DEF Based, IsEmptyEnvelope
  <2>. QED
    BY <2>1, <2>4 DEF Provenance, Ended, IsEmptyEnvelope, AtomicStore!OneEnvelopePerWorker
<1>9. CASE FinalizeWithoutRecord(A) \/ Crash(A) \/ SaveGeneration
  <2>1. /\ \E result \in {"succeeded", "failed"} : pc'[A] = result
        /\ cache'[A] = Empty /\ record'[A] = NoRecord /\ todo' = todo
    BY <1>1, <1>9 DEF FinalizeWithoutRecord, Crash, SaveGeneration, End, Goto, planVars
  <2>. QED  BY <2>1 DEF Provenance, Ended
<1>. QED
  BY <1>2, <1>3, <1>4, <1>5, <1>6, <1>7, <1>8, <1>9 DEF AggregatorStep, JobStep

LEMMA NextProvenance == IInv /\ Provenance /\ [Next]_vars => Provenance'
<1> SUFFICES ASSUME IInv, Provenance, [Next]_vars PROVE Provenance'
  OBVIOUS
<1>1. ASSUME UNCHANGED <<readOnly, planVars>>, pc'[Aggregator] = pc[Aggregator],
             cache'[Aggregator] = cache[Aggregator], record'[Aggregator] = record[Aggregator]
      PROVE  Provenance'
  <2>1. selected' = selected /\ todo' = todo /\ AtomicStore!Bases \subseteq AtomicStore!Bases'
    BY <1>1, BasesStay DEF planVars
  <2>2. Based => Based'
    BY <1>1, <2>1 DEF Based, IsEmptyEnvelope
  <2>. QED
    BY <1>1, <2>1, <2>2
    DEF Provenance, Ended, IsEmptyEnvelope, AtomicStore!OneEnvelopePerWorker
<1>2. CASE \E w \in Worker : WorkerStep(w) \/ Crash(w)
  BY <1>1, <1>2, WorkerFrame, ConstantFacts DEF runVars
<1>3. CASE AggregatorStep \/ Crash(Aggregator)
  BY <1>3, AggregatorProvenance
<1>4. CASE \E jobs \in SUBSET Job : Rerun(jobs)
  <2>1. /\ pc'[Aggregator] = "idle" /\ todo' = {} /\ cache'[Aggregator] = Empty
        /\ record'[Aggregator] = NoRecord
    BY <1>4, ConstantFacts DEF Rerun, Provenance, IInv, RecordPhases, Unrecorded, Ended
  <2>. QED  BY <2>1 DEF Provenance
<1>5. CASE ForeignPublish \/ UNCHANGED vars
  BY <1>1, <1>5 DEF ForeignPublish, vars, runVars, jobVars
<1>6. \A j \in Job : Crash(j) => j \in Worker \/ j = Aggregator
  BY DEF Job
<1>. QED  BY <1>2, <1>3, <1>4, <1>5, <1>6 DEF Next

LEMMA AddedIsVisible ==
  ASSUME IInv, NEW g, generations' = Append(generations, g)
  PROVE  g \in AtomicStore!Visible'
<1> DEFINE G == [content : Content, deltas : SUBSET Envelope, own : BOOLEAN]
<1>1. generations \in Seq(G)
  BY DEF IInv, TypeOK
<1>2. \E k \in DOMAIN generations' : generations'[k] = g
  <2> HIDE DEF G
  <2>. QED  BY <1>1
<1>. QED  BY <1>2 DEF AtomicStore!Visible

\* A save that publishes is one atomic publication of an aggregation.
LEMMA SavePublishes ==
  ASSUME IInv, Provenance, Consumed, SaveGeneration, generations' # generations
  PROVE  AtomicStore!Publish
<1> DEFINE current == cache[Aggregator]
           r == record[Aggregator]
           g == [content |-> current, deltas |-> r.consumed, own |-> TRUE]
<1>1. /\ ~readOnly /\ uploaded' = uploaded /\ r # NoRecord
      /\ generations' = Append(generations, g)
  BY DEF SaveGeneration, SaveEligible, Publish, IInv, RecordPhases
<1>2. r.consumed = selected /\ selected \in SUBSET uploaded /\ current \in Content
  BY <1>1, ConstantFacts DEF Consumed, IInv, TypeOK
<1>3. AtomicStore!OneEnvelopePerWorker(selected) /\ Based
  BY <1>1 DEF Provenance
<1>4. \E base \in AtomicStore!Bases : AtomicStore!IsAggregation(current, base, selected)
  <2>1. PICK base \in AtomicStore!Bases :
          \A e \in selected : IsEmptyEnvelope(e) => current[e.worker] = base[e.worker]
    BY <1>3 DEF Based
  <2>2. \A e \in selected : ~IsEmptyEnvelope(e) => current[e.worker] = e.to
    BY <1>1, <1>2 DEF IInv, Recorded, IsComplete
  <2>3. AtomicStore!IsAggregation(current, base, selected)
    BY <2>1, <2>2 DEF AtomicStore!IsAggregation, IsEmptyEnvelope
  <2>. QED  BY <2>3
<1>5. /\ g \in [content : Content, deltas : SUBSET uploaded, own : {TRUE}]
      /\ g \in AtomicStore!Visible' /\ AtomicStore!Adds(g)
  BY <1>1, <1>2, AddedIsVisible DEF AtomicStore!Adds
<1>. QED  BY <1>1, <1>2, <1>3, <1>4, <1>5 DEF AtomicStore!Publish

LEMMA NextAtomicStore ==
  IInv /\ Provenance /\ Consumed /\ [Next]_vars =>
    [AtomicStore!StoreNext]_(AtomicStore!storeVars)
<1> SUFFICES ASSUME IInv, Provenance, Consumed, [Next]_vars,
                    ~(UNCHANGED <<uploaded, generations>>)
             PROVE  AtomicStore!StoreNext
  BY DEF AtomicStore!storeVars
<1>1. CASE SaveGeneration
  <2>1. generations' # generations
    BY <1>1 DEF SaveGeneration
  <2>. QED  BY <1>1, <2>1, SavePublishes DEF AtomicStore!StoreNext
<1>2. CASE ForeignPublish
  <2>1. uploaded' = uploaded /\ \E v \in {0, Foreign} : Publish([j \in Job |-> v], {}, FALSE)
    BY <1>2 DEF ForeignPublish
  <2>2. PICK v \in {0, Foreign} : Publish([j \in Job |-> v], {}, FALSE)
    BY <2>1
  <2> DEFINE g == [content |-> [j \in Job |-> v], deltas |-> {}, own |-> FALSE]
  <2>3. /\ g \in [content : Content, deltas : {{}}, own : {FALSE}]
        /\ generations' = Append(generations, g)
    BY <2>2, ConstantFacts DEF Publish
  <2>4. g \in AtomicStore!Visible' /\ AtomicStore!Adds(g)
    BY <2>3, AddedIsVisible DEF AtomicStore!Adds
  <2>. QED  BY <2>1, <2>3, <2>4 DEF AtomicStore!ForeignPublish, AtomicStore!StoreNext
<1>3. ASSUME NEW w \in Worker, FinalizeWorker(w)
      PROVE  AtomicStore!StoreNext
  <2>1. generations' = generations /\ uploaded' = uploaded \cup {EnvelopeOf(w)}
    BY <1>3 DEF FinalizeWorker, Store
  <2>2. EnvelopeOf(w) \in Envelope
    <3>1. w \in Job /\ record[w] \in Record
      BY <1>3, ConstantFacts DEF FinalizeWorker, IInv, TypeOK
    <3>2. lastRun[w] \in 1 .. MaxAttempt /\ record[w].pre \in Content /\ cache[w] \in Content
      BY <3>1 DEF IInv, TypeOK, Record
    <3>. QED  BY <3>1, <3>2 DEF EnvelopeOf, Envelope, Content
  <2>. QED  BY <2>1, <2>2 DEF AtomicStore!Upload, AtomicStore!StoreNext
<1>4. SaveGeneration \/ ForeignPublish \/ \E w \in Worker : FinalizeWorker(w)
  BY DEF Next, WorkerStep, AggregatorStep, JobStep, StartPrepare, FailPrepare, SelectEnvelopes,
         ValidatePlan, ApplyEntry, PersistRecord, Build, FinalizeWithoutRecord, CleanupConsumed,
         Crash, Rerun, storeVars, vars
<1>. QED  BY <1>1, <1>2, <1>3, <1>4

\* The jobs, with their failures, crashes and reruns, implement a store in
\* which complete aggregations of one envelope per worker appear in one step.
THEOREM SpecImplementsAtomicStore == Spec => ImplementsAtomicStore
<1>1. Init => SelectionInv /\ DurableInv /\ Provenance /\ AtomicStore!StoreInit
  BY InitSelectionInv, InitDurableInv, InitProvenance DEF Init, AtomicStore!StoreInit
<1>2. IInv /\ SelectionInv /\ DurableInv /\ Provenance /\ [Next]_vars =>
        SelectionInv' /\ DurableInv' /\ Provenance'
  BY NextSelectionInv, NextDurableInv, NextProvenance
<1>3. IInv /\ DurableInv /\ Provenance /\ [Next]_vars =>
        [AtomicStore!StoreNext]_(AtomicStore!storeVars)
  BY NextAtomicStore DEF DurableInv
<1>. QED
  BY <1>1, <1>2, <1>3, SpecIInv, PTL DEF Spec, ImplementsAtomicStore, AtomicStore!StoreSpec
=============================================================================
