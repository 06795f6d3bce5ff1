-------------------------- MODULE AggregationStore --------------------------
(***************************************************************************)
(* What the rest of the repository sees of one distributed workflow run:   *)
(* worker envelopes appear, and complete base-cache generations appear.    *)
(* A generation is published in one step from a base and one envelope per  *)
(* worker, all of whose changes it contains; nothing in between is ever    *)
(* visible, however the aggregator's prepare and finalize phases fail, and *)
(* no generation is ever changed once it is published.                     *)
(***************************************************************************)
EXTENDS Integers, Sequences, FiniteSets

CONSTANTS Worker, Job, Content, Envelope

VARIABLES
  uploaded,     \* the envelopes workers have uploaded
  generations   \* the generations of the lineage, oldest first

storeVars == <<uploaded, generations>>

OneEnvelopePerWorker(deltas) ==
  /\ {e.worker : e \in deltas} = Worker
  /\ \A d, e \in deltas : d.worker = e.worker => d = e

\* The base content with the changes of the envelopes; whatever the
\* aggregator job itself builds is its own file only.
IsAggregation(content, base, deltas) ==
  \A w \in Worker : \A e \in deltas :
    e.worker = w => content[w] = IF e.from = e.to THEN base[w] ELSE e.to

StoreInit == uploaded = {} /\ generations = <<>>

Upload ==
  /\ \E e \in uploaded' \cap Envelope : uploaded' = uploaded \cup {e}
  /\ UNCHANGED generations

\* The step adds generation g, and withdraws none.
Adds(g) == generations' = Append(generations, g)
Visible == {generations[k] : k \in DOMAIN generations}

Bases == {[j \in Job |-> 0]} \cup {g.content : g \in Visible}

Publish ==
  /\ \E g \in Visible' :
       /\ Adds(g) /\ g \in [content : Content, deltas : SUBSET uploaded, own : {TRUE}]
       /\ OneEnvelopePerWorker(g.deltas)
       /\ \E base \in Bases : IsAggregation(g.content, base, g.deltas)
  /\ UNCHANGED uploaded

\* Another run of the same lineage publishes what it likes.
ForeignPublish ==
  /\ \E g \in Visible' : Adds(g) /\ g \in [content : Content, deltas : {{}}, own : {FALSE}]
  /\ UNCHANGED uploaded

StoreNext == Upload \/ Publish \/ ForeignPublish

StoreSpec == StoreInit /\ [][StoreNext]_storeVars
=============================================================================
