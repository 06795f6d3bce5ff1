--------------------------- MODULE AsyncWorkQueue ---------------------------
(***************************************************************************)
(* processAsyncWorkQueue (src/src/util/async-work-queue.ts): a growing     *)
(* array read through a cursor, a counter of active processors, and a      *)
(* promise that settles once.  One action per callback of the event loop:  *)
(* a processor calls enqueue, its promise settles (with or without an      *)
(* error: the catch handler), and its finally handler runs, which          *)
(* decrements the counter, compacts the array and calls schedule.  An Item *)
(* is the identity of one queued object, so no item is enqueued twice.     *)
(***************************************************************************)
EXTENDS Integers, Sequences, FiniteSets

CONSTANTS
  Item,                 \* the work items that can ever exist
  InitialItems,         \* the sequence the traversal starts from
  MaxConcurrency,       \* maxConcurrency
  CompactionThreshold,  \* QUEUE_COMPACTION_THRESHOLD, 4096 in the code
  NoFailure             \* NO_FAILURE

IsInjectiveSeq(s) == \A j, k \in DOMAIN s : s[j] = s[k] => j = k

ASSUME WorkQueueAssumption ==
  /\ InitialItems \in Seq(Item) /\ IsInjectiveSeq(InitialItems)
  /\ MaxConcurrency \in Nat \ {0}
  /\ CompactionThreshold \in Nat \ {0}
  /\ NoFailure \notin Item

VARIABLES
  queue, cursor,        \* the array and the index of the next item to start
  activeCount,
  failure,              \* the item whose error is kept, or NoFailure
  outcome,              \* "pending" until settled, then "resolved" or "rejected"
  running,              \* processors started whose promise is not settled
  settling,             \* processors settled whose finally handler has not run
  requested,            \* history: every item ever handed to the queue
  processed             \* history: items whose processor returned without error

vars == <<queue, cursor, activeCount, failure, outcome, running, settling,
          requested, processed>>

ItemsOf(s) == {s[k] : k \in DOMAIN s}

ItemsAfter(s, c) == {s[k] : k \in c + 1 .. Len(s)}
Pending == ItemsAfter(queue, cursor)

-----------------------------------------------------------------------------
Settled == outcome # "pending"

\* Mutant of BatchSize: the bound is forgotten.
MutBatchUnbounded(q, c, n) == Len(q) - c

\* How many items the while loop of schedule starts: free slots or what is left.
BatchSize(q, c, n) ==
  IF MaxConcurrency - n <= Len(q) - c THEN MaxConcurrency - n ELSE Len(q) - c

Batch(q, c, n) == {q[k] : k \in c + 1 .. c + BatchSize(q, c, n)}

\* Mutant of AnswerAfterFailure: schedule never rejects.
MutAnswerNever(n) == outcome

MayStart == failure = NoFailure
AnswerAfterFailure(n) == IF n = 0 THEN "rejected" ELSE outcome

\* schedule() with the array q, the cursor c, n active processors and the
\* processors r still running: after a failure it starts nothing and rejects
\* once nothing is active; otherwise it fills the free slots, and resolves
\* when nothing is active and nothing is queued.
Schedule(q, c, n, r) ==
  /\ queue' = q
  /\ IF MayStart
     THEN /\ cursor' = c + BatchSize(q, c, n)
          /\ activeCount' = n + BatchSize(q, c, n)
          /\ running' = r \cup Batch(q, c, n)
          /\ outcome' = IF activeCount' = 0 /\ cursor' >= Len(q)
                        THEN "resolved" ELSE outcome
     ELSE /\ outcome' = AnswerAfterFailure(n)
          /\ cursor' = c /\ activeCount' = n /\ running' = r

\* Mutants of CompactedQueue and CompactedCursor: one item too many is
\* dropped, the cursor is not moved back.
MutCompactOneMore(q, c) ==
  IF c >= CompactionThreshold /\ c * 2 >= Len(q) THEN SubSeq(q, c + 2, Len(q)) ELSE q
MutCursorKept(q, c) == c

\* compactQueue(): drop the consumed prefix once it is long enough.
MustCompact(q, c) == c >= CompactionThreshold /\ c * 2 >= Len(q)
CompactedQueue(q, c) == IF MustCompact(q, c) THEN SubSeq(q, c + 1, Len(q)) ELSE q
CompactedCursor(q, c) == IF MustCompact(q, c) THEN 0 ELSE c

-----------------------------------------------------------------------------
\* The first call of schedule() happens before the promise is returned.
Init ==
  /\ queue = InitialItems
  /\ failure = NoFailure
  /\ settling = {} /\ processed = {}
  /\ requested = ItemsOf(InitialItems)
  /\ cursor = BatchSize(InitialItems, 0, 0)
  /\ activeCount = cursor
  /\ running = Batch(InitialItems, 0, 0)
  /\ outcome = IF activeCount = 0 THEN "resolved" ELSE "pending"

\* enqueue(x) called by the processor of item i while it runs.  An iterable
\* of several items is several such steps.
Enqueue(i, x) ==
  /\ i \in running
  /\ x \notin requested
  /\ requested' = requested \cup {x}
  /\ queue' = IF failure # NoFailure \/ Settled THEN queue ELSE Append(queue, x)
  /\ UNCHANGED <<cursor, activeCount, failure, outcome, running, settling, processed>>

\* processItem(i) fulfils.
Fulfil(i) ==
  /\ i \in running
  /\ running' = running \ {i}
  /\ settling' = settling \cup {i}
  /\ processed' = processed \cup {i}
  /\ UNCHANGED <<queue, cursor, activeCount, failure, outcome, requested>>

\* Mutant of Reject: the last error wins.
MutRejectKeepsLast(i) ==
  /\ i \in running
  /\ running' = running \ {i}
  /\ settling' = settling \cup {i}
  /\ failure' = i
  /\ UNCHANGED <<queue, cursor, activeCount, outcome, requested, processed>>

\* processItem(i) rejects: the catch handler keeps only the first error.
Reject(i) ==
  /\ i \in running
  /\ running' = running \ {i}
  /\ settling' = settling \cup {i}
  /\ failure' = IF failure = NoFailure THEN i ELSE failure
  /\ UNCHANGED <<queue, cursor, activeCount, outcome, requested, processed>>

\* The finally handler of item i.  schedule() does nothing once settled.
Finally(i) ==
  /\ i \in settling
  /\ settling' = settling \ {i}
  /\ LET q == CompactedQueue(queue, cursor)
         c == CompactedCursor(queue, cursor)
         n == activeCount - 1
     IN IF Settled
        THEN /\ queue' = q /\ cursor' = c /\ activeCount' = n
             /\ UNCHANGED <<outcome, running>>
        ELSE Schedule(q, c, n, running)
  /\ UNCHANGED <<failure, requested, processed>>

\* The caller has its answer.
Done == Settled /\ UNCHANGED vars

Next ==
  \/ \E i, x \in Item : Enqueue(i, x)
  \/ \E i \in Item : Fulfil(i) \/ Reject(i) \/ Finally(i)
  \/ Done

\* The event loop runs every ready callback, and the awaited file-system
\* calls of a processor return.
Fairness == \A i \in Item : WF_vars(Fulfil(i) \/ Reject(i)) /\ WF_vars(Finally(i))

Spec == Init /\ [][Next]_vars /\ Fairness

-----------------------------------------------------------------------------
\* Types: the active counter stays natural and the cursor within the compacted
\* queue.
TypeOK ==
  /\ queue \in Seq(Item) /\ cursor \in 0 .. Len(queue)
  /\ activeCount \in Nat
  /\ failure \in Item \cup {NoFailure}
  /\ outcome \in {"pending", "resolved", "rejected"}
  /\ running \subseteq Item /\ settling \subseteq Item
  /\ requested \subseteq Item /\ processed \subseteq Item

\* The counter the bound rests on counts the processors really in flight,
\* whatever the order in which they settle, and never exceeds the bound
\* ("At most maxConcurrency processors are active").
BoundedConcurrency ==
  /\ activeCount = Cardinality(running \cup settling)
  /\ activeCount <= MaxConcurrency

\* Resolving means that every item handed to the queue, the ones discovered
\* while others ran included, was processed without error: neither compaction
\* nor a late enqueue loses one.
ResolvedMeansAllProcessed == outcome = "resolved" => processed = requested

\* The caller is never answered while a processor is still in flight.
SettledMeansQuiet == Settled => running \cup settling = {}

\* No processor starts once one has failed.
NoStartAfterFailure ==
  [][failure # NoFailure => running' \subseteq running]_vars

\* A traversal over finitely many items always answers its caller.
EventuallySettled == <>Settled

\* The queue implements the pool: in-flight items are the pool's running ones.
Pool == INSTANCE WorkPool WITH todo <- Pending, running <- running \cup settling
ImplementsPool == Pool!PoolSpec
=============================================================================
