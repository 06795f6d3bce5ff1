------------------------ MODULE AsyncWorkQueueProofs ------------------------
(***************************************************************************)
(* Proofs about AsyncWorkQueue, for any items, any concurrency bound and   *)
(* any compaction threshold.  The invariants of the runs are not inductive *)
(* alone: that the counter is right needs every queued item to be queued   *)
(* once and none of them to be in flight, and that resolving loses nothing *)
(* needs the account of where each requested item is.                      *)
(***************************************************************************)
EXTENDS AsyncWorkQueue, FiniteSetTheorems, TLAPS

InFlight == running \cup settling

\* Every item is in the queue once, and none is queued and in flight.
Distinct ==
  /\ IsInjectiveSeq(queue)
  /\ Pending \cap InFlight = {}
  /\ running \cap settling = {}
  /\ ItemsOf(queue) \cup InFlight \subseteq requested

Counted == IsFiniteSet(InFlight) /\ BoundedConcurrency

\* Until a failure every requested item is processed, in flight or queued.
Accounted ==
  failure = NoFailure =>
    /\ requested = processed \cup InFlight \cup Pending
    /\ settling \subseteq processed

Answered ==
  /\ SettledMeansQuiet
  /\ outcome = "resolved" => failure = NoFailure /\ cursor = Len(queue)

IInv == TypeOK /\ Distinct /\ Counted /\ Accounted /\ Answered

-----------------------------------------------------------------------------
\* The next b items of a queue without repetitions: there are b of them, and
\* they leave the part of the queue that is not started yet.
LEMMA NextItems ==
  ASSUME NEW q \in Seq(Item), IsInjectiveSeq(q), NEW c \in 0 .. Len(q),
         NEW b \in 0 .. Len(q) - c
  PROVE  LET B == {q[k] : k \in c + 1 .. c + b}
         IN  /\ IsFiniteSet(B) /\ Cardinality(B) = b
             /\ B \subseteq Item
             /\ ItemsAfter(q, c) = B \cup ItemsAfter(q, c + b)
             /\ B \cap ItemsAfter(q, c + b) = {}
<1> DEFINE I == c + 1 .. c + b
           R == c + b + 1 .. Len(q)
           B == {q[k] : k \in I}
           f == [k \in I |-> q[k]]
<1>0. Len(q) \in Nat /\ DOMAIN q = 1 .. Len(q) /\ b \in Nat /\ c \in Nat
  OBVIOUS
<1>1. /\ \A k \in I : k \in DOMAIN q
      /\ \A k \in R : k \in DOMAIN q
      /\ \A j \in I, k \in R : j # k
      /\ \A k : k \in c + 1 .. Len(q) <=> k \in I \/ k \in R
  BY <1>0
<1>2. IsFiniteSet(I) /\ Cardinality(I) = b
  <2>1. /\ IsFiniteSet(I)
        /\ Cardinality(I) = IF c + 1 > c + b THEN 0 ELSE (c + b) - (c + 1) + 1
    BY <1>0, FS_Interval
  <2>2. (IF c + 1 > c + b THEN 0 ELSE (c + b) - (c + 1) + 1) = b
    BY <1>0
  <2>. QED  BY <2>1, <2>2
<1> HIDE DEF I, R
<1>3. f \in Bijection(I, B)
  <2>1. f \in Injection(I, B)
    BY <1>1 DEF IsInjectiveSeq, Injection, IsInjective
  <2>2. \A y \in B : \E k \in I : f[k] = y
    OBVIOUS
  <2>. QED  BY <2>1, <2>2 DEF Bijection, Surjection, Injection
<1>4. IsFiniteSet(B) /\ Cardinality(B) = b
  BY <1>2, <1>3, FS_Bijection DEF ExistsBijection
<1>5. ItemsAfter(q, c + b) = {q[k] : k \in R}
  BY DEF ItemsAfter, R
<1>6. ItemsAfter(q, c) = {q[k] : k \in I \cup R}
  BY <1>1 DEF ItemsAfter
<1>7. \A j \in I, k \in R : q[j] # q[k]
  BY <1>1 DEF IsInjectiveSeq
<1>8. B \subseteq Item
  BY <1>0, <1>1
<1>9. /\ ItemsAfter(q, c) = B \cup ItemsAfter(q, c + b)
      /\ B \cap ItemsAfter(q, c + b) = {}
  BY <1>5, <1>6, <1>7
<1>. QED  BY <1>4, <1>8, <1>9 DEF I

\* What schedule starts: as many different items as there are free slots or
\* queued items, all of them from the part of the queue not started yet.
LEMMA BatchFacts ==
  ASSUME NEW q \in Seq(Item), IsInjectiveSeq(q), NEW c \in 0 .. Len(q),
         NEW n \in Nat, n <= MaxConcurrency
  PROVE  /\ BatchSize(q, c, n) \in 0 .. Len(q) - c
         /\ n + BatchSize(q, c, n) <= MaxConcurrency
         /\ n + BatchSize(q, c, n) = 0 => c + BatchSize(q, c, n) = Len(q)
         /\ Batch(q, c, n) \subseteq Item
         /\ IsFiniteSet(Batch(q, c, n))
         /\ Cardinality(Batch(q, c, n)) = BatchSize(q, c, n)
         /\ ItemsAfter(q, c) = Batch(q, c, n) \cup ItemsAfter(q, c + BatchSize(q, c, n))
         /\ Batch(q, c, n) \cap ItemsAfter(q, c + BatchSize(q, c, n)) = {}
<1>1. /\ BatchSize(q, c, n) \in 0 .. Len(q) - c
      /\ n + BatchSize(q, c, n) <= MaxConcurrency
      /\ n + BatchSize(q, c, n) = 0 => c + BatchSize(q, c, n) = Len(q)
  BY WorkQueueAssumption DEF BatchSize
<1> DEFINE b == BatchSize(q, c, n)
<1>2. b \in 0 .. Len(q) - c
  BY <1>1
<1> HIDE DEF b
<1>3. LET B == {q[k] : k \in c + 1 .. c + b}
      IN  /\ IsFiniteSet(B) /\ Cardinality(B) = b
          /\ B \subseteq Item
          /\ ItemsAfter(q, c) = B \cup ItemsAfter(q, c + b)
          /\ B \cap ItemsAfter(q, c + b) = {}
  BY <1>2, NextItems
<1>. QED  BY <1>1, <1>3 DEF Batch, b

\* Compaction drops started items only, and moves the cursor with them.
LEMMA CompactionFacts ==
  ASSUME NEW q \in Seq(Item), IsInjectiveSeq(q), NEW c \in 0 .. Len(q)
  PROVE  /\ CompactedQueue(q, c) \in Seq(Item)
         /\ IsInjectiveSeq(CompactedQueue(q, c))
         /\ CompactedCursor(q, c) \in 0 .. Len(CompactedQueue(q, c))
         /\ ItemsOf(CompactedQueue(q, c)) \subseteq ItemsOf(q)
         /\ ItemsAfter(CompactedQueue(q, c), CompactedCursor(q, c)) = ItemsAfter(q, c)
<1>1. CASE ~MustCompact(q, c)
  BY <1>1 DEF CompactedQueue, CompactedCursor
<1>2. CASE MustCompact(q, c)
  <2> DEFINE s == SubSeq(q, c + 1, Len(q))
  <2>1. CompactedQueue(q, c) = s /\ CompactedCursor(q, c) = 0
    BY <1>2 DEF CompactedQueue, CompactedCursor
  <2>2. /\ s \in Seq(Item) /\ Len(s) = Len(q) - c /\ DOMAIN s = 1 .. Len(q) - c
        /\ \A k \in 1 .. Len(q) - c : s[k] = q[c + k]
    OBVIOUS
  <2> HIDE DEF s
  <2>3. IsInjectiveSeq(s)
    <3> SUFFICES ASSUME NEW j \in 1 .. Len(q) - c, NEW k \in 1 .. Len(q) - c, s[j] = s[k]
                 PROVE  j = k
      BY <2>2 DEF IsInjectiveSeq
    <3>1. q[c + j] = q[c + k] /\ c + j \in DOMAIN q /\ c + k \in DOMAIN q
      BY <2>2
    <3>2. c + j = c + k
      BY <3>1 DEF IsInjectiveSeq
    <3>. QED  BY <3>2
  <2>4. ItemsAfter(s, 0) = ItemsAfter(q, c) /\ ItemsOf(s) = ItemsAfter(q, c)
    <3>1. \A k \in c + 1 .. Len(q) : k - c \in 1 .. Len(q) - c /\ s[k - c] = q[k]
      BY <2>2
    <3>2. \A k \in 1 .. Len(q) - c : c + k \in c + 1 .. Len(q) /\ s[k] = q[c + k]
      BY <2>2
    <3>3. {s[k] : k \in 1 .. Len(q) - c} = {q[k] : k \in c + 1 .. Len(q)}
      BY <3>1, <3>2
    <3>4. DOMAIN s = 1 .. Len(q) - c /\ 0 + 1 .. Len(s) = 1 .. Len(q) - c
      BY <2>2
    <3>. QED  BY <3>3, <3>4 DEF ItemsOf, ItemsAfter
  <2>5. ItemsAfter(q, c) \subseteq ItemsOf(q)
    BY DEF ItemsAfter, ItemsOf
  <2>6. 0 \in 0 .. Len(s)
    BY <2>2
  <2>. QED  BY <2>1, <2>2, <2>3, <2>4, <2>5, <2>6
<1>. QED  BY <1>1, <1>2

\* A discovered item joins the end of the queue and only what is pending.
LEMMA AppendFacts ==
  ASSUME NEW q \in Seq(Item), IsInjectiveSeq(q), NEW c \in 0 .. Len(q),
         NEW x \in Item, x \notin ItemsOf(q)
  PROVE  /\ Append(q, x) \in Seq(Item)
         /\ IsInjectiveSeq(Append(q, x))
         /\ c \in 0 .. Len(Append(q, x))
         /\ ItemsOf(Append(q, x)) = ItemsOf(q) \cup {x}
         /\ ItemsAfter(Append(q, x), c) = ItemsAfter(q, c) \cup {x}
<1> DEFINE s == Append(q, x)
<1>1. /\ s \in Seq(Item) /\ Len(s) = Len(q) + 1 /\ DOMAIN s = 1 .. Len(q) + 1
      /\ \A k \in 1 .. Len(q) : s[k] = q[k]
      /\ s[Len(q) + 1] = x
  OBVIOUS
<1>2. DOMAIN q = 1 .. Len(q) /\ Len(q) \in Nat
  OBVIOUS
<1> HIDE DEF s
<1>3. \A k \in 1 .. Len(q) : s[k] # x
  BY <1>1, <1>2 DEF ItemsOf
<1>4. IsInjectiveSeq(s)
  <2> SUFFICES ASSUME NEW j \in DOMAIN s, NEW k \in DOMAIN s, s[j] = s[k]
               PROVE  j = k
    BY DEF IsInjectiveSeq
  <2>1. CASE j \in 1 .. Len(q) /\ k \in 1 .. Len(q)
    BY <1>1, <1>2, <2>1 DEF IsInjectiveSeq
  <2>2. CASE j = Len(q) + 1 /\ k = Len(q) + 1
    BY <2>2
  <2>3. CASE (j \in 1 .. Len(q)) # (k \in 1 .. Len(q))
    BY <1>1, <1>2, <1>3, <2>3
  <2>. QED  BY <1>1, <1>2, <2>1, <2>2, <2>3
<1>5. ItemsOf(s) = ItemsOf(q) \cup {x}
  <2>1. \A k \in DOMAIN s : s[k] \in ItemsOf(q) \cup {x}
    BY <1>1, <1>2 DEF ItemsOf
  <2>2. \A k \in DOMAIN q : k \in DOMAIN s /\ s[k] = q[k]
    BY <1>1, <1>2
  <2>3. Len(q) + 1 \in DOMAIN s
    BY <1>1, <1>2
  <2>. QED  BY <1>1, <2>1, <2>2, <2>3 DEF ItemsOf
<1>6. ItemsAfter(s, c) = ItemsAfter(q, c) \cup {x}
  <2>1. \A k \in c + 1 .. Len(s) : s[k] \in ItemsAfter(q, c) \cup {x}
    <3> TAKE k \in c + 1 .. Len(s)
    <3>1. CASE k = Len(q) + 1
      BY <1>1, <3>1
    <3>2. CASE k \in c + 1 .. Len(q)
      BY <1>1, <1>2, <3>2 DEF ItemsAfter
    <3>. QED  BY <1>1, <1>2, <3>1, <3>2
  <2>2. \A k \in c + 1 .. Len(q) : k \in c + 1 .. Len(s) /\ s[k] = q[k]
    BY <1>1, <1>2
  <2>3. Len(q) + 1 \in c + 1 .. Len(s)
    BY <1>1, <1>2
  <2>. QED  BY <1>1, <2>1, <2>2, <2>3 DEF ItemsAfter
<1>7. c \in 0 .. Len(s)
  BY <1>1, <1>2
<1>. QED  BY <1>1, <1>4, <1>5, <1>6, <1>7 DEF s

-----------------------------------------------------------------------------
\* The first call of schedule establishes the invariant.
LEMMA InitIInv == Init => IInv
<1> SUFFICES ASSUME Init PROVE IInv
  OBVIOUS
<1> DEFINE b == BatchSize(InitialItems, 0, 0)
           B == Batch(InitialItems, 0, 0)
<1>1. /\ InitialItems \in Seq(Item) /\ IsInjectiveSeq(InitialItems)
      /\ 0 \in 0 .. Len(InitialItems) /\ 0 \in Nat /\ 0 <= MaxConcurrency
      /\ NoFailure \notin Item
  BY WorkQueueAssumption
<1>2. /\ b \in 0 .. Len(InitialItems) - 0
      /\ 0 + b <= MaxConcurrency
      /\ 0 + b = 0 => 0 + b = Len(InitialItems)
      /\ B \subseteq Item
      /\ IsFiniteSet(B) /\ Cardinality(B) = b
      /\ ItemsAfter(InitialItems, 0) = B \cup ItemsAfter(InitialItems, 0 + b)
      /\ B \cap ItemsAfter(InitialItems, 0 + b) = {}
  BY <1>1, BatchFacts
<1>3. /\ queue = InitialItems /\ cursor = b /\ activeCount = b
      /\ failure = NoFailure /\ settling = {} /\ processed = {} /\ running = B
      /\ requested = ItemsOf(InitialItems)
      /\ outcome = IF b = 0 THEN "resolved" ELSE "pending"
  BY DEF Init
<1>4. ItemsAfter(InitialItems, 0) = ItemsOf(InitialItems) /\ ItemsOf(InitialItems) \subseteq Item
  <2>1. DOMAIN InitialItems = 0 + 1 .. Len(InitialItems)
    BY <1>1
  <2>. QED  BY <1>1, <2>1 DEF ItemsAfter, ItemsOf
<1> HIDE DEF b, B
<1>5. b \in Nat /\ 0 + b = b /\ Len(InitialItems) - 0 = Len(InitialItems)
  BY <1>1, <1>2
<1>6. Pending = ItemsAfter(InitialItems, b) /\ InFlight = B
  BY <1>3 DEF Pending, InFlight
<1>7. TypeOK
  BY <1>1, <1>2, <1>3, <1>4, <1>5 DEF TypeOK
<1>8. Distinct
  BY <1>1, <1>2, <1>3, <1>4, <1>5, <1>6 DEF Distinct
<1>9. Counted
  BY <1>2, <1>3, <1>5, <1>6 DEF Counted, BoundedConcurrency, InFlight
<1>10. Accounted
  BY <1>2, <1>3, <1>4, <1>5, <1>6 DEF Accounted
<1>11. Answered
  <2>1. b = 0 => B = {}
    BY <1>2, FS_EmptySet
  <2>. QED  BY <1>2, <1>3, <1>5, <1>6, <2>1 DEF Answered, SettledMeansQuiet, Settled, InFlight
<1>. QED  BY <1>7, <1>8, <1>9, <1>10, <1>11 DEF IInv

\* Nothing in flight any more: no callback of a processor is left to run.
LEMMA InFlightMeansPending == IInv /\ InFlight # {} => ~Settled
  BY DEF IInv, Answered, SettledMeansQuiet, InFlight

LEMMA EnqueueIInv ==
  ASSUME IInv, NEW i \in Item, NEW x \in Item, Enqueue(i, x)
  PROVE  IInv'
<1>1. ~Settled /\ i \in running
  BY InFlightMeansPending DEF Enqueue, InFlight
<1>2. /\ x \notin ItemsOf(queue) /\ x \notin InFlight /\ requested' = requested \cup {x}
      /\ UNCHANGED <<cursor, activeCount, failure, outcome, running, settling, processed>>
  BY DEF Enqueue, IInv, Distinct
<1>3. InFlight' = InFlight /\ Settled' = Settled
  BY <1>2 DEF InFlight, Settled
<1>4. CASE failure # NoFailure
  <2>1. queue' = queue /\ Pending' = Pending
    BY <1>2, <1>4 DEF Enqueue, Pending
  <2>. QED
    BY <1>1, <1>2, <1>3, <1>4, <2>1
    DEF IInv, TypeOK, Distinct, Counted, BoundedConcurrency, Accounted, Answered,
        SettledMeansQuiet, InFlight, Settled, ItemsOf
<1>5. CASE failure = NoFailure
  <2>1. queue' = Append(queue, x)
    BY <1>1, <1>5 DEF Enqueue
  <2>2. queue \in Seq(Item) /\ cursor \in 0 .. Len(queue) /\ IsInjectiveSeq(queue)
    BY DEF IInv, TypeOK, Distinct
  <2>3. /\ queue' \in Seq(Item) /\ IsInjectiveSeq(queue') /\ cursor' \in 0 .. Len(queue')
        /\ ItemsOf(queue') = ItemsOf(queue) \cup {x}
        /\ ItemsAfter(queue', cursor') = ItemsAfter(queue, cursor) \cup {x}
    BY <1>2, <2>1, <2>2, AppendFacts
  <2>4. Pending' = Pending \cup {x}
    BY <2>3 DEF Pending
  <2>5. TypeOK'
    BY <1>2, <2>3 DEF IInv, TypeOK
  <2>6. Distinct'
    BY <1>2, <1>3, <2>3, <2>4 DEF IInv, Distinct, InFlight
  <2>7. Counted'
    BY <1>2, <1>3 DEF IInv, Counted, BoundedConcurrency, InFlight
  <2>8. Accounted'
    BY <1>2, <1>3, <2>4 DEF IInv, Accounted
  <2>9. Answered'
    BY <1>1, <1>2, <1>3 DEF IInv, Answered, SettledMeansQuiet, Settled
  <2>. QED  BY <2>5, <2>6, <2>7, <2>8, <2>9 DEF IInv
<1>. QED  BY <1>4, <1>5

\* A processor settles: it only moves from running to settling.
LEMMA SettleIInv ==
  ASSUME IInv, NEW i \in Item, Fulfil(i) \/ Reject(i)
  PROVE  IInv'
<1>1. ~Settled /\ i \in running
  BY InFlightMeansPending DEF Fulfil, Reject, InFlight
<1>2. /\ running' = running \ {i} /\ settling' = settling \cup {i}
      /\ UNCHANGED <<queue, cursor, activeCount, outcome, requested>>
  BY DEF Fulfil, Reject
<1>3. InFlight' = InFlight /\ Pending' = Pending /\ ~Settled'
  BY <1>1, <1>2 DEF InFlight, Pending, Settled
<1>4. \/ failure' = failure /\ processed' = processed \cup {i}
      \/ failure' # NoFailure /\ failure' \in Item /\ processed' = processed
  BY WorkQueueAssumption DEF Fulfil, Reject, IInv, TypeOK
<1>5. TypeOK'
  BY <1>2, <1>4 DEF IInv, TypeOK
<1>6. Distinct'
  BY <1>2, <1>3 DEF IInv, Distinct, ItemsOf
<1>7. Counted'
  BY <1>2, <1>3 DEF IInv, Counted, BoundedConcurrency, InFlight
<1>8. Accounted'
  BY <1>1, <1>2, <1>3, <1>4 DEF IInv, Accounted, InFlight
<1>9. Answered'
  BY <1>3 DEF Answered, SettledMeansQuiet, Settled
<1>. QED  BY <1>5, <1>6, <1>7, <1>8, <1>9 DEF IInv

\* The finally handler of an item: what remains in flight, the compacted queue,
\* and the batch that schedule() takes from it.
LEMMA FinallyFacts ==
  ASSUME IInv, NEW i \in Item, Finally(i)
  PROVE  LET q == CompactedQueue(queue, cursor)
             c == CompactedCursor(queue, cursor)
             n == activeCount - 1
             b == BatchSize(q, c, n)
             B == Batch(q, c, n)
             rest == running \cup settling'
         IN /\ ~Settled /\ i \in settling /\ settling' = settling \ {i}
            /\ failure' = failure /\ requested' = requested /\ processed' = processed
            /\ q \in Seq(Item) /\ IsInjectiveSeq(q) /\ c \in 0 .. Len(q)
            /\ ItemsOf(q) \subseteq ItemsOf(queue) /\ ItemsAfter(q, c) = Pending
            /\ rest = InFlight \ {i} /\ IsFiniteSet(rest)
            /\ n = Cardinality(rest) /\ n \in Nat /\ n <= MaxConcurrency
            /\ b \in 0 .. Len(q) - c /\ n + b <= MaxConcurrency
            /\ n + b = 0 => c + b = Len(q)
            /\ B \subseteq Item /\ IsFiniteSet(B) /\ Cardinality(B) = b
            /\ Pending = B \cup ItemsAfter(q, c + b)
            /\ B \cap ItemsAfter(q, c + b) = {}
            /\ \/ /\ failure = NoFailure
                  /\ queue' = q /\ cursor' = c + b /\ activeCount' = n + b
                  /\ running' = running \cup B
                  /\ outcome' = IF n + b = 0 /\ c + b >= Len(q) THEN "resolved" ELSE outcome
               \/ /\ failure # NoFailure
                  /\ queue' = q /\ cursor' = c /\ activeCount' = n /\ running' = running
                  /\ outcome' = IF n = 0 THEN "rejected" ELSE outcome
<1> DEFINE q == CompactedQueue(queue, cursor)
           c == CompactedCursor(queue, cursor)
           n == activeCount - 1
           b == BatchSize(q, c, n)
           B == Batch(q, c, n)
<1>1. /\ ~Settled /\ i \in settling /\ settling' = settling \ {i}
      /\ Schedule(q, c, n, running)
      /\ failure' = failure /\ requested' = requested /\ processed' = processed
  BY InFlightMeansPending DEF Finally, InFlight
<1>2. /\ q \in Seq(Item) /\ IsInjectiveSeq(q) /\ c \in 0 .. Len(q)
      /\ ItemsOf(q) \subseteq ItemsOf(queue) /\ ItemsAfter(q, c) = Pending
  BY CompactionFacts DEF IInv, TypeOK, Distinct, Pending
<1> DEFINE rest == running \cup settling'
<1>3. /\ rest = InFlight \ {i} /\ IsFiniteSet(rest)
      /\ n = Cardinality(rest) /\ n \in Nat /\ n <= MaxConcurrency
  <2>1. i \in InFlight /\ rest = InFlight \ {i}
    BY <1>1 DEF IInv, Distinct, InFlight
  <2>2. /\ IsFiniteSet(InFlight) /\ Cardinality(InFlight) = activeCount
        /\ activeCount <= MaxConcurrency /\ activeCount \in Nat
    BY DEF IInv, TypeOK, Counted, BoundedConcurrency, InFlight
  <2>3. IsFiniteSet(rest) /\ Cardinality(rest) = activeCount - 1
    BY <2>1, <2>2, FS_RemoveElement
  <2>4. Cardinality(rest) \in Nat
    BY <2>3, FS_CardinalityType
  <2>. QED  BY <2>1, <2>2, <2>3, <2>4, WorkQueueAssumption
<1>4. /\ b \in 0 .. Len(q) - c /\ n + b <= MaxConcurrency
      /\ n + b = 0 => c + b = Len(q)
      /\ B \subseteq Item /\ IsFiniteSet(B) /\ Cardinality(B) = b
      /\ Pending = B \cup ItemsAfter(q, c + b)
      /\ B \cap ItemsAfter(q, c + b) = {}
  BY <1>2, <1>3, BatchFacts
<1>5. \/ /\ failure = NoFailure
         /\ queue' = q /\ cursor' = c + b /\ activeCount' = n + b
         /\ running' = running \cup B
         /\ outcome' = IF n + b = 0 /\ c + b >= Len(q) THEN "resolved" ELSE outcome
      \/ /\ failure # NoFailure
         /\ queue' = q /\ cursor' = c /\ activeCount' = n /\ running' = running
         /\ outcome' = IF n = 0 THEN "rejected" ELSE outcome
  BY <1>1 DEF Schedule, MayStart, AnswerAfterFailure
<1>. QED  BY <1>1, <1>2, <1>3, <1>4, <1>5

LEMMA FinallyIInv ==
  ASSUME IInv, NEW i \in Item, Finally(i)
  PROVE  IInv'
<1> DEFINE q == CompactedQueue(queue, cursor)
           c == CompactedCursor(queue, cursor)
           n == activeCount - 1
           b == BatchSize(q, c, n)
           B == Batch(q, c, n)
           rest == running \cup settling'
<1>1. /\ ~Settled /\ i \in settling /\ settling' = settling \ {i}
      /\ failure' = failure /\ requested' = requested /\ processed' = processed
  BY FinallyFacts
<1>2. /\ q \in Seq(Item) /\ IsInjectiveSeq(q) /\ c \in 0 .. Len(q)
      /\ ItemsOf(q) \subseteq ItemsOf(queue) /\ ItemsAfter(q, c) = Pending
  BY FinallyFacts
<1>3. /\ rest = InFlight \ {i} /\ IsFiniteSet(rest)
      /\ n = Cardinality(rest) /\ n \in Nat /\ n <= MaxConcurrency
  BY FinallyFacts
<1>4. /\ b \in 0 .. Len(q) - c /\ n + b <= MaxConcurrency
      /\ n + b = 0 => c + b = Len(q)
      /\ B \subseteq Item /\ IsFiniteSet(B) /\ Cardinality(B) = b
      /\ Pending = B \cup ItemsAfter(q, c + b)
      /\ B \cap ItemsAfter(q, c + b) = {}
  BY FinallyFacts
<1>5. \/ /\ failure = NoFailure
         /\ queue' = q /\ cursor' = c + b /\ activeCount' = n + b
         /\ running' = running \cup B
         /\ outcome' = IF n + b = 0 /\ c + b >= Len(q) THEN "resolved" ELSE outcome
      \/ /\ failure # NoFailure
         /\ queue' = q /\ cursor' = c /\ activeCount' = n /\ running' = running
         /\ outcome' = IF n = 0 THEN "rejected" ELSE outcome
  BY FinallyFacts
<1> HIDE DEF q, c, n, b, B
<1>6. outcome = "pending"
  BY <1>1 DEF Settled
<1>7. CASE failure = NoFailure
  <2>1. /\ queue' = q /\ cursor' = c + b /\ activeCount' = n + b
        /\ running' = running \cup B
        /\ outcome' = IF n + b = 0 /\ c + b >= Len(q) THEN "resolved" ELSE outcome
    BY <1>5, <1>7
  <2>2. InFlight' = rest \cup B /\ Pending' = ItemsAfter(q, c + b)
    BY <2>1 DEF InFlight, Pending
  <2>3. rest \cap B = {} /\ running \cap settling = {}
    BY <1>3, <1>4 DEF IInv, Distinct
  <2>4. c + b \in 0 .. Len(q) /\ n + b \in Nat
    BY <1>2, <1>3, <1>4
  <2>5. TypeOK'
    BY <1>1, <1>2, <1>4, <1>6, <2>1, <2>4 DEF IInv, TypeOK
  <2>6. Distinct'
    <3>1. Pending \subseteq ItemsOf(queue)
      <4>1. \A k \in cursor + 1 .. Len(queue) : k \in DOMAIN queue
        BY DEF IInv, TypeOK
      <4>. QED  BY <4>1 DEF Pending, ItemsAfter, ItemsOf
    <3>2. rest \cup B \subseteq requested /\ ItemsOf(q) \subseteq requested
      BY <1>2, <1>3, <1>4, <3>1 DEF IInv, Distinct
    <3>3. Pending' \cap InFlight' = {}
      BY <1>3, <1>4, <2>2 DEF IInv, Distinct
    <3>4. running' \cap settling' = {}
      BY <1>1, <1>4, <2>1, <2>3 DEF IInv, Distinct, InFlight
    <3>5. ItemsOf(queue') = ItemsOf(q) /\ IsInjectiveSeq(queue')
      BY <1>2, <2>1
    <3>. QED  BY <1>1, <2>2, <3>2, <3>3, <3>4, <3>5 DEF Distinct
  <2>7. Counted'
    <3>1. IsFiniteSet(rest \cup B) /\ Cardinality(rest \cup B) = n + b
      <4>1. /\ IsFiniteSet(rest \cup B)
            /\ Cardinality(rest \cup B) = Cardinality(rest) + Cardinality(B) - Cardinality(rest \cap B)
        BY <1>3, <1>4, FS_Union
      <4>2. Cardinality(rest \cap B) = 0
        BY <2>3, FS_EmptySet
      <4>3. b \in Nat
        BY <1>2, <1>4
      <4>. QED  BY <1>3, <1>4, <4>1, <4>2, <4>3
    <3>. QED  BY <1>4, <2>1, <2>2, <3>1 DEF Counted, BoundedConcurrency, InFlight
  <2>8. Accounted'
    BY <1>1, <1>3, <1>4, <1>7, <2>2 DEF IInv, Accounted
  <2>9. Answered'
    <3>1. n + b = 0 => rest \cup B = {} /\ c + b = Len(q)
      <4>1. n + b = 0 => Cardinality(rest) = 0 /\ Cardinality(B) = 0
        BY <1>2, <1>3, <1>4
      <4>. QED  BY <1>3, <1>4, <4>1, FS_EmptySet
    <3>. QED  BY <1>1, <1>6, <1>7, <2>1, <2>2, <3>1
              DEF Answered, SettledMeansQuiet, Settled, InFlight
  <2>. QED  BY <2>5, <2>6, <2>7, <2>8, <2>9 DEF IInv
<1>8. CASE failure # NoFailure
  <2>1. /\ queue' = q /\ cursor' = c /\ activeCount' = n /\ running' = running
        /\ outcome' = IF n = 0 THEN "rejected" ELSE outcome
    BY <1>5, <1>8
  <2>2. InFlight' = rest /\ Pending' = Pending
    BY <1>2, <2>1 DEF InFlight, Pending
  <2>3. TypeOK'
    BY <1>1, <1>2, <1>3, <1>6, <2>1 DEF IInv, TypeOK
  <2>4. Distinct'
    BY <1>1, <1>2, <1>3, <2>1, <2>2 DEF IInv, Distinct, ItemsOf
  <2>5. Counted'
    BY <1>3, <2>1, <2>2 DEF Counted, BoundedConcurrency, InFlight
  <2>6. Accounted'
    BY <1>1, <1>8 DEF Accounted
  <2>7. Answered'
    <3>1. n = 0 => rest = {}
      BY <1>3, FS_EmptySet
    <3>. QED  BY <1>6, <2>1, <2>2, <3>1 DEF Answered, SettledMeansQuiet, Settled, InFlight
  <2>. QED  BY <2>3, <2>4, <2>5, <2>6, <2>7 DEF IInv
<1>. QED  BY <1>7, <1>8

LEMMA StutterIInv == ASSUME IInv, UNCHANGED vars PROVE IInv'
  BY DEF vars, IInv, TypeOK, Distinct, Counted, BoundedConcurrency, Accounted, Answered,
         SettledMeansQuiet, Settled, InFlight, Pending, ItemsAfter, ItemsOf, IsInjectiveSeq

LEMMA NextIInv == IInv /\ [Next]_vars => IInv'
<1> SUFFICES ASSUME IInv, [Next]_vars PROVE IInv'
  OBVIOUS
<1>1. CASE \E i, x \in Item : Enqueue(i, x)
  BY <1>1, EnqueueIInv
<1>2. CASE \E i \in Item : Fulfil(i) \/ Reject(i)
  BY <1>2, SettleIInv
<1>3. CASE \E i \in Item : Finally(i)
  BY <1>3, FinallyIInv
<1>4. CASE Done \/ UNCHANGED vars
  BY <1>4, StutterIInv DEF Done
<1>. QED  BY <1>1, <1>2, <1>3, <1>4 DEF Next

-----------------------------------------------------------------------------
\* The inductive invariant holds in every reachable state.
THEOREM SpecIInv == Spec => []IInv
  BY InitIInv, NextIInv, PTL DEF Spec

\* The state of the queue always has its type: the counter never goes below
\* zero and the cursor never passes the end of the compacted array.
THEOREM SpecTypeOK == Spec => []TypeOK
<1>1. IInv => TypeOK
  BY DEF IInv
<1>. QED  BY <1>1, SpecIInv, PTL

\* activeCount counts the processors in flight, at most maxConcurrency.
THEOREM SpecBoundedConcurrency == Spec => []BoundedConcurrency
<1>1. IInv => BoundedConcurrency
  BY DEF IInv, Counted
<1>. QED  BY <1>1, SpecIInv, PTL

\* Resolving loses no item, whatever was compacted or enqueued late.
THEOREM SpecResolvedMeansAllProcessed == Spec => []ResolvedMeansAllProcessed
<1>1. IInv => ResolvedMeansAllProcessed
  <2> SUFFICES ASSUME IInv, outcome = "resolved" PROVE processed = requested
    BY DEF ResolvedMeansAllProcessed
  <2>1. InFlight = {} /\ failure = NoFailure /\ cursor = Len(queue)
    BY DEF IInv, Answered, SettledMeansQuiet, Settled, InFlight
  <2>2. Pending = {}
    <3>1. Len(queue) \in Nat
      BY DEF IInv, TypeOK
    <3>. QED  BY <2>1, <3>1 DEF Pending, ItemsAfter
  <2>. QED  BY <2>1, <2>2 DEF IInv, Accounted
<1>. QED  BY <1>1, SpecIInv, PTL

\* The caller is answered only when no processor is in flight.
THEOREM SpecSettledMeansQuiet == Spec => []SettledMeansQuiet
<1>1. IInv => SettledMeansQuiet
  BY DEF IInv, Answered
<1>. QED  BY <1>1, SpecIInv, PTL

\* No processor starts after the first failure.
THEOREM SpecNoStartAfterFailure == Spec => NoStartAfterFailure
<1>1. [Next]_vars => [failure # NoFailure => running' \subseteq running]_vars
  BY DEF Next, Enqueue, Fulfil, Reject, Finally, Schedule, MayStart, Done, vars
<1>. QED  BY <1>1, PTL DEF Spec, NoStartAfterFailure
-----------------------------------------------------------------------------
\* The instance has the cardinality of finite sets under a name of its own.
LEMMA PoolCardinality == \A S : Pool!Cardinality(S) = Cardinality(S)
  BY DEF Pool!Cardinality, Cardinality

\* The pool's items are those queued, its running ones those in flight.
LEMMA InitPool == Init => Pool!PoolInit
<1> SUFFICES ASSUME Init PROVE Pool!PoolInit
  OBVIOUS
<1>1. IInv /\ settling = {} /\ failure = NoFailure
  BY InitIInv DEF Init
<1>2. /\ InFlight \subseteq Item /\ Pending \subseteq Item /\ Pending \cap InFlight = {}
      /\ Cardinality(InFlight) <= MaxConcurrency
  <2>1. \A k \in cursor + 1 .. Len(queue) : k \in DOMAIN queue /\ queue[k] \in Item
    BY <1>1 DEF IInv, TypeOK
  <2>. QED
    BY <1>1, <2>1
    DEF IInv, TypeOK, Distinct, Counted, BoundedConcurrency, InFlight, Pending, ItemsAfter
<1>3. outcome = IF Pending \cup InFlight = {} THEN "resolved" ELSE "pending"
  <2>1. CASE activeCount = 0
    <3>1. InFlight = {} /\ outcome = "resolved"
      BY <1>1, <2>1, FS_EmptySet DEF Init, IInv, Counted, BoundedConcurrency, InFlight
    <3>2. cursor = Len(queue) /\ Len(queue) \in Nat
      BY <1>1, <3>1 DEF IInv, Answered, TypeOK
    <3>3. Pending = {}
      BY <3>2 DEF Pending, ItemsAfter
    <3>. QED  BY <3>1, <3>3
  <2>2. CASE activeCount # 0
    <3>1. InFlight # {} /\ outcome = "pending"
      BY <1>1, <2>2, FS_EmptySet DEF Init, IInv, Counted, BoundedConcurrency, InFlight
    <3>. QED  BY <3>1
  <2>. QED  BY <2>1, <2>2
<1>. QED  BY <1>1, <1>2, <1>3, PoolCardinality DEF Pool!PoolInit, InFlight

LEMMA EnqueuePool ==
  ASSUME IInv, NEW i \in Item, NEW x \in Item, Enqueue(i, x)
  PROVE  Pool!Accept(x) \/ UNCHANGED <<Pending, InFlight, failure, outcome>>
<1>1. ~Settled /\ i \in running /\ x \notin ItemsOf(queue) /\ x \notin InFlight
      /\ UNCHANGED <<cursor, failure, outcome, running, settling>>
  BY InFlightMeansPending DEF Enqueue, IInv, Distinct, InFlight
<1>2. CASE failure # NoFailure
  BY <1>1, <1>2 DEF Enqueue, Pending, InFlight
<1>3. CASE failure = NoFailure
  <2>1. queue \in Seq(Item) /\ cursor \in 0 .. Len(queue) /\ IsInjectiveSeq(queue)
        /\ queue' = Append(queue, x)
    BY <1>1, <1>3 DEF IInv, TypeOK, Distinct, Enqueue
  <2>2. Pending' = Pending \cup {x}
    BY <1>1, <2>1, AppendFacts DEF Pending
  <2>3. x \notin Pending
    <3>1. \A k \in cursor + 1 .. Len(queue) : k \in DOMAIN queue
      BY <2>1
    <3>. QED  BY <1>1, <3>1 DEF Pending, ItemsAfter, ItemsOf
  <2>. QED  BY <1>1, <1>3, <2>2, <2>3 DEF Pool!Accept, InFlight, Settled
<1>. QED  BY <1>2, <1>3

\* Only the first rejection is seen outside.
LEMMA SettlePool ==
  ASSUME IInv, NEW i \in Item, Fulfil(i) \/ Reject(i)
  PROVE  Pool!Fail(i) \/ UNCHANGED <<Pending, InFlight, failure, outcome>>
<1>1. /\ i \in InFlight /\ InFlight' = InFlight /\ Pending' = Pending /\ outcome' = outcome
      /\ failure' = failure \/ (failure = NoFailure /\ failure' = i)
  BY DEF Fulfil, Reject, InFlight, Pending
<1>. QED  BY <1>1 DEF Pool!Fail, InFlight

\* Compaction is invisible; the batch started is one the pool may start.
LEMMA FinallyPool ==
  ASSUME IInv, NEW i \in Item, Finally(i)
  PROVE  Pool!Leave(i)
<1> DEFINE q == CompactedQueue(queue, cursor)
           c == CompactedCursor(queue, cursor)
           n == activeCount - 1
           b == BatchSize(q, c, n)
           B == Batch(q, c, n)
           rest == running \cup settling'
<1>1. /\ ~Settled /\ i \in settling /\ failure' = failure /\ c \in 0 .. Len(q)
      /\ rest = InFlight \ {i} /\ IsFiniteSet(rest) /\ n = Cardinality(rest) /\ n \in Nat
      /\ b \in 0 .. Len(q) - c /\ IsFiniteSet(B) /\ Cardinality(B) = b
      /\ n + b = 0 => c + b = Len(q)
      /\ ItemsAfter(q, c) = Pending /\ q \in Seq(Item)
      /\ Pending = B \cup ItemsAfter(q, c + b) /\ B \cap ItemsAfter(q, c + b) = {}
  BY FinallyFacts
<1>2. \/ /\ failure = NoFailure
         /\ queue' = q /\ cursor' = c + b /\ running' = running \cup B
         /\ outcome' = IF n + b = 0 /\ c + b >= Len(q) THEN "resolved" ELSE outcome
      \/ /\ failure # NoFailure
         /\ queue' = q /\ cursor' = c /\ running' = running
         /\ outcome' = IF n = 0 THEN "rejected" ELSE outcome
  BY FinallyFacts
<1> HIDE DEF q, c, n, b, B
<1>3. i \in InFlight /\ outcome = "pending" /\ b \in Nat
  BY <1>1 DEF InFlight, Settled
<1>4. IInv' /\ Cardinality(InFlight') <= MaxConcurrency
  BY FinallyIInv DEF IInv, Counted, BoundedConcurrency, InFlight
<1>5. (n = 0 <=> rest = {}) /\ (b = 0 <=> B = {})
  BY <1>1, FS_EmptySet
<1>6. CASE failure = NoFailure
  <2>1. InFlight' = (InFlight \ {i}) \cup B /\ Pending' = Pending \ B /\ B \subseteq Pending
    BY <1>1, <1>2, <1>6 DEF InFlight, Pending
  <2>2. InFlight' = {} <=> n + b = 0
    BY <1>1, <1>3, <1>5, <2>1
  <2>3. outcome' = IF InFlight' # {} THEN "pending" ELSE "resolved"
    BY <1>1, <1>2, <1>3, <1>6, <2>2
  <2>4. outcome' = "resolved" => Pending' = {}
    <3>1. outcome' = "resolved" => cursor' = Len(queue') /\ Len(queue') \in Nat
      BY <1>4 DEF IInv, Answered, TypeOK
    <3>. QED  BY <3>1 DEF Pending, ItemsAfter
  <2>. QED
    BY <1>1, <1>3, <1>4, <1>6, <2>1, <2>3, <2>4, PoolCardinality DEF Pool!Leave, InFlight
<1>7. CASE failure # NoFailure
  <2>1. InFlight' = (InFlight \ {i}) \cup {} /\ Pending' = Pending \ {}
    BY <1>1, <1>2, <1>7 DEF InFlight, Pending
  <2>2. outcome' = IF InFlight' # {} THEN "pending" ELSE "rejected"
    BY <1>1, <1>2, <1>3, <1>5, <1>7, <2>1
  <2>. QED
    BY <1>1, <1>3, <1>4, <1>7, <2>1, <2>2, PoolCardinality DEF Pool!Leave, InFlight
<1>. QED  BY <1>6, <1>7

\* The safety part of ImplementsPool: the queue with its cursor, compaction and
\* counter takes only steps of the pool, or none that its caller can see.
THEOREM SpecPoolSteps == Spec => Pool!PoolInit /\ [][Pool!PoolNext]_(Pool!poolVars)
<1>1. IInv /\ [Next]_vars => [Pool!PoolNext]_(Pool!poolVars)
  <2> SUFFICES ASSUME IInv, [Next]_vars PROVE [Pool!PoolNext]_(Pool!poolVars)
    OBVIOUS
  <2>1. CASE \E i, x \in Item : Enqueue(i, x)
    BY <2>1, EnqueuePool DEF Pool!PoolNext, Pool!poolVars, InFlight
  <2>2. CASE \E i \in Item : Fulfil(i) \/ Reject(i)
    BY <2>2, SettlePool DEF Pool!PoolNext, Pool!poolVars, InFlight
  <2>3. CASE \E i \in Item : Finally(i)
    BY <2>3, FinallyPool DEF Pool!PoolNext
  <2>4. CASE Done \/ UNCHANGED vars
    BY <2>4 DEF Done, vars, Pool!poolVars, Pending, ItemsAfter
  <2>. QED  BY <2>1, <2>2, <2>3, <2>4 DEF Next
<1>. QED  BY <1>1, InitPool, SpecIInv, PTL DEF Spec
=============================================================================
