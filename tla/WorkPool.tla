------------------------------ MODULE WorkPool ------------------------------
(***************************************************************************)
(* What processAsyncWorkQueue promises its caller (the doc comment at      *)
(* src/src/util/async-work-queue.ts:23-28), with no queue, cursor or       *)
(* counter: a pool of work items of which at most MaxConcurrency run, that *)
(* starts nothing after the first failure, lets what runs finish, and then *)
(* settles once: resolved when all the work is done, rejected with the     *)
(* first failure otherwise.                                                *)
(***************************************************************************)
EXTENDS Integers, FiniteSets

CONSTANTS Item, MaxConcurrency, NoFailure

VARIABLES
  todo,     \* items accepted and not started
  running,  \* items started and not finished
  failure,  \* the first item that failed, or NoFailure
  outcome   \* "pending", "resolved" or "rejected"

poolVars == <<todo, running, failure, outcome>>

PoolInit ==
  /\ todo \subseteq Item
  /\ running \subseteq Item
  /\ todo \cap running = {}
  /\ Cardinality(running) <= MaxConcurrency
  /\ failure = NoFailure
  /\ outcome = IF todo \cup running = {} THEN "resolved" ELSE "pending"

\* A running item brings a new one into the pool; refused once the pool failed.
Accept(x) ==
  /\ running # {} /\ outcome = "pending" /\ failure = NoFailure
  /\ x \notin todo \cup running
  /\ todo' = todo \cup {x}
  /\ UNCHANGED <<running, failure, outcome>>

\* Only the first failure counts.
Fail(i) ==
  /\ i \in running /\ failure = NoFailure
  /\ failure' = i
  /\ UNCHANGED <<todo, running, outcome>>

\* An item leaves, and the pool either starts more, settles, or does neither.
Leave(i) ==
  /\ i \in running
  /\ outcome = "pending"
  /\ \E batch \in SUBSET todo :
       /\ failure # NoFailure => batch = {}
       /\ todo' = todo \ batch
       /\ running' = (running \ {i}) \cup batch
  /\ Cardinality(running') <= MaxConcurrency
  /\ outcome' = IF running' # {} THEN "pending"
                ELSE IF failure # NoFailure THEN "rejected" ELSE "resolved"
  /\ outcome' = "resolved" => todo' = {}
  /\ UNCHANGED failure

PoolNext == \E i \in Item : Accept(i) \/ Fail(i) \/ Leave(i)

PoolSpec == PoolInit /\ [][PoolNext]_poolVars /\ WF_poolVars(\E i \in Item : Leave(i))
=============================================================================
