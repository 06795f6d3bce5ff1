------------------------------ MODULE BaseCache ------------------------------
(***************************************************************************)
(* The immutable base-cache generations of one repository and the managed  *)
(* files of one runner: the identity a job derives for its cache           *)
(* (src/src/cache/model.ts), restore and save (src/src/cache/service.ts    *)
(* against src/src/cache/backend.ts) and the decision to publish           *)
(* (src/src/cache/lifecycle.ts).                                           *)
(*                                                                         *)
(* A content is the set of managed files present; two captures with the    *)
(* same content have the same digest.  Of the parts of a cache family the  *)
(* Java major varies here: prefix, schema version, build tool, runner and  *)
(* partition layout are those of one configuration.  Lineage names are as  *)
(* the current job sees them; a job of the default branch has no fallback, *)
(* for which a miss stands.  A lineage prefix ends in "-gen-" and a ref's  *)
(* token in its own digest, so the prefix of one family and ref matches    *)
(* the keys of that family and ref only.                                   *)
(***************************************************************************)
EXTENDS Integers, Sequences, FiniteSets

CONSTANTS
  File,          \* managed files
  JavaMajor,     \* Java versions the steps of a job may set up
  MaxOther       \* bound: generations that other jobs publish meanwhile

ASSUME BaseCacheAssumption == JavaMajor \subseteq Nat \ {0} /\ MaxOther \in Nat

VARIABLES
  generations,   \* generations in the provider's store, newest last
  others,        \* how many of them other jobs published
  tree,          \* managed files on the runner
  java           \* the Java major found on the runner

cacheVars == <<generations, others, tree, java>>

\* detectJavaMajor finds none, or none it can parse.
NoJava == -1
Detected == JavaMajor \cup {NoJava}

Lineage == {"current-ref", "default-branch"}
Content == SUBSET File

\* renderCacheFamilyKey, as far as the environment decides it.
Rendered(major) == IF major = NoJava THEN 0 ELSE major
Family == {Rendered(major) : major \in Detected}

\* createCacheModel derives the family anew in every phase.
CacheFamily == Rendered(java)

\* createCacheGeneration: the key is family, lineage, planned id and digest.
Generation == [family : Family, lineage : Lineage, id : Nat, content : Content]

CacheInit ==
  /\ generations = <<>> /\ others = 0
  /\ tree \in Content /\ java \in Detected

CacheTypeOK ==
  /\ generations \in Seq(Generation) /\ others \in 0 .. MaxOther
  /\ tree \in Content /\ java \in Detected
-----------------------------------------------------------------------------
\* The generations a lineage prefix matches, and the newest of them.
Candidate(f, lineage) ==
  {n \in DOMAIN generations : generations[n].family = f /\ generations[n].lineage = lineage}

Newest(f, lineage) ==
  {n \in Candidate(f, lineage) : \A m \in Candidate(f, lineage) : m <= n}

\* restoreCache with the ordered candidates: the current lineage first, the
\* default branch only when the current lineage has nothing.
Restorable(f) ==
  IF Candidate(f, "current-ref") # {} THEN Newest(f, "current-ref")
                                      ELSE Newest(f, "default-branch")

\* Extracting an archive adds its files and removes none.
Overlay(content) == tree' = tree \cup content

\* What a restore leaves that stops on the way.
PartlyRestored(f) ==
  {tree} \cup {tree \cup c : c \in UNION {SUBSET generations[n].content : n \in Restorable(f)}}
-----------------------------------------------------------------------------
\* Mutant of Required: a miss is never a reason to publish.
MutMissIgnored(hit, pre, current) == pre # current

\* decideBaseCacheGeneration without dependent deltas.
Required(hit, pre, current) == pre # current \/ (~hit /\ current # {})

KeyTaken(g) == \E n \in DOMAIN generations : generations[n] = g

\* The store accepts a key once.
Publish(g) == ~KeyTaken(g) /\ generations' = Append(generations, g)
-----------------------------------------------------------------------------
\* Another job publishes: of this or another ref, family and run.  Siblings
\* of a matrix share the job name, hence the planned id of this attempt.
OtherPublishes(plannedId) ==
  /\ others < MaxOther /\ others' = others + 1
  /\ \E g \in [family : Family, lineage : Lineage, id : {0, plannedId},
               content : Content \ {{}}] :
       /\ g.lineage = "default-branch" => g.id = 0
       /\ Publish(g)
  /\ UNCHANGED <<tree, java>>
=============================================================================
