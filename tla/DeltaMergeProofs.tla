-------------------------- MODULE DeltaMergeProofs --------------------------
(***************************************************************************)
(* Proofs about DeltaMerge, for every set of paths, contents and times and *)
(* any number of packages.  The plan is compared with all packages merged  *)
(* so far; the lemmas about two states of a path carry the step.           *)
(***************************************************************************)
EXTENDS DeltaMerge, TLAPS

N == Len(packages)

Covered ==
  outcome # "refused" =>
    /\ \A i \in 1 .. N : packages[i].layout = packages[1].layout
    /\ \A i \in 1 .. N : \A p \in DOMAIN packages[i].entries : p \in DOMAIN plan

\* Unless there was a conflict, the plan holds a newest state of every path.
Newest ==
  (outcome # "refused" /\ conflicts = {}) =>
    \A i \in 1 .. N : \A p \in DOMAIN packages[i].entries :
      Comparable(EntryOf(i, p)).mtime <= Mtime(plan[p])

\* Without the option every previous state is kept and nothing disagrees.
Strict ==
  (~allowDuplicate /\ outcome # "refused" /\ conflicts = {}) =>
    \A i \in 1 .. N : \A p \in DOMAIN packages[i].entries :
      /\ EntryOf(i, p).previous \in plan[p].accepted
      /\ Compatible(EntryOf(i, p), plan[p].entry)

\* A recorded conflict is a disagreement between two packages.
Justified ==
  \A c \in conflicts : \E i, j \in 1 .. N :
    /\ c[1] \in DOMAIN packages[i].entries /\ c[1] \in DOMAIN packages[j].entries
    /\ ~Compatible(EntryOf(i, c[1]), EntryOf(j, c[1]))

Ends ==
  /\ outcome = "merged" => conflicts = {}
  /\ (outcome = "refused" /\ conflicts = {}) =>
       \E i \in 1 .. N : packages[i].layout # packages[1].layout
  /\ outcome = "refused" /\ (\A i \in 1 .. N : packages[i].layout = packages[1].layout) =>
       conflicts # {}

IInv ==
  /\ TypeOK /\ PayloadBacksEntry /\ LosersPermitNothing
  /\ Covered /\ Newest /\ Strict /\ Justified /\ Ends

-----------------------------------------------------------------------------
\* An entry has a snapshot to compare, and its time is a number.
LEMMA EntryTime ==
  ASSUME NEW e \in Entry
  PROVE  Comparable(e) \in Snapshot /\ Comparable(e).mtime \in Nat
BY MergeAssumption DEF Entry, Comparable, Snapshot

\* Two entries that agree with a third agree.
LEMMA CompatibleTransitive ==
  ASSUME NEW d, NEW e, NEW f, Compatible(d, e), Compatible(e, f)
  PROVE  Compatible(d, f) /\ Compatible(e, d) /\ Compatible(d, d)
BY DEF Compatible

LEMMA DeltaTyped ==
  ASSUME NEW d \in Delta
  PROVE  DOMAIN d \subseteq Path /\ \A p \in DOMAIN d : d[p] \in Entry
BY DEF Delta

\* What becomes of two states of a path that can be resolved.
LEMMA ResolvedFacts ==
  ASSUME NEW s \in Merged, NEW t \in Merged, Resolves(s, t)
  PROVE  /\ Resolved(s, t) \in Merged
         /\ \/ Resolved(s, t).entry = s.entry /\ Resolved(s, t).source = s.source
            \/ Resolved(s, t).entry = t.entry /\ Resolved(s, t).source = t.source
         /\ Mtime(s) <= Mtime(Resolved(s, t)) /\ Mtime(t) <= Mtime(Resolved(s, t))
         /\ Compatible(s.entry, t.entry) =>
              Resolved(s, t).accepted = s.accepted \cup t.accepted
         /\ ~Compatible(s.entry, t.entry) =>
              /\ allowDuplicate
              /\ Resolved(s, t) = s \/ Resolved(s, t) = t
<1>1. Mtime(s) \in Nat /\ Mtime(t) \in Nat
  BY EntryTime DEF Merged, Mtime
<1>2. CASE ~Compatible(s.entry, t.entry)
  BY <1>1, <1>2 DEF Resolved, Resolves, Newer
<1>3. CASE Compatible(s.entry, t.entry)
  <2>1. Resolved(s, t) = [Newer(s, t) EXCEPT !.accepted = Newer(s, t).accepted \cup Other(s, t).accepted]
    BY <1>3 DEF Resolved, MergeCompatible
  <2>2. \/ Newer(s, t) = s /\ Other(s, t) = t
        \/ Newer(s, t) = t /\ Other(s, t) = s /\ Mtime(t) > Mtime(s)
    BY DEF Newer, Other
  <2>3. Mtime(s) <= Mtime(Newer(s, t)) /\ Mtime(t) <= Mtime(Newer(s, t))
    BY <1>1 DEF Newer
  <2>4. Newer(s, t) \in Merged
    BY <2>2
  <2>5. /\ Resolved(s, t).entry = Newer(s, t).entry
        /\ Resolved(s, t).source = Newer(s, t).source
        /\ Resolved(s, t).accepted = Newer(s, t).accepted \cup Other(s, t).accepted
        /\ Resolved(s, t) \in Merged
    BY <2>1, <2>2, <2>4 DEF Merged
  <2> QED
    BY <1>3, <2>2, <2>3, <2>5 DEF Mtime
<1> QED
  BY <1>2, <1>3

-----------------------------------------------------------------------------
LEMMA InitIInv == Init => IInv
<1> SUFFICES ASSUME Init PROVE IInv
  OBVIOUS
<1>1. packages = <<>> /\ N = 0 /\ DOMAIN plan = {} /\ conflicts = {} /\ outcome = "merging"
  BY DEF Init, N
<1>2. TypeOK
  <2>1. allowDuplicate \in BOOLEAN
    BY DEF Init
  <2>2. packages \in Seq(Package) /\ Len(packages) <= MaxPackages
    BY <1>1, MergeAssumption
  <2> QED
    BY <1>1, <2>1, <2>2 DEF TypeOK, Init
<1> QED
  BY <1>1, <1>2 DEF IInv, PayloadBacksEntry, LosersPermitNothing, Covered, Newest, Strict,
                    Justified, Ends

\* Taking a package leaves the earlier ones where they are.
LEMMA TakeFacts ==
  ASSUME TypeOK, NEW package \in Package, Take(package)
  PROVE  /\ N \in Nat /\ N' = N + 1 /\ N + 1 \in 1 .. MaxPackages
         /\ packages'[N + 1] = package
         /\ \A i \in 1 .. N : packages'[i] = packages[i]
         /\ packages' \in Seq(Package) /\ N' <= MaxPackages
         /\ \A i \in 1 .. N : packages[i] \in Package
         /\ outcome = "merging"
BY MergeAssumption DEF TypeOK, Take, N

\* Any package that declares a path does so with an entry.
LEMMA DeclaredTyped ==
  ASSUME TypeOK, NEW i \in 1 .. N, NEW p \in DOMAIN packages[i].entries
  PROVE  p \in Path /\ EntryOf(i, p) \in Entry
<1>1. packages[i] \in Package
  BY DEF TypeOK, N
<1>2. packages[i].entries \in Delta
  BY <1>1 DEF Package
<1> QED
  BY <1>2, DeltaTyped DEF EntryOf

LEMMA CandidateTyped ==
  ASSUME TypeOK, NEW package \in Package, Take(package), NEW p \in DOMAIN package.entries
  PROVE  /\ p \in Path /\ Candidate(package, p) \in Merged
         /\ Candidate(package, p).entry = package.entries[p]
         /\ Candidate(package, p).accepted = {package.entries[p].previous}
         /\ Candidate(package, p).source = N + 1
<1>1. package.entries \in Delta
  BY DEF Package
<1>2. p \in Path /\ package.entries[p] \in Entry
  BY <1>1, DeltaTyped
<1>3. package.entries[p].previous \in Snapshot \cup {Absent}
  BY <1>2 DEF Entry
<1> QED
  BY <1>2, <1>3, TakeFacts DEF Candidate, Merged, N

\* What the packages declare once one more was taken.
EntryAfter(i, p) == packages'[i].entries[p]
DeclaresAfter(i, p) == i \in 1 .. Len(packages') /\ p \in DOMAIN packages'[i].entries

\* The three things that can happen to a path when a package is merged.
Kept(package, p) ==
  /\ p \in DOMAIN plan /\ plan'[p] = plan[p]
  /\ p \in DOMAIN package.entries =>
       ~Resolves(plan[p], Candidate(package, p)) /\ conflicts' # {}
Added(package, p) ==
  /\ p \notin DOMAIN plan /\ p \in DOMAIN package.entries
  /\ plan'[p] = Candidate(package, p)
Merging(package, p) ==
  /\ p \in DOMAIN plan /\ p \in DOMAIN package.entries
  /\ Resolves(plan[p], Candidate(package, p))
  /\ plan'[p] = Resolved(plan[p], Candidate(package, p))

LEMMA PathCases ==
  ASSUME TypeOK, NEW package \in Package, MergePackage(package)
  PROVE  /\ DOMAIN plan' = DOMAIN plan \cup DOMAIN package.entries
         /\ \A p \in DOMAIN plan' :
              Kept(package, p) \/ Added(package, p) \/ Merging(package, p)
         /\ conflicts \subseteq conflicts'
         /\ \A c \in conflicts' \ conflicts :
              /\ c[1] \in DOMAIN package.entries \cap DOMAIN plan
              /\ ~Resolves(plan[c[1]], Candidate(package, c[1]))
              /\ c = <<c[1], plan[c[1]].source, N + 1>>
<1> DEFINE declared == DOMAIN package.entries
           refused == {p \in declared \cap DOMAIN plan :
                         ~Resolves(plan[p], Candidate(package, p))}
<1>1. /\ plan' = [p \in DOMAIN plan \cup declared |->
                   IF p \notin DOMAIN plan THEN Candidate(package, p)
                   ELSE IF p \in declared \ refused THEN Resolved(plan[p], Candidate(package, p))
                   ELSE plan[p]]
      /\ conflicts' = conflicts \cup {<<p, plan[p].source, N + 1>> : p \in refused}
  BY DEF MergePackage, N
<1>2. DOMAIN plan' = DOMAIN plan \cup declared
  BY <1>1
<1>3. ASSUME NEW p \in DOMAIN plan'
      PROVE  Kept(package, p) \/ Added(package, p) \/ Merging(package, p)
  <2>1. CASE p \notin DOMAIN plan
    BY <1>1, <1>2, <2>1 DEF Added
  <2>2. CASE p \in declared \ refused /\ p \in DOMAIN plan
    BY <1>1, <1>2, <2>2 DEF Merging
  <2>3. CASE p \in DOMAIN plan /\ p \notin declared \ refused
    <3>1. plan'[p] = plan[p]
      BY <1>1, <2>3
    <3>2. p \in declared => p \in refused
      BY <2>3
    <3>3. p \in refused => conflicts' # {}
      BY <1>1
    <3> QED
      BY <2>3, <3>1, <3>2, <3>3 DEF Kept
  <2> QED
    BY <1>2, <2>1, <2>2, <2>3
<1>4. \A c \in conflicts' \ conflicts : \E p \in refused : c = <<p, plan[p].source, N + 1>>
  BY <1>1
<1> QED
  BY <1>1, <1>2, <1>3, <1>4

LEMMA MergeStep ==
  ASSUME IInv, NEW package \in Package, MergePackage(package)
  PROVE  IInv'
<1> DEFINE C(p) == Candidate(package, p)
           here == DOMAIN package.entries
<1> USE DEF IInv
<1>1. Take(package) /\ SameLayout(package) /\ UNCHANGED <<allowDuplicate, outcome>>
  BY DEF MergePackage
<1>2. /\ N \in Nat /\ N' = N + 1 /\ N + 1 \in 1 .. MaxPackages
      /\ packages'[N + 1] = package
      /\ \A i \in 1 .. N : packages'[i] = packages[i]
      /\ packages' \in Seq(Package) /\ N' <= MaxPackages
      /\ outcome = "merging" /\ outcome' = "merging"
  BY <1>1, TakeFacts
<1>3. /\ DOMAIN plan' = DOMAIN plan \cup here
      /\ \A p \in DOMAIN plan' : Kept(package, p) \/ Added(package, p) \/ Merging(package, p)
      /\ conflicts \subseteq conflicts'
  BY PathCases
<1>4. \A p \in here : /\ p \in Path /\ C(p) \in Merged /\ C(p).entry = package.entries[p]
                      /\ C(p).accepted = {package.entries[p].previous} /\ C(p).source = N + 1
  BY <1>1, CandidateTyped
<1>5. \A p \in DOMAIN plan : plan[p] \in Merged /\ p \in Path
  BY DEF TypeOK
<1>6. \A p : \A i \in 1 .. N : EntryAfter(i, p) = EntryOf(i, p) /\ DeclaresAfter(i, p) = Declares(i, p)
  BY <1>2 DEF EntryOf, Declares, EntryAfter, DeclaresAfter, N
<1>7. \A p : EntryAfter(N + 1, p) = package.entries[p] /\ DeclaresAfter(N + 1, p) = (p \in here)
  BY <1>2 DEF EntryOf, Declares, EntryAfter, DeclaresAfter, N
<1>8. TypeOK'
  <2>1. \A p \in DOMAIN plan' : plan'[p] \in Merged /\ p \in Path
    BY <1>3, <1>4, <1>5, ResolvedFacts DEF Kept, Added, Merging
  <2>2. plan' \in [DOMAIN plan' -> Merged]
    <3>1. plan' = [p \in DOMAIN plan' |-> plan'[p]]
      BY DEF MergePackage
    <3> QED
      BY <2>1, <3>1
  <2>3. conflicts' \subseteq Path \X (1 .. MaxPackages) \X (1 .. MaxPackages)
    <3>1. \A c \in conflicts' \ conflicts :
            /\ c[1] \in DOMAIN plan /\ c = <<c[1], plan[c[1]].source, N + 1>>
      BY PathCases
    <3>2. \A p \in DOMAIN plan : plan[p].source \in 1 .. MaxPackages
      BY <1>5 DEF Merged
    <3>3. \A c \in conflicts' \ conflicts :
            c \in Path \X (1 .. MaxPackages) \X (1 .. MaxPackages)
      BY <1>2, <1>5, <3>1, <3>2
    <3> QED
      BY <3>3 DEF TypeOK
  <2> QED
    BY <1>1, <1>2, <2>1, <2>2, <2>3 DEF TypeOK, N
<1>9. PayloadBacksEntry'
  <2> SUFFICES ASSUME NEW p \in DOMAIN plan'
               PROVE  /\ DeclaresAfter(plan'[p].source, p)
                      /\ plan'[p].entry = EntryAfter(plan'[p].source, p)
    BY DEF PayloadBacksEntry, EntryOf, Declares, EntryAfter, DeclaresAfter
  <2>1. p \in DOMAIN plan =>
          /\ plan[p].source \in 1 .. N
          /\ DeclaresAfter(plan[p].source, p) /\ plan[p].entry = EntryAfter(plan[p].source, p)
    BY <1>6 DEF PayloadBacksEntry, Declares, N
  <2>2. p \in here => DeclaresAfter(C(p).source, p) /\ C(p).entry = EntryAfter(C(p).source, p)
    BY <1>4, <1>7
  <2>3. CASE Kept(package, p)
    BY <2>1, <2>3 DEF Kept
  <2>4. CASE Added(package, p)
    BY <2>2, <2>4 DEF Added
  <2>5. CASE Merging(package, p)
    <3>1. \/ plan'[p].entry = plan[p].entry /\ plan'[p].source = plan[p].source
          \/ plan'[p].entry = C(p).entry /\ plan'[p].source = C(p).source
      BY <1>4, <1>5, <2>5, ResolvedFacts DEF Merging
    <3> QED
      BY <2>1, <2>2, <2>5, <3>1 DEF Merging
  <2> QED
    BY <1>3, <2>3, <2>4, <2>5
<1>10. LosersPermitNothing'
  <2> DEFINE Backed(s, p, e) == \E i \in 1 .. N' :
               /\ DeclaresAfter(i, p) /\ EntryAfter(i, p).previous = s /\ Compatible(EntryAfter(i, p), e)
  <2> SUFFICES ASSUME NEW p \in DOMAIN plan', NEW s \in plan'[p].accepted
               PROVE  Backed(s, p, plan'[p].entry)
    BY DEF LosersPermitNothing, Compatible, EntryOf, Declares, EntryAfter, DeclaresAfter, N
  <2>1. p \in DOMAIN plan => \A a \in plan[p].accepted : Backed(a, p, plan[p].entry)
    <3> SUFFICES ASSUME p \in DOMAIN plan, NEW a \in plan[p].accepted
                 PROVE  Backed(a, p, plan[p].entry)
      OBVIOUS
    <3>1. PICK i \in 1 .. N : /\ Declares(i, p) /\ EntryOf(i, p).previous = a
                              /\ Compatible(EntryOf(i, p), plan[p].entry)
      BY DEF LosersPermitNothing, N
    <3>2. i \in 1 .. N'
      BY <1>2
    <3> QED
      BY <1>6, <3>1, <3>2
  <2>2. p \in here => \A a \in C(p).accepted : Backed(a, p, C(p).entry)
    <3> SUFFICES ASSUME p \in here, NEW a \in C(p).accepted PROVE Backed(a, p, C(p).entry)
      OBVIOUS
    <3>0. N + 1 \in 1 .. N'
      BY <1>2
    <3>1. DeclaresAfter(N + 1, p) /\ EntryAfter(N + 1, p) = C(p).entry
      BY <1>4, <1>7
    <3>2. a = C(p).entry.previous
      BY <1>4
    <3> QED
      BY <3>0, <3>1, <3>2 DEF Compatible
  <2>3. \A d, e, a : Compatible(d, e) /\ Backed(a, p, d) => Backed(a, p, e)
    BY CompatibleTransitive
  <2>4. CASE Kept(package, p)
    BY <2>1, <2>4 DEF Kept
  <2>5. CASE Added(package, p)
    BY <2>2, <2>5 DEF Added
  <2>6. CASE Merging(package, p)
    <3>1. plan[p] \in Merged /\ C(p) \in Merged /\ p \in DOMAIN plan /\ p \in here
      BY <1>4, <1>5, <2>6 DEF Merging
    <3>2. CASE Compatible(plan[p].entry, C(p).entry)
      <4>1. s \in plan[p].accepted \/ s \in C(p).accepted
        BY <2>6, <3>1, <3>2, ResolvedFacts DEF Merging
      <4>2. plan'[p].entry \in {plan[p].entry, C(p).entry}
        BY <2>6, <3>1, <3>2, ResolvedFacts DEF Merging
      <4>3. Compatible(C(p).entry, plan[p].entry) /\ Compatible(plan[p].entry, C(p).entry)
        BY <3>2 DEF Compatible
      <4> HIDE DEF Backed, C
      <4>4. Backed(s, p, plan[p].entry) \/ Backed(s, p, C(p).entry)
        BY <2>1, <2>2, <3>1, <4>1
      <4>5. Backed(s, p, plan[p].entry) /\ Backed(s, p, C(p).entry)
        BY <2>3, <4>3, <4>4
      <4> QED
        BY <4>2, <4>5
    <3>3. CASE ~Compatible(plan[p].entry, C(p).entry)
      <4>1. plan'[p] = plan[p] \/ plan'[p] = C(p)
        BY <2>6, <3>1, <3>3, ResolvedFacts DEF Merging
      <4> QED
        BY <2>1, <2>2, <3>1, <4>1
    <3> QED
      BY <3>2, <3>3
  <2> QED
    BY <1>3, <2>4, <2>5, <2>6
<1>11. Covered'
  <2>1. \A i \in 1 .. N : packages[i].layout = packages[1].layout /\
          \A p \in DOMAIN packages[i].entries : p \in DOMAIN plan
    BY <1>2 DEF Covered
  <2>2. package.layout = packages'[1].layout
    <3>1. CASE packages = <<>>
      BY <1>2, <3>1 DEF N
    <3>2. CASE packages # <<>>
      <4>1. N >= 1
        BY <1>2, <3>2 DEF N, TypeOK
      <4> QED
        BY <1>1, <1>2, <3>2, <4>1 DEF SameLayout
    <3> QED
      BY <3>1, <3>2
  <2>3. N >= 1 => packages'[1] = packages[1]
    BY <1>2
  <2> SUFFICES ASSUME NEW i \in 1 .. N'
               PROVE  /\ packages'[i].layout = packages'[1].layout
                      /\ \A p \in DOMAIN packages'[i].entries : p \in DOMAIN plan'
    BY DEF Covered
  <2>4. CASE i \in 1 .. N
    BY <1>2, <1>3, <2>1, <2>3, <2>4
  <2>5. CASE i = N + 1
    BY <1>2, <1>3, <2>2, <2>5
  <2> QED
    BY <1>2, <2>4, <2>5
<1>12. ASSUME conflicts' = {}
       PROVE  \A p \in here :
                /\ p \in DOMAIN plan' /\ Mtime(C(p)) <= Mtime(plan'[p])
                /\ p \in DOMAIN plan => Mtime(plan[p]) <= Mtime(plan'[p])
  <2> SUFFICES ASSUME NEW p \in here
               PROVE  /\ p \in DOMAIN plan' /\ Mtime(C(p)) <= Mtime(plan'[p])
                      /\ p \in DOMAIN plan => Mtime(plan[p]) <= Mtime(plan'[p])
    OBVIOUS
  <2>1. p \in DOMAIN plan' /\ ~Kept(package, p)
    BY <1>3, <1>12 DEF Kept
  <2>2. CASE Added(package, p)
    <3>1. Mtime(C(p)) \in Nat
      BY <1>4, EntryTime DEF Mtime, Merged
    <3> QED
      BY <2>1, <2>2, <3>1 DEF Added
  <2>3. CASE Merging(package, p)
    BY <1>4, <1>5, <2>1, <2>3, ResolvedFacts DEF Merging
  <2> QED
    BY <1>3, <2>1, <2>2, <2>3
<1>13. Newest'
  <2> SUFFICES ASSUME conflicts' = {}, NEW i \in 1 .. N', NEW p \in DOMAIN packages'[i].entries
               PROVE  Comparable(EntryAfter(i, p)).mtime <= Mtime(plan'[p])
    BY DEF Newest, Comparable, Mtime, EntryOf, EntryAfter
  <2>1. CASE i \in 1 .. N
    <3>1. p \in DOMAIN packages[i].entries /\ p \in DOMAIN plan
      BY <1>2, <2>1 DEF Covered
    <3>2. Comparable(EntryOf(i, p)).mtime <= Mtime(plan[p])
      BY <1>2, <1>3, <2>1, <3>1 DEF Newest
    <3>3. EntryAfter(i, p) = EntryOf(i, p)
      BY <1>6, <2>1
    <3>4. /\ Comparable(EntryOf(i, p)).mtime \in Nat /\ Mtime(plan[p]) \in Nat
          /\ Mtime(plan'[p]) \in Nat
      <4>1. plan'[p] \in Merged /\ plan[p] \in Merged
        BY <1>3, <1>8, <3>1 DEF TypeOK
      <4> QED
        BY <2>1, <3>1, <4>1, DeclaredTyped, EntryTime DEF Mtime, Merged
    <3>5. Mtime(plan[p]) <= Mtime(plan'[p])
      <4>1. CASE p \in here
        BY <1>12, <3>1, <4>1
      <4>2. CASE p \notin here
        <5>1. plan'[p] = plan[p]
          BY <1>3, <3>1, <4>2 DEF Kept, Added, Merging
        <5> QED
          BY <3>4, <5>1
      <4> QED
        BY <4>1, <4>2
    <3> QED
      BY <3>2, <3>3, <3>4, <3>5
  <2>2. CASE i = N + 1
    <3>1. p \in here /\ EntryAfter(i, p) = C(p).entry
      BY <1>2, <1>4, <1>7, <2>2
    <3> QED
      BY <1>12, <3>1 DEF Mtime
  <2> QED
    BY <1>2, <2>1, <2>2
<1>14. Strict'
  <2> SUFFICES ASSUME ~allowDuplicate, conflicts' = {},
                      NEW i \in 1 .. N', NEW p \in DOMAIN packages'[i].entries
               PROVE  /\ EntryAfter(i, p).previous \in plan'[p].accepted
                      /\ Compatible(EntryAfter(i, p), plan'[p].entry)
    BY <1>1 DEF Strict, Compatible, EntryOf, EntryAfter
  <2>1. p \in here /\ p \in DOMAIN plan =>
          /\ Compatible(plan[p].entry, C(p).entry)
          /\ plan'[p].accepted = plan[p].accepted \cup C(p).accepted
          /\ plan'[p].entry \in {plan[p].entry, C(p).entry}
    <3> SUFFICES ASSUME p \in here, p \in DOMAIN plan
                 PROVE  /\ Compatible(plan[p].entry, C(p).entry)
                        /\ plan'[p].accepted = plan[p].accepted \cup C(p).accepted
                        /\ plan'[p].entry \in {plan[p].entry, C(p).entry}
      OBVIOUS
    <3>1. Merging(package, p)
      BY <1>3 DEF Kept, Added
    <3>2. plan[p] \in Merged /\ C(p) \in Merged /\ Resolves(plan[p], C(p))
      BY <1>4, <1>5, <3>1 DEF Merging
    <3> QED
      BY <3>1, <3>2, ResolvedFacts DEF Merging
  <2>2. p \in here /\ p \notin DOMAIN plan => plan'[p] = C(p)
    BY <1>3 DEF Kept, Added, Merging
  <2>3. p \notin here => plan'[p] = plan[p]
    BY <1>2, <1>3, <1>11 DEF Kept, Added, Merging, Covered
  <2>4. CASE i \in 1 .. N
    <3>1. p \in DOMAIN packages[i].entries /\ p \in DOMAIN plan
      BY <1>2, <2>4 DEF Covered
    <3>2. /\ EntryOf(i, p).previous \in plan[p].accepted
          /\ Compatible(EntryOf(i, p), plan[p].entry)
      BY <1>2, <1>3, <2>4, <3>1 DEF Strict
    <3>3. EntryAfter(i, p) = EntryOf(i, p)
      BY <1>6, <2>4
    <3> QED
      BY <2>1, <2>3, <3>1, <3>2, <3>3, CompatibleTransitive
  <2>5. CASE i = N + 1
    <3>1. /\ p \in here /\ EntryAfter(i, p) = C(p).entry
          /\ C(p).entry.previous \in C(p).accepted
      BY <1>2, <1>4, <1>7, <2>5
    <3>2. Compatible(C(p).entry, C(p).entry)
      BY DEF Compatible
    <3>3. Compatible(plan[p].entry, C(p).entry) => Compatible(C(p).entry, plan[p].entry)
      BY DEF Compatible
    <3> QED
      BY <2>1, <2>2, <3>1, <3>2, <3>3
  <2> QED
    BY <1>2, <2>4, <2>5
<1>15. Justified'
  <2> SUFFICES ASSUME NEW c \in conflicts'
               PROVE  \E i, j \in 1 .. N' :
                        /\ c[1] \in DOMAIN packages'[i].entries
                        /\ c[1] \in DOMAIN packages'[j].entries
                        /\ ~Compatible(EntryAfter(i, c[1]), EntryAfter(j, c[1]))
    BY DEF Justified, Compatible, EntryOf, EntryAfter
  <2>1. CASE c \in conflicts
    <3>1. PICK i, j \in 1 .. N :
                        /\ c[1] \in DOMAIN packages[i].entries
                        /\ c[1] \in DOMAIN packages[j].entries
                        /\ ~Compatible(EntryOf(i, c[1]), EntryOf(j, c[1]))
      BY <2>1 DEF Justified
    <3>2. i \in 1 .. N' /\ j \in 1 .. N'
      BY <1>2
    <3> QED
      BY <1>2, <1>6, <3>1, <3>2
  <2>2. CASE c \notin conflicts
    <3>1. c[1] \in here /\ c[1] \in DOMAIN plan /\ ~Resolves(plan[c[1]], C(c[1]))
      BY <2>2, PathCases
    <3>2. ~Compatible(plan[c[1]].entry, C(c[1]).entry)
      BY <3>1 DEF Resolves
    <3> DEFINE k == plan[c[1]].source
    <3>3. /\ k \in 1 .. N /\ c[1] \in DOMAIN packages[k].entries
          /\ plan[c[1]].entry = EntryOf(k, c[1])
      BY <3>1 DEF PayloadBacksEntry, Declares, N
    <3>4. k \in 1 .. N' /\ N + 1 \in 1 .. N'
      BY <1>2, <3>3
    <3>5. /\ c[1] \in DOMAIN packages'[k].entries /\ EntryAfter(k, c[1]) = plan[c[1]].entry
          /\ c[1] \in DOMAIN packages'[N + 1].entries /\ EntryAfter(N + 1, c[1]) = C(c[1]).entry
      BY <1>2, <1>4, <1>6, <1>7, <3>1, <3>3
    <3>6. ~Compatible(EntryAfter(k, c[1]), EntryAfter(N + 1, c[1]))
      BY <3>2, <3>5
    <3> HIDE DEF k
    <3> QED
      BY <3>4, <3>5, <3>6
  <2> QED
    BY <2>1, <2>2
<1>16. Ends'
  BY <1>2 DEF Ends
<1> QED
  BY <1>8, <1>9, <1>10, <1>11, <1>13, <1>14, <1>15, <1>16

LEMMA RefuseStep ==
  ASSUME IInv, NEW package \in Package, RefusePackage(package)
  PROVE  IInv'
<1> USE DEF IInv
<1>1. /\ Take(package) /\ ~SameLayout(package)
      /\ UNCHANGED <<allowDuplicate, plan, conflicts>> /\ outcome' = "refused"
  BY DEF RefusePackage
<1>2. /\ N \in Nat /\ N' = N + 1 /\ packages'[N + 1] = package
      /\ \A i \in 1 .. N : packages'[i] = packages[i]
      /\ packages' \in Seq(Package) /\ N' <= MaxPackages
  BY <1>1, TakeFacts
<1>3. TypeOK'
  BY <1>1, <1>2 DEF TypeOK, N
<1>4. \A p : \A i \in 1 .. N : EntryAfter(i, p) = EntryOf(i, p) /\ DeclaresAfter(i, p) = Declares(i, p)
  BY <1>2 DEF EntryOf, Declares, EntryAfter, DeclaresAfter, N
<1>5. PayloadBacksEntry'
  <2>1. \A p \in DOMAIN plan : plan[p].source \in 1 .. N
    BY DEF PayloadBacksEntry, Declares, N
  <2> QED
    BY <1>1, <1>4, <2>1 DEF PayloadBacksEntry, EntryOf, Declares, EntryAfter, DeclaresAfter
<1>6. LosersPermitNothing'
  <2> SUFFICES ASSUME NEW p \in DOMAIN plan, NEW s \in plan[p].accepted
               PROVE  \E i \in 1 .. N' :
                        /\ DeclaresAfter(i, p) /\ EntryAfter(i, p).previous = s
                        /\ Compatible(EntryAfter(i, p), plan[p].entry)
    BY <1>1 DEF LosersPermitNothing, Compatible, EntryOf, Declares, EntryAfter, DeclaresAfter, N
  <2>1. PICK i \in 1 .. N : /\ Declares(i, p) /\ EntryOf(i, p).previous = s
                            /\ Compatible(EntryOf(i, p), plan[p].entry)
    BY DEF LosersPermitNothing, N
  <2>2. i \in 1 .. N'
    BY <1>2
  <2> QED
    BY <1>4, <2>1, <2>2
<1>7. Justified'
  <2> SUFFICES ASSUME NEW c \in conflicts
               PROVE  \E i, j \in 1 .. N' :
                        /\ c[1] \in DOMAIN packages'[i].entries
                        /\ c[1] \in DOMAIN packages'[j].entries
                        /\ ~Compatible(EntryAfter(i, c[1]), EntryAfter(j, c[1]))
    BY <1>1 DEF Justified, Compatible, EntryOf, EntryAfter
  <2>1. PICK i, j \in 1 .. N :
                        /\ c[1] \in DOMAIN packages[i].entries
                        /\ c[1] \in DOMAIN packages[j].entries
                        /\ ~Compatible(EntryOf(i, c[1]), EntryOf(j, c[1]))
    BY DEF Justified
  <2>2. i \in 1 .. N' /\ j \in 1 .. N'
    BY <1>2
  <2> QED
    BY <1>2, <1>4, <2>1, <2>2
<1>8. packages'[N + 1].layout # packages'[1].layout /\ N + 1 \in 1 .. N'
  <2>1. packages # <<>> /\ package.layout # packages[1].layout
    BY <1>1 DEF SameLayout
  <2>2. N >= 1
    BY <2>1 DEF N, TypeOK
  <2> QED
    BY <1>2, <2>1, <2>2
<1> QED
  BY <1>1, <1>3, <1>5, <1>6, <1>7, <1>8 DEF Covered, Newest, Strict, Ends

LEMMA FinishStep == IInv /\ (Finish \/ UNCHANGED vars) => IInv'
<1> SUFFICES ASSUME IInv, Finish \/ UNCHANGED vars PROVE IInv'
  OBVIOUS
<1>1. UNCHANGED <<packages, allowDuplicate, plan, conflicts>> /\ N' = N
  BY DEF Finish, vars, N
<1>2. \A i, p : EntryOf(i, p)' = EntryOf(i, p) /\ Declares(i, p)' = Declares(i, p)
  BY <1>1 DEF EntryOf, Declares
<1>3. (TypeOK /\ PayloadBacksEntry /\ LosersPermitNothing /\ Justified)'
  <2>1. outcome' \in {"merging", "merged", "refused"}
    BY DEF Finish, vars, IInv, TypeOK
  <2> QED
    BY <1>1, <1>2, <2>1 DEF IInv, TypeOK, PayloadBacksEntry, LosersPermitNothing, Justified,
                             Compatible, N
<1>4. (Covered /\ Newest /\ Strict)'
  <2>1. outcome' # "refused" => outcome # "refused"
    BY DEF Finish, vars
  <2> QED
    BY <1>1, <1>2, <2>1 DEF IInv, Covered, Newest, Strict, Compatible, Comparable, Mtime
<1>5. Ends'
  BY <1>1 DEF IInv, Ends, Finish, vars
<1> QED
  BY <1>3, <1>4, <1>5 DEF IInv

-----------------------------------------------------------------------------
\* The invariant holds in every reachable state.
THEOREM SpecIInv == Spec => []IInv
<1>1. IInv /\ [Next]_vars => IInv'
  BY MergeStep, RefuseStep, FinishStep DEF Next
<1> QED
  BY InitIInv, <1>1, PTL DEF Spec

\* The plan and the recorded conflicts keep their type.
THEOREM SpecTypeOK == Spec => []TypeOK
<1>1. IInv => TypeOK
  BY DEF IInv
<1> QED
  BY SpecIInv, <1>1, PTL

\* Every entry of the plan is written with its own payload.
THEOREM SpecPayloadBacksEntry == Spec => []PayloadBacksEntry
<1>1. IInv => PayloadBacksEntry
  BY DEF IInv
<1> QED
  BY SpecIInv, <1>1, PTL

\* A merged plan applies a newest state of every path any package changes.
THEOREM SpecNewestIsApplied == Spec => []NewestIsApplied
<1>1. IInv => NewestIsApplied
  BY DEF IInv, Ends, Covered, Newest, NewestIsApplied, Declares, N
<1> QED
  BY SpecIInv, <1>1, PTL

\* No losing entry broadens what the plan may overwrite.
THEOREM SpecLosersPermitNothing == Spec => []LosersPermitNothing
<1>1. IInv => LosersPermitNothing
  BY DEF IInv
<1> QED
  BY SpecIInv, <1>1, PTL

\* The strict merge depends on the set of packages only.
THEOREM SpecStrictMergeIsOrderFree == Spec => []StrictMergeIsOrderFree
<1>1. IInv => StrictMergeIsOrderFree
  <2> SUFFICES ASSUME IInv, ~allowDuplicate, outcome # "merging",
                      \A i \in 1 .. N : packages[i].layout = packages[1].layout
               PROVE  /\ outcome = "merged" <=> \A p \in Path : Agree(p)
                      /\ outcome = "merged" =>
                           \A p \in DOMAIN plan : plan[p].accepted =
                             {EntryOf(i, p).previous : i \in {k \in 1 .. N : Declares(k, p)}}
    BY DEF StrictMergeIsOrderFree, N
  <2> USE DEF IInv
  <2>1. ASSUME outcome = "merged", NEW p \in Path PROVE Agree(p)
    <3> SUFFICES ASSUME NEW i \in 1 .. N, NEW j \in 1 .. N, Declares(i, p), Declares(j, p)
                 PROVE  Compatible(EntryOf(i, p), EntryOf(j, p))
      BY DEF Agree, N
    <3>1. Compatible(EntryOf(i, p), plan[p].entry) /\ Compatible(EntryOf(j, p), plan[p].entry)
      BY <2>1 DEF Strict, Ends, Declares
    <3> QED
      BY <3>1 DEF Compatible
  <2>2. ASSUME \A p \in Path : Agree(p) PROVE outcome = "merged"
    <3>1. SUFFICES ASSUME outcome = "refused" PROVE FALSE
      BY DEF TypeOK
    <3>2. PICK c \in conflicts : TRUE
      BY <3>1 DEF Ends
    <3>3. PICK i, j \in 1 .. N :
                 /\ c[1] \in DOMAIN packages[i].entries /\ c[1] \in DOMAIN packages[j].entries
                 /\ ~Compatible(EntryOf(i, c[1]), EntryOf(j, c[1]))
      BY <3>2 DEF Justified
    <3>4. c[1] \in Path
      BY <3>3, DeclaredTyped
    <3> QED
      BY <2>2, <3>3, <3>4 DEF Agree, Declares, N
  <2>3. ASSUME outcome = "merged", NEW p \in DOMAIN plan
        PROVE  plan[p].accepted = {EntryOf(i, p).previous : i \in {k \in 1 .. N : Declares(k, p)}}
    <3>1. \A s \in plan[p].accepted : \E i \in 1 .. N : Declares(i, p) /\ EntryOf(i, p).previous = s
      BY DEF LosersPermitNothing, N
    <3>2. \A i \in 1 .. N : Declares(i, p) => EntryOf(i, p).previous \in plan[p].accepted
      BY <2>3 DEF Strict, Ends, Declares
    <3> QED
      BY <3>1, <3>2
  <2> QED
    BY <2>1, <2>2, <2>3
<1> QED
  BY SpecIInv, <1>1, PTL
=============================================================================
